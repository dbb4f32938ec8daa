--------------------------- MODULE AIRouterProofs ---------------------------
(***************************************************************************)
(* Proofs about AIRouter and Quota, for any number of concurrent chats,    *)
(* any providers, pools and limits, and any chain of fallbacks.            *)
(*                                                                         *)
(* FallbackInOrder says what a chat has asked of the providers before and  *)
(* after the one it has reached.  Its inductive form also says what it has *)
(* asked of that one: as many requests as failed there, and one more while *)
(* it has an answer to wait for or to record.  CountsAreRight needs that   *)
(* the chats whose request is not counted yet come and go one at a time.   *)
(*                                                                         *)
(* What a request carries is proved for conversations of any length, in    *)
(* any roles and with any texts.                                           *)
(***************************************************************************)
EXTENDS MCAIRouter, FiniteSetTheorems, TLAPS

-----------------------------------------------------------------------------
(***************************************************************************)
(* The chain of providers.                                                 *)
(***************************************************************************)

\* The requested provider is taken out of the fallbacks where it stands.
LEMMA ChainCases ==
  ASSUME NEW p \in Providers
  PROVE  \/ Chain(p) = <<p>> \o Fallback /\ \A i \in DOMAIN Fallback : Fallback[i] # p
         \/ \E i \in DOMAIN Fallback :
              /\ Fallback[i] = p
              /\ Chain(p) = <<p>> \o (SubSeq(Fallback, 1, i - 1)
                                      \o SubSeq(Fallback, i + 1, Len(Fallback)))
<1> DEFINE I == {i \in 1..Len(Fallback) : Fallback[i] = p}
<1>1. CASE I # {}
  <2>1. \A i, j \in I : i = j
    BY RouterAssumption DEF IsInjective
  <2>2. Min(I) \in I
    BY <1>1, <2>1 DEF Min
  <2>3. SelectInSeq(Fallback, LAMBDA v : v = p) = Min(I)
    BY <1>1 DEF SelectInSeq
  <2>4. RemoveFirst(Fallback, p) = RemoveAt(Fallback, Min(I))
    BY <1>1, <2>3 DEF RemoveFirst
  <2>5. Min(I) \in DOMAIN Fallback /\ Fallback[Min(I)] = p
    BY <2>2, RouterAssumption
  <2> QED
    BY <2>4, <2>5 DEF Chain, RemoveAt
<1>2. CASE I = {}
  <2>1. ~ \E i \in 1..Len(Fallback) : Fallback[i] = p
    BY <1>2
  <2>2. RemoveFirst(Fallback, p) = Fallback
    BY <2>1 DEF RemoveFirst
  <2> QED
    BY <2>1, <2>2, RouterAssumption DEF Chain
<1> QED
  BY <1>1, <1>2

\* An element in front of a sequence moves the others by one.
LEMMA OneInFront ==
  ASSUME NEW S, NEW e \in S, NEW q \in Seq(S)
  PROVE  /\ <<e>> \o q \in Seq(S) /\ Len(<<e>> \o q) = Len(q) + 1
         /\ DOMAIN (<<e>> \o q) = 1..Len(q) + 1
         /\ (<<e>> \o q)[1] = e
         /\ \A k \in 2..Len(q) + 1 : (<<e>> \o q)[k] = q[k - 1]
  OBVIOUS

\* No provider comes twice in a chain (router.go:84-90).
LEMMA ChainIsInjective ==
  ASSUME NEW p \in Providers
  PROVE  Chain(p) \in Seq(Providers) /\ IsInjective(Chain(p))
<1>1. Fallback \in Seq(Providers) /\ \A i, j \in DOMAIN Fallback : Fallback[i] = Fallback[j] => i = j
  BY RouterAssumption DEF IsInjective
<1>2. CASE Chain(p) = <<p>> \o Fallback /\ \A i \in DOMAIN Fallback : Fallback[i] # p
  <2>1. /\ Chain(p) \in Seq(Providers) /\ DOMAIN Chain(p) = 1..Len(Fallback) + 1
        /\ Chain(p)[1] = p
        /\ \A k \in 2..Len(Fallback) + 1 : Chain(p)[k] = Fallback[k - 1]
    BY <1>1, <1>2, OneInFront
  <2> QED
    BY <1>1, <1>2, <2>1 DEF IsInjective
<1>3. ASSUME NEW i \in DOMAIN Fallback, Fallback[i] = p,
             Chain(p) = <<p>> \o (SubSeq(Fallback, 1, i - 1)
                                  \o SubSeq(Fallback, i + 1, Len(Fallback)))
      PROVE  Chain(p) \in Seq(Providers) /\ IsInjective(Chain(p))
  <2> DEFINE before == SubSeq(Fallback, 1, i - 1)
             after == SubSeq(Fallback, i + 1, Len(Fallback))
  <2>1. /\ before \in Seq(Providers) /\ Len(before) = i - 1
        /\ \A k \in 1..i - 1 : before[k] = Fallback[k]
    BY <1>1
  <2>2. /\ after \in Seq(Providers) /\ Len(after) = Len(Fallback) - i
        /\ \A k \in 1..Len(Fallback) - i : after[k] = Fallback[k + i]
    BY <1>1
  <2> HIDE DEF before, after
  <2> DEFINE others == before \o after
  <2>3. /\ others \in Seq(Providers) /\ Len(others) = Len(Fallback) - 1
        /\ \A k \in 1..Len(Fallback) - 1 :
             others[k] = IF k < i THEN Fallback[k] ELSE Fallback[k + 1]
    BY <1>1, <2>1, <2>2
  <2>4. Chain(p) = <<p>> \o others
    BY <1>3 DEF before, after
  <2> HIDE DEF others
  <2>5. Len(Fallback) \in Nat /\ Len(others) + 1 = Len(Fallback)
    BY <1>1, <2>3
  <2>6. /\ Chain(p) \in Seq(Providers) /\ DOMAIN Chain(p) = 1..Len(Fallback)
        /\ Chain(p)[1] = p
        /\ \A k \in 2..Len(Fallback) : Chain(p)[k] = others[k - 1]
    BY <2>3, <2>4, <2>5, OneInFront
  <2> DEFINE From(k) == IF k = 1 THEN i ELSE IF k <= i THEN k - 1 ELSE k
  <2>7. ASSUME NEW k \in 1..Len(Fallback)
        PROVE  From(k) \in DOMAIN Fallback /\ Chain(p)[k] = Fallback[From(k)]
    <3>1. i \in 1..Len(Fallback) /\ DOMAIN Fallback = 1..Len(Fallback) /\ Fallback[i] = p
      BY <1>1, <1>3
    <3>2. CASE k = 1
      BY <2>6, <3>1, <3>2
    <3>3. CASE k # 1
      <4>1. k \in 2..Len(Fallback) /\ k - 1 \in 1..Len(Fallback) - 1
        BY <2>5, <3>3
      <4>2. Chain(p)[k] = IF k - 1 < i THEN Fallback[k - 1] ELSE Fallback[(k - 1) + 1]
        BY <2>3, <2>6, <4>1
      <4> QED
        BY <2>5, <3>1, <3>3, <4>1, <4>2
    <3> QED
      BY <3>2, <3>3
  <2>8. \A k, l \in 1..Len(Fallback) : From(k) = From(l) => k = l
    BY <1>1, <2>5
  <2> HIDE DEF From
  <2> QED
    BY <1>1, <2>6, <2>7, <2>8 DEF IsInjective
<1> QED
  BY <1>2, <1>3, ChainCases

-----------------------------------------------------------------------------
(***************************************************************************)
(* The inductive invariant.                                                *)
(***************************************************************************)

\* The requests a chat has sent to the provider it has reached.
SentHere(r) ==
  IF r.at \in {"waiting", "recording", "tracking"} THEN r.attempt + 1 ELSE r.attempt

\* What a chat has sent is in the order of its chain.
InOrder(r) ==
  /\ IsInjective(r.chain)
  /\ \A k \in DOMAIN r.chain : r.tries[r.chain[k]] <= MaxRetries
  /\ r.at # "idle" => r.pos <= Len(r.chain) + 1
  /\ r.at \notin {"idle", "checking"} => r.pos <= Len(r.chain)
  /\ r.at \in {"checking", "choosing", "registering"} => r.attempt = 0
  /\ r.at # "idle" =>
       \A k \in DOMAIN r.chain :
         /\ k < r.pos => r.tries[r.chain[k]] \in {0, MaxRetries}
         /\ k = r.pos => r.tries[r.chain[k]] = SentHere(r)
         /\ k > r.pos => r.tries[r.chain[k]] = 0

ChatsInOrder == client \in [Clients -> Progress] /\ \A c \in Clients : InOrder(client[c])

\* There is a first attempt.
LEMMA Constants ==
  MaxRetries \in Nat /\ MaxRetries > 0 /\ 0 \in 0..MaxRetries - 1
BY RouterAssumption

\* One chat goes on, the others stay where they are.
LEMMA OneGoesOn ==
  ASSUME ChatsInOrder, NEW c \in Clients, NEW r \in Progress, InOrder(r),
         client' = [client EXCEPT ![c] = r]
  PROVE  ChatsInOrder'
BY DEF ChatsInOrder

\* A chat that goes on within its provider, without having sent or lost a
\* request there.
LEMMA GoesOnHere ==
  ASSUME ChatsInOrder, NEW c \in Clients, NEW r \in Progress,
         client' = [client EXCEPT ![c] = r],
         At(c) # "idle", r.at # "idle",
         r.chain = client[c].chain, r.tries = client[c].tries,
         r.pos = client[c].pos, r.pos <= Len(r.chain),
         SentHere(r) = SentHere(client[c]),
         r.at \in {"checking", "choosing", "registering"} => r.attempt = 0
  PROVE  ChatsInOrder'
<1>1. InOrder(client[c])
  BY DEF ChatsInOrder
<1>2. InOrder(r)
  BY <1>1 DEF InOrder, At
<1> QED
  BY <1>2, OneGoesOn

\* A chat that is done with its provider goes on to the next.
LEMMA GoesOnToNext ==
  ASSUME ChatsInOrder, NEW c \in Clients, At(c) # "idle", NextProvider(c),
         ~Exhausted(c), SentHere(client[c]) \in {0, MaxRetries}
  PROVE  ChatsInOrder'
<1> DEFINE o == client[c]
           r == [o EXCEPT !.at = "checking", !.pos = @ + 1, !.attempt = 0]
<1>1. o \in Progress /\ InOrder(o) /\ o.at # "idle" /\ o.pos <= Len(o.chain)
      /\ SentHere(o) \in {0, MaxRetries}
      /\ o.chain \in Seq(Providers)
  BY DEF ChatsInOrder, At, Exhausted, Progress
<1>2. client' = [client EXCEPT ![c] = r]
  BY DEF NextProvider, ChatsInOrder
<1> HIDE DEF o
<1>3. r \in Progress
  <2>1. o.pos + 1 \in Nat \ {0} /\ "checking" \in Places
    BY <1>1 DEF Progress, Places
  <2> QED
    BY <1>1, <2>1, Constants DEF Progress
<1>4. r.at = "checking" /\ r.pos = o.pos + 1 /\ r.attempt = 0 /\ r.chain = o.chain
      /\ r.tries = o.tries /\ o.pos \in Nat /\ Len(o.chain) \in Nat
      /\ DOMAIN o.chain = 1..Len(o.chain)
  BY <1>1 DEF Progress
<1> HIDE DEF r
<1>5. SentHere(r) = 0
  BY <1>4 DEF SentHere
<1>6. InOrder(r)
  BY <1>1, <1>4, <1>5 DEF InOrder
<1> QED
  BY <1>2, <1>3, <1>6, OneGoesOn

\* A chat that has returned has sent no more than it may.
LEMMA ComesToRest ==
  ASSUME ChatsInOrder, NEW c \in Clients, Go(c, "idle")
  PROVE  ChatsInOrder'
<1> DEFINE r == [client[c] EXCEPT !.at = "idle"]
<1>1. client[c] \in Progress /\ InOrder(client[c])
  BY DEF ChatsInOrder
<1>2. r \in Progress /\ InOrder(r)
  BY <1>1 DEF Progress, Places, InOrder
<1>3. client' = [client EXCEPT ![c] = r]
  BY DEF Go, ChatsInOrder
<1> QED
  BY <1>2, <1>3, OneGoesOn

\* A chat at its beginning.
LEMMA FreshCall ==
  ASSUME NEW p \in Providers
  PROVE  LET r == [Fresh EXCEPT !.at = "checking", !.chain = Chain(p)]
         IN  /\ r \in Progress
             /\ r.at = "checking" /\ r.chain = Chain(p) /\ r.pos = 1 /\ r.attempt = 0
             /\ r.tokens = 0 /\ r.tries = [q \in Providers |-> 0]
<1>1. [q \in Providers |-> 0] \in [Providers -> Nat] /\ {"checking", "idle"} \subseteq Places
  BY DEF Places
<1>2. Fresh \in Progress
  BY <1>1, Constants DEF Fresh, Zero, OwnAccount, Progress
<1>3. /\ Fresh.pos = 1 /\ Fresh.attempt = 0 /\ Fresh.tokens = 0
      /\ Fresh.tries = [q \in Providers |-> 0]
  BY DEF Fresh, Zero
<1> QED
  BY <1>1, <1>2, <1>3, ChainIsInjective DEF Progress

\* A chat that begins has asked nobody yet (router.go:80-95).
LEMMA BeginsInOrder ==
  ASSUME ChatsInOrder, NEW c \in Clients, Begin(c)
  PROVE  ChatsInOrder'
<1>1. PICK p \in Providers :
        client' = [client EXCEPT ![c] = [Fresh EXCEPT !.at = "checking", !.chain = Chain(p)]]
  BY DEF Begin
<1> DEFINE r == [Fresh EXCEPT !.at = "checking", !.chain = Chain(p)]
<1>2. Chain(p) \in Seq(Providers) /\ IsInjective(Chain(p))
  BY ChainIsInjective
<1>3. /\ r.at = "checking" /\ r.chain = Chain(p) /\ r.pos = 1 /\ r.attempt = 0
      /\ r.tries = [q \in Providers |-> 0]
  BY FreshCall
<1>4. r \in Progress
  BY FreshCall
<1>5. \A k \in DOMAIN r.chain : r.tries[r.chain[k]] = 0
  BY <1>2, <1>3
<1>6. Len(r.chain) \in Nat
  BY <1>2, <1>3
<1> HIDE DEF r
<1>7. InOrder(r)
  BY <1>2, <1>3, <1>5, <1>6, Constants DEF InOrder, SentHere
<1> QED
  BY <1>1, <1>4, <1>7, OneGoesOn DEF r

\* A request is one more to the provider reached, and to no other.
LEMMA AsksInOrder ==
  ASSUME ChatsInOrder, NEW c \in Clients, Ask(c)
  PROVE  ChatsInOrder'
<1> DEFINE o == client[c]
           p == o.chain[o.pos]
           r == [o EXCEPT !.at = "waiting", !.tries[p] = @ + 1]
<1>1. o \in Progress /\ InOrder(o) /\ o.at = "asking" /\ o.pos \in DOMAIN o.chain
  <2>1. o \in Progress /\ InOrder(o) /\ o.at = "asking"
    BY DEF ChatsInOrder, Ask, At
  <2> HIDE DEF o
  <2>2. o.pos <= Len(o.chain)
    BY <2>1 DEF InOrder
  <2> QED
    BY <2>1, <2>2 DEF Progress
<1>2. client' = [client EXCEPT ![c] = r]
  BY DEF Ask, Here, ChatsInOrder
<1> HIDE DEF o
<1>3. /\ o.chain \in Seq(Providers) /\ p \in Providers /\ o.tries \in [Providers -> Nat]
      /\ o.attempt \in 0..MaxRetries - 1 /\ o.pos \in Nat /\ o.pos <= Len(o.chain)
      /\ \A k \in DOMAIN o.chain : o.chain[k] = p => k = o.pos
  BY <1>1 DEF Progress, InOrder, IsInjective
<1>4. /\ r.at = "waiting" /\ r.chain = o.chain /\ r.pos = o.pos /\ r.attempt = o.attempt
      /\ r.tries = [o.tries EXCEPT ![p] = @ + 1]
      /\ r.picked = o.picked /\ r.tokens = o.tokens
  BY <1>1 DEF Progress
<1>5. r \in Progress
  <2>1. [o.tries EXCEPT ![p] = @ + 1] \in [Providers -> Nat] /\ "waiting" \in Places
    BY <1>3 DEF Places
  <2> HIDE DEF p
  <2> QED
    BY <1>1, <2>1 DEF Progress
<1>6. o.tries[p] = o.attempt
  BY <1>1 DEF InOrder, SentHere
<1> HIDE DEF p, r
<1>7. \A k \in DOMAIN o.chain :
        r.tries[o.chain[k]] = IF k = o.pos THEN o.attempt + 1 ELSE o.tries[o.chain[k]]
  BY <1>1, <1>3, <1>4, <1>6 DEF p
<1>8. SentHere(r) = o.attempt + 1 /\ o.attempt + 1 <= MaxRetries
  BY <1>3, <1>4, Constants DEF SentHere
<1>9. InOrder(r)
  <2>1. IsInjective(r.chain)
    BY <1>1, <1>4 DEF InOrder
  <2>2. ASSUME NEW k \in DOMAIN r.chain
        PROVE  /\ r.tries[r.chain[k]] <= MaxRetries
               /\ k < r.pos => r.tries[r.chain[k]] \in {0, MaxRetries}
               /\ k = r.pos => r.tries[r.chain[k]] = SentHere(r)
               /\ k > r.pos => r.tries[r.chain[k]] = 0
    <3>1. k \in Nat /\ k \in DOMAIN o.chain /\ r.pos = o.pos
          /\ r.tries[r.chain[k]] = IF k = o.pos THEN o.attempt + 1 ELSE o.tries[o.chain[k]]
      BY <1>3, <1>4, <1>7
    <3>2. /\ o.tries[o.chain[k]] <= MaxRetries
          /\ k < o.pos => o.tries[o.chain[k]] \in {0, MaxRetries}
          /\ k > o.pos => o.tries[o.chain[k]] = 0
      BY <1>1, <3>1 DEF InOrder
    <3> QED
      BY <1>3, <1>8, <3>1, <3>2
  <2>3. r.pos <= Len(r.chain) /\ r.pos <= Len(r.chain) + 1
    BY <1>3, <1>4
  <2> QED
    BY <1>4, <2>1, <2>2, <2>3 DEF InOrder
<1> QED
  BY <1>2, <1>5, <1>9, OneGoesOn

\* The retries of a provider are over when it has got all of them.
LEMMA RefusedInOrder ==
  ASSUME ChatsInOrder, NEW c \in Clients, Refused(c)
  PROVE  ChatsInOrder'
<1>1. /\ client[c] \in Progress /\ InOrder(client[c]) /\ client[c].at = "waiting"
      /\ client[c].attempt \in 0..MaxRetries - 1 /\ client[c].pos <= Len(client[c].chain)
  BY DEF ChatsInOrder, Refused, At, Progress, InOrder
<1>2. CASE client[c].attempt + 1 < MaxRetries
  <2> DEFINE r == [client[c] EXCEPT !.at = "asking", !.attempt = @ + 1]
  <2>1. client' = [client EXCEPT ![c] = r]
    BY <1>2 DEF Refused, ChatsInOrder
  <2>2. client[c].attempt + 1 \in 0..MaxRetries - 1
    BY <1>1, <1>2, Constants
  <2>3. r \in Progress
    BY <1>1, <2>2 DEF Progress, Places
  <2>4. /\ r.at = "asking" /\ r.attempt = client[c].attempt + 1 /\ r.chain = client[c].chain
        /\ r.tries = client[c].tries /\ r.pos = client[c].pos
    BY <1>1 DEF Progress
  <2> HIDE DEF r
  <2>5. SentHere(r) = SentHere(client[c])
    BY <1>1, <2>4 DEF SentHere
  <2> QED
    BY <1>1, <2>1, <2>3, <2>4, <2>5, GoesOnHere DEF At
<1>3. CASE ~ (client[c].attempt + 1 < MaxRetries)
  <2>1. NextProvider(c) /\ SentHere(client[c]) = MaxRetries
    BY <1>1, <1>3, Constants DEF Refused, SentHere
  <2> QED
    <3>1. At(c) # "idle" /\ ~Exhausted(c)
      BY <1>1 DEF At, Exhausted, Progress
    <3> QED
      BY <2>1, <3>1, GoesOnToNext
<1> QED
  BY <1>2, <1>3

\* A step that changes nothing of a chat but where it is.
LEMMA GoesInOrder ==
  ASSUME ChatsInOrder, NEW c \in Clients, NEW place \in Places, Go(c, place),
         ~Exhausted(c),
         \/ At(c) = "checking" /\ place = "choosing"
         \/ At(c) = "choosing" /\ place = "asking"
         \/ At(c) = "registering" /\ place = "asking"
         \/ At(c) = "recording" /\ place = "tracking"
  PROVE  ChatsInOrder'
<1> DEFINE r == [client[c] EXCEPT !.at = place]
<1>1. client[c] \in Progress /\ InOrder(client[c])
  BY DEF ChatsInOrder
<1>2. /\ r \in Progress /\ r.at = place /\ r.chain = client[c].chain
      /\ r.tries = client[c].tries /\ r.pos = client[c].pos
      /\ r.attempt = client[c].attempt
  BY <1>1 DEF Progress
<1>3. client' = [client EXCEPT ![c] = r]
  BY DEF Go, ChatsInOrder
<1>4. client[c].pos <= Len(client[c].chain)
  BY <1>1 DEF Exhausted, Progress
<1> HIDE DEF r
<1>5. /\ SentHere(r) = SentHere(client[c])
      /\ r.at \in {"checking", "choosing", "registering"} => r.attempt = 0
  BY <1>1, <1>2 DEF SentHere, InOrder, At
<1> QED
  BY <1>2, <1>3, <1>4, <1>5, GoesOnHere DEF At

\* Every step of a chat keeps to the order.
LEMMA StepsInOrder ==
  ASSUME ChatsInOrder, index \in [Providers -> Nat], NEW c \in Clients, Step(c)
  PROVE  ChatsInOrder'
<1>1. client[c] \in Progress /\ InOrder(client[c])
  BY DEF ChatsInOrder
<1>2. CASE CheckQuota(c)
  <2>1. At(c) = "checking" /\ ~Exhausted(c) /\ SentHere(client[c]) = 0
    BY <1>1, <1>2 DEF CheckQuota, InOrder, SentHere, At
  <2>2. CASE Go(c, "choosing")
    BY <2>1, <2>2, GoesInOrder DEF Places
  <2>3. CASE NextProvider(c)
    BY <2>1, <2>3, GoesOnToNext
  <2> QED
    BY <1>2, <2>2, <2>3 DEF CheckQuota
<1>3. CASE GiveUp(c) \/ Return(c)
  BY <1>3, ComesToRest DEF GiveUp, Return
<1>4. CASE PickFromPool(c)
  <2> DEFINE r == [client[c] EXCEPT !.at = "registering", !.picked = Pointed(Here(c))]
  <2>1. /\ At(c) = "choosing" /\ client[c].pos \in DOMAIN client[c].chain
        /\ Here(c) \in Providers /\ client[c].attempt = 0
    BY <1>1, <1>4 DEF PickFromPool, InOrder, Progress, At, Here
  <2>2. Pointed(Here(c)) \in Nat
    BY <1>4, <2>1, RouterAssumption DEF PickFromPool, Pointed
  <2>3. r \in Progress
    BY <1>1, <2>2 DEF Progress, Places
  <2>4. /\ r.at = "registering" /\ r.chain = client[c].chain /\ r.tries = client[c].tries
        /\ r.pos = client[c].pos /\ r.attempt = client[c].attempt
    BY <1>1 DEF Progress
  <2>5. client' = [client EXCEPT ![c] = r]
    BY <1>4 DEF PickFromPool, ChatsInOrder
  <2> HIDE DEF r
  <2>6. SentHere(r) = SentHere(client[c]) /\ r.pos <= Len(r.chain)
    BY <1>1, <2>1, <2>4 DEF SentHere, At, Progress
  <2> QED
    BY <2>1, <2>3, <2>4, <2>5, <2>6, GoesOnHere DEF At
<1>5. CASE FindProvider(c)
  <2>1. At(c) = "choosing" /\ ~Exhausted(c) /\ SentHere(client[c]) = 0
    BY <1>1, <1>5 DEF FindProvider, InOrder, SentHere, At, Exhausted, Progress
  <2>2. CASE Go(c, "asking")
    BY <2>1, <2>2, GoesInOrder DEF Places
  <2>3. CASE NextProvider(c)
    BY <2>1, <2>3, GoesOnToNext
  <2> QED
    BY <1>5, <2>2, <2>3 DEF FindProvider
<1>6. CASE RegisterAccount(c)
  <2>1. At(c) = "registering" /\ ~Exhausted(c) /\ Go(c, "asking")
    BY <1>1, <1>6 DEF RegisterAccount, InOrder, At, Exhausted, Progress
  <2> QED
    BY <2>1, GoesInOrder DEF Places
<1>7. CASE Answered(c)
  <2>1. PICK n \in Costs :
          client' = [client EXCEPT ![c].at = "recording", ![c].tokens = n]
    BY <1>7 DEF Answered
  <2> DEFINE r == [client[c] EXCEPT !.at = "recording", !.tokens = n]
  <2>2. client' = [client EXCEPT ![c] = r]
    BY <2>1 DEF ChatsInOrder
  <2>3. r \in Progress
    BY <1>1, RouterAssumption DEF Progress, Places
  <2>4. /\ r.at = "recording" /\ r.chain = client[c].chain /\ r.tries = client[c].tries
        /\ r.pos = client[c].pos /\ r.attempt = client[c].attempt
    BY <1>1 DEF Progress
  <2>5. At(c) = "waiting"
    BY <1>7 DEF Answered
  <2> HIDE DEF r
  <2>6. SentHere(r) = SentHere(client[c]) /\ r.pos <= Len(r.chain)
    BY <1>1, <2>4, <2>5 DEF SentHere, At, InOrder
  <2> QED
    BY <2>2, <2>3, <2>4, <2>5, <2>6, GoesOnHere DEF At
<1>8. CASE RecordTokens(c)
  <2>1. At(c) = "recording" /\ ~Exhausted(c) /\ Go(c, "tracking")
    BY <1>1, <1>8 DEF RecordTokens, InOrder, At, Exhausted, Progress
  <2> QED
    BY <2>1, GoesInOrder DEF Places
<1> QED
  BY <1>2, <1>3, <1>4, <1>5, <1>6, <1>7, <1>8, AsksInOrder, RefusedInOrder DEF Step

-----------------------------------------------------------------------------
(***************************************************************************)
(* Accounts, tokens and quotas.                                            *)
(***************************************************************************)

\* The account a chat registers is one of the pool's; the provider it asks is
\* registered; the tokens it records are those of a response.
ChatDataKnown ==
  /\ index \in [Providers -> Nat]
  /\ account \in [Providers -> Int]
  /\ \A p \in Providers : account[p] \in Accounts(p) \cup {NoAccount}
  /\ \A c \in Clients :
       /\ At(c) = "registering" => client[c].picked \in 1..PoolSize[Here(c)]
       /\ At(c) \in {"asking", "waiting"} => account[Here(c)] # NoAccount
       /\ client[c].tokens \in Costs \cup {0}

\* A chat where it is, among its providers.
LEMMA HereIsAProvider ==
  ASSUME ChatsInOrder, NEW c \in Clients, At(c) \notin {"idle", "checking"}
  PROVE  Here(c) \in Providers /\ client[c].pos \in DOMAIN client[c].chain /\ ~Exhausted(c)
<1>1. client[c] \in Progress /\ InOrder(client[c])
  BY DEF ChatsInOrder
<1>2. client[c].pos <= Len(client[c].chain)
  BY <1>1 DEF InOrder, At
<1> QED
  BY <1>1, <1>2 DEF Progress, Here, Exhausted

\* Of the other chats nothing changes.
LEMMA OthersStay ==
  ASSUME ChatsInOrder, NEW c \in Clients, NEW d \in Clients, d # c, NEW r,
         client' = [client EXCEPT ![c] = r]
  PROVE  client'[d] = client[d] /\ At(d)' = At(d) /\ Here(d)' = Here(d)
BY DEF ChatsInOrder, At, Here

\* A chat that goes on with its data, and whose provider is registered when it
\* asks it.
LEMMA DataStayKnown ==
  ASSUME ChatsInOrder, ChatDataKnown, NEW c \in Clients, NEW r \in Progress,
         client' = [client EXCEPT ![c] = r],
         UNCHANGED <<index, account>>,
         r.at = "registering" => r.picked \in 1..PoolSize[r.chain[r.pos]],
         r.at \in {"asking", "waiting"} => account[r.chain[r.pos]] # NoAccount,
         r.tokens \in Costs \cup {0}
  PROVE  ChatDataKnown'
<1>1. client'[c] = r /\ At(c)' = r.at /\ Here(c)' = r.chain[r.pos]
  BY DEF ChatsInOrder, At, Here
<1>2. ASSUME NEW d \in Clients
      PROVE  /\ At(d)' = "registering" => client'[d].picked \in 1..PoolSize[Here(d)']
             /\ At(d)' \in {"asking", "waiting"} => account[Here(d)'] # NoAccount
             /\ client'[d].tokens \in Costs \cup {0}
  <2>1. CASE d = c
    BY <1>1, <2>1
  <2>2. CASE d # c
    <3>1. client'[d] = client[d] /\ At(d)' = At(d) /\ Here(d)' = Here(d)
      BY <2>2, OthersStay
    <3> QED
      BY <3>1 DEF ChatDataKnown
  <2> QED
    BY <2>1, <2>2
<1> QED
  BY <1>2 DEF ChatDataKnown

\* A chat that goes on keeps its provider, its account and what its answer
\* cost within what there is.
LEMMA StepsKeepData ==
  ASSUME ChatsInOrder, ChatDataKnown, NEW c \in Clients, Step(c) \/ Begin(c)
  PROVE  ChatDataKnown'
<1> DEFINE o == client[c]
<1>1. /\ o \in Progress /\ client \in [Clients -> Progress]
      /\ o.tokens \in Costs \cup {0} /\ o.pos \in Nat \ {0}
      /\ o.attempt \in 0..MaxRetries - 1 /\ o.tries \in [Providers -> Nat]
      /\ o.at \in {"asking", "waiting"} => account[Here(c)] # NoAccount
      /\ Here(c) = o.chain[o.pos] /\ At(c) = o.at
  BY DEF ChatsInOrder, ChatDataKnown, Here, At, Progress
<1>2. ASSUME NEW place \in Places, Go(c, place), UNCHANGED <<index, account>>,
             place # "registering",
             place \in {"asking", "waiting"} => account[Here(c)] # NoAccount
      PROVE  ChatDataKnown'
  <2> DEFINE r == [o EXCEPT !.at = place]
  <2>1. /\ client' = [client EXCEPT ![c] = r] /\ r \in Progress
        /\ r.at = place /\ r.chain = o.chain /\ r.pos = o.pos /\ r.tokens = o.tokens
    BY <1>1, <1>2 DEF Go, Progress
  <2> HIDE DEF r, o
  <2> QED
    BY <1>1, <1>2, <2>1, DataStayKnown
<1>3. ASSUME NextProvider(c), UNCHANGED <<index, account>>
      PROVE  ChatDataKnown'
  <2> DEFINE r == [o EXCEPT !.at = "checking", !.pos = @ + 1, !.attempt = 0]
  <2>1. o.pos + 1 \in Nat \ {0} /\ "checking" \in Places
    BY <1>1 DEF Progress, Places
  <2>2. client' = [client EXCEPT ![c] = r]
    BY <1>1, <1>3 DEF NextProvider
  <2> HIDE DEF o
  <2>3. r \in Progress /\ r.at = "checking" /\ r.tokens = o.tokens
    BY <1>1, <2>1, Constants DEF Progress
  <2> HIDE DEF r
  <2> QED
    BY <1>1, <1>3, <2>2, <2>3, DataStayKnown
<1>4. CASE Begin(c)
  <2>1. PICK p \in Providers :
          client' = [client EXCEPT ![c] = [Fresh EXCEPT !.at = "checking", !.chain = Chain(p)]]
    BY <1>4 DEF Begin
  <2> DEFINE r == [Fresh EXCEPT !.at = "checking", !.chain = Chain(p)]
  <2>2. r \in Progress /\ r.at = "checking" /\ r.tokens = 0
    BY FreshCall
  <2>3. client' = [client EXCEPT ![c] = r] /\ UNCHANGED <<index, account>>
    BY <1>4, <2>1 DEF Begin
  <2> HIDE DEF r
  <2> QED
    BY <2>2, <2>3, DataStayKnown
<1>5. CASE CheckQuota(c) \/ FindProvider(c) \/ GiveUp(c) \/ Return(c) \/ RecordTokens(c)
  <2>1. UNCHANGED <<index, account>>
    BY <1>5 DEF CheckQuota, FindProvider, GiveUp, Return, RecordTokens
  <2>2. \/ NextProvider(c)
        \/ \E place \in {"idle", "choosing", "tracking"} : Go(c, place)
        \/ Go(c, "asking") /\ account[Here(c)] # NoAccount
    BY <1>5 DEF CheckQuota, FindProvider, GiveUp, Return, RecordTokens
  <2> QED
    BY <1>2, <1>3, <2>1, <2>2 DEF Places
<1>6. CASE PickFromPool(c)
  <2> DEFINE r == [o EXCEPT !.at = "registering", !.picked = Pointed(Here(c))]
  <2>1. /\ client' = [client EXCEPT ![c] = r] /\ At(c) = "choosing"
        /\ index' = [index EXCEPT ![Here(c)] = @ + 1] /\ account' = account
        /\ PoolSize[Here(c)] > 0
    BY <1>1, <1>6 DEF PickFromPool, NextAccount
  <2>2. Here(c) \in Providers /\ index \in [Providers -> Nat]
    BY <2>1, HereIsAProvider DEF ChatDataKnown
  <2>3. PoolSize[Here(c)] \in Nat \ {0} /\ index[Here(c)] \in Nat
    BY <2>1, <2>2, RouterAssumption
  <2>4. Pointed(Here(c)) \in 1..PoolSize[Here(c)] /\ Pointed(Here(c)) \in Nat
    BY <2>3 DEF Pointed
  <2>5. /\ r \in Progress /\ r.at = "registering" /\ r.tokens = o.tokens
        /\ r.picked = Pointed(Here(c)) /\ r.chain[r.pos] = Here(c)
    BY <1>1, <2>4 DEF Progress, Places
  <2> HIDE DEF r, o
  <2>6. client'[c] = r /\ At(c)' = "registering" /\ Here(c)' = Here(c)
    BY <1>1, <2>1, <2>5 DEF At, Here
  <2>7. ASSUME NEW d \in Clients
        PROVE  /\ At(d)' = "registering" => client'[d].picked \in 1..PoolSize[Here(d)']
               /\ At(d)' \in {"asking", "waiting"} => account'[Here(d)'] # NoAccount
               /\ client'[d].tokens \in Costs \cup {0}
    <3>1. CASE d = c
      BY <1>1, <2>4, <2>5, <2>6, <3>1
    <3>2. CASE d # c
      <4>1. client'[d] = client[d] /\ At(d)' = At(d) /\ Here(d)' = Here(d)
        BY <2>1, <3>2, OthersStay
      <4> QED
        BY <2>1, <4>1 DEF ChatDataKnown
    <3> QED
      BY <3>1, <3>2
  <2> QED
    BY <2>1, <2>7, <2>2 DEF ChatDataKnown
<1>7. CASE RegisterAccount(c)
  <2> DEFINE r == [o EXCEPT !.at = "asking"]
  <2>1. /\ client' = [client EXCEPT ![c] = r]
        /\ account' = [account EXCEPT ![Here(c)] = o.picked] /\ index' = index
        /\ Here(c) \in Providers /\ o.picked \in 1..PoolSize[Here(c)]
        /\ PoolSize[Here(c)] \in Nat
    BY <1>1, <1>7, HereIsAProvider, RouterAssumption DEF RegisterAccount, Go, ChatDataKnown
  <2>2. /\ r \in Progress /\ r.at = "asking" /\ r.tokens = o.tokens
        /\ r.chain[r.pos] = Here(c)
    BY <1>1 DEF Progress, Places
  <2> HIDE DEF r, o
  <2>3. client'[c] = r /\ At(c)' = "asking" /\ Here(c)' = Here(c)
    BY <1>1, <2>1, <2>2 DEF At, Here
  <2>4. /\ account' \in [Providers -> Int]
        /\ \A p \in Providers :
             /\ account'[p] \in Accounts(p) \cup {NoAccount}
             /\ account[p] # NoAccount => account'[p] # NoAccount
        /\ account'[Here(c)] # NoAccount
    BY <2>1 DEF ChatDataKnown, Accounts, OwnAccount, NoAccount
  <2>5. ASSUME NEW d \in Clients
        PROVE  /\ At(d)' = "registering" => client'[d].picked \in 1..PoolSize[Here(d)']
               /\ At(d)' \in {"asking", "waiting"} => account'[Here(d)'] # NoAccount
               /\ client'[d].tokens \in Costs \cup {0}
    <3>1. CASE d = c
      BY <1>1, <2>2, <2>3, <2>4, <3>1
    <3>2. CASE d # c
      <4>1. /\ At(d)' = At(d) /\ Here(d)' = Here(d) /\ client'[d] = client[d]
            /\ At(d) \in {"asking", "waiting"} => Here(d) \in Providers
        BY <2>1, <3>2, OthersStay, HereIsAProvider
      <4> QED
        BY <2>4, <4>1 DEF ChatDataKnown
    <3> QED
      BY <3>1, <3>2
  <2> QED
    BY <2>1, <2>4, <2>5 DEF ChatDataKnown
<1>8. CASE Ask(c)
  <2> DEFINE p == Here(c)
             r == [o EXCEPT !.at = "waiting", !.tries[p] = @ + 1]
  <2>1. At(c) = "asking" /\ p \in Providers /\ UNCHANGED <<index, account>>
    BY <1>8, HereIsAProvider DEF Ask
  <2>2. client' = [client EXCEPT ![c] = r]
    BY <1>1, <1>8 DEF Ask
  <2> HIDE DEF o
  <2>3. [o.tries EXCEPT ![p] = @ + 1] \in [Providers -> Nat] /\ "waiting" \in Places
    BY <1>1, <2>1 DEF Places
  <2> HIDE DEF p
  <2>4. /\ r \in Progress /\ r.at = "waiting" /\ r.tokens = o.tokens
        /\ r.chain = o.chain /\ r.pos = o.pos
    BY <1>1, <2>3 DEF Progress
  <2> HIDE DEF r
  <2> QED
    BY <1>1, <2>1, <2>2, <2>4, DataStayKnown
<1>9. CASE Answered(c)
  <2>1. PICK n \in Costs : client' = [client EXCEPT ![c].at = "recording", ![c].tokens = n]
    BY <1>9 DEF Answered
  <2> DEFINE r == [o EXCEPT !.at = "recording", !.tokens = n]
  <2>2. /\ client' = [client EXCEPT ![c] = r] /\ r \in Progress
        /\ r.at = "recording" /\ r.tokens = n /\ UNCHANGED <<index, account>>
    BY <1>1, <1>9, <2>1, RouterAssumption DEF Answered, Progress, Places
  <2> HIDE DEF r
  <2> QED
    BY <2>2, DataStayKnown
<1>10. CASE Refused(c)
  <2>1. At(c) = "waiting" /\ UNCHANGED <<index, account>>
    BY <1>10 DEF Refused
  <2>2. CASE o.attempt + 1 < MaxRetries
    <3> DEFINE r == [o EXCEPT !.at = "asking", !.attempt = @ + 1]
    <3>1. client' = [client EXCEPT ![c] = r]
      BY <1>1, <1>10, <2>2 DEF Refused
    <3> HIDE DEF o
    <3>2. o.attempt + 1 \in 0..MaxRetries - 1 /\ "asking" \in Places
      BY <1>1, <2>2, Constants DEF Places
    <3>3. /\ r \in Progress /\ r.at = "asking" /\ r.tokens = o.tokens
          /\ r.chain = o.chain /\ r.pos = o.pos
      BY <1>1, <3>2 DEF Progress
    <3> HIDE DEF r
    <3> QED
      BY <1>1, <2>1, <3>1, <3>3, DataStayKnown
  <2>3. CASE ~ (o.attempt + 1 < MaxRetries)
    <3>1. NextProvider(c)
      BY <1>10, <2>3 DEF Refused
    <3> QED
      BY <1>3, <2>1, <3>1
  <2> QED
    BY <2>2, <2>3
<1> QED
  BY <1>4, <1>5, <1>6, <1>7, <1>8, <1>9, <1>10 DEF Step

\* Whoever records tokens, and wherever the period ends: what is counted is
\* within the limit and was spent (quota.go:40-60).
LEMMA QuotaSteps ==
  ASSUME QuotaTypeOK, CountedWithinLimit,
         \/ \E p \in Providers, n \in Nat : Record(p, n)
         \/ \E p \in Limited : PeriodEnds(p)
         \/ UNCHANGED quotaVars
  PROVE  QuotaTypeOK' /\ CountedWithinLimit'
<1>1. /\ used \in [Limited -> 0..MaxSpent] /\ expired \in [Limited -> BOOLEAN]
      /\ spent \in [Limited -> 0..MaxSpent]
      /\ MaxSpent \in Nat /\ Limit \in [Limited -> Nat]
  BY QuotaAssumption DEF QuotaTypeOK
<1>2. CASE UNCHANGED quotaVars
  BY <1>2 DEF quotaVars, QuotaTypeOK, CountedWithinLimit
<1>3. ASSUME NEW p \in Limited, PeriodEnds(p)
      PROVE  QuotaTypeOK' /\ CountedWithinLimit'
  <2>1. /\ expired' = [expired EXCEPT ![p] = TRUE]
        /\ spent' = [spent EXCEPT ![p] = 0] /\ used' = used
    BY <1>3 DEF PeriodEnds
  <2>2. QuotaTypeOK'
    BY <1>1, <2>1 DEF QuotaTypeOK
  <2>3. ASSUME NEW q \in Limited
        PROVE  /\ Limit[q] > 0 => used'[q] <= Limit[q]
               /\ ~expired'[q] => used'[q] <= spent'[q]
    BY <1>1, <2>1 DEF CountedWithinLimit
  <2> QED
    BY <2>2, <2>3 DEF CountedWithinLimit
<1>4. ASSUME NEW p \in Limited, NEW n \in Nat, Record(p, n)
      PROVE  QuotaTypeOK' /\ CountedWithinLimit'
  <2> DEFINE u == IF Fits(p, n) THEN Current(p) + n ELSE Current(p)
  <2>1. /\ used' = [used EXCEPT ![p] = u]
        /\ expired' = [expired EXCEPT ![p] = FALSE]
        /\ spent' = [spent EXCEPT ![p] = spent[p] + n]
        /\ spent[p] + n <= MaxSpent
    BY <1>4 DEF Record
  <2>2. /\ used[p] \in 0..MaxSpent /\ spent[p] \in 0..MaxSpent /\ Limit[p] \in Nat
        /\ expired[p] \in BOOLEAN
    BY <1>1
  <2>3. Current(p) \in Nat /\ Current(p) <= spent[p] /\ (Limit[p] > 0 => Current(p) <= Limit[p])
    BY <2>2 DEF Current, CountedWithinLimit
  <2>4. u \in Nat /\ u <= spent[p] + n /\ (Limit[p] > 0 => u <= Limit[p])
    BY <2>2, <2>3 DEF Fits
  <2> HIDE DEF u
  <2>5. QuotaTypeOK'
    BY <1>1, <2>1, <2>2, <2>4 DEF QuotaTypeOK
  <2>6. ASSUME NEW q \in Limited
        PROVE  /\ Limit[q] > 0 => used'[q] <= Limit[q]
               /\ ~expired'[q] => used'[q] <= spent'[q]
    BY <1>1, <2>1, <2>4 DEF CountedWithinLimit
  <2> QED
    BY <2>5, <2>6 DEF CountedWithinLimit
<1> QED
  BY <1>2, <1>3, <1>4 DEF Record

-----------------------------------------------------------------------------
(***************************************************************************)
(* The statistics.                                                         *)
(***************************************************************************)

RequestsCounted ==
  /\ succeeded \in [Providers -> Nat] /\ failed \in [Providers -> Nat]
  /\ asked \in [Providers -> Nat]
  /\ EveryRequestIsCounted

InFlight == {"waiting", "recording", "tracking"}

\* There are finitely many chats, so those not counted yet have a number.
LEMMA UncountedFinite ==
  ASSUME NEW p
  PROVE  IsFiniteSet(Uncounted(p)) /\ Cardinality(Uncounted(p)) \in Nat
<1>1. Uncounted(p) \subseteq Clients
  BY DEF Uncounted
<1> QED
  BY <1>1, RouterAssumption, FS_Subset, FS_CardinalityType

\* A chat that sends nothing and counts nothing.
LEMMA SameUncounted ==
  ASSUME ChatsInOrder, RequestsCounted, NEW c \in Clients, NEW r,
         client' = [client EXCEPT ![c] = r],
         \/ r.at \notin InFlight /\ At(c) \notin InFlight
         \/ r.at \in InFlight /\ At(c) \in InFlight /\ r.chain[r.pos] = Here(c),
         UNCHANGED <<statistics, asked>>
  PROVE  RequestsCounted'
<1>1. client'[c] = r /\ At(c)' = r.at /\ Here(c)' = r.chain[r.pos]
  BY DEF ChatsInOrder, At, Here
<1>2. ASSUME NEW p \in Providers
      PROVE  Uncounted(p)' = Uncounted(p)
  <2>1. ASSUME NEW d \in Clients
        PROVE  (At(d)' \in InFlight /\ Here(d)' = p) <=> (At(d) \in InFlight /\ Here(d) = p)
    <3>1. CASE d = c
      BY <1>1, <3>1
    <3>2. CASE d # c
      <4>1. At(d)' = At(d) /\ Here(d)' = Here(d)
        BY <3>2, OthersStay
      <4> QED
        BY <4>1
    <3> QED
      BY <3>1, <3>2
  <2> QED
    BY <2>1 DEF Uncounted, InFlight
<1> QED
  BY <1>2 DEF RequestsCounted, EveryRequestIsCounted, statistics

\* A chat that sends a request is one more to be counted.
LEMMA OneMoreUncounted ==
  ASSUME ChatsInOrder, NEW c \in Clients, NEW r,
         client' = [client EXCEPT ![c] = r],
         At(c) \notin InFlight, r.at \in InFlight, r.chain[r.pos] = Here(c),
         NEW p \in Providers
  PROVE  Cardinality(Uncounted(p)')
           = IF p = Here(c) THEN Cardinality(Uncounted(p)) + 1 ELSE Cardinality(Uncounted(p))
<1>1. client'[c] = r /\ At(c)' = r.at /\ Here(c)' = Here(c)
  BY DEF ChatsInOrder, At, Here
<1>2. \A d \in Clients : d # c => At(d)' = At(d) /\ Here(d)' = Here(d)
  BY OthersStay
<1>3. Uncounted(p)' = IF p = Here(c) THEN Uncounted(p) \cup {c} ELSE Uncounted(p)
  BY <1>1, <1>2 DEF Uncounted, InFlight
<1>4. c \notin Uncounted(p)
  BY DEF Uncounted, InFlight
<1> QED
  BY <1>3, <1>4, UncountedFinite, FS_AddElement

\* A chat whose request is counted is one less.
LEMMA OneLessUncounted ==
  ASSUME ChatsInOrder, NEW c \in Clients, NEW r,
         client' = [client EXCEPT ![c] = r],
         At(c) \in InFlight, r.at \notin InFlight,
         NEW p \in Providers
  PROVE  Cardinality(Uncounted(p))
           = IF p = Here(c) THEN Cardinality(Uncounted(p)') + 1 ELSE Cardinality(Uncounted(p)')
<1>1. client'[c] = r /\ At(c)' = r.at
  BY DEF ChatsInOrder, At
<1>2. \A d \in Clients : d # c => At(d)' = At(d) /\ Here(d)' = Here(d)
  BY OthersStay
<1>3. Uncounted(p)' = Uncounted(p) \ {c}
  BY <1>1, <1>2 DEF Uncounted, InFlight
<1>4. c \in Uncounted(p) <=> p = Here(c)
  BY DEF Uncounted, InFlight
<1>5. IsFiniteSet(Uncounted(p)) /\ Cardinality(Uncounted(p)) \in Nat
  BY UncountedFinite
<1>6. Cardinality(Uncounted(p)') =
        IF c \in Uncounted(p) THEN Cardinality(Uncounted(p)) - 1 ELSE Cardinality(Uncounted(p))
  BY <1>3, <1>5, FS_RemoveElement
<1> QED
  BY <1>4, <1>5, <1>6

\* Whatever a chat does, each provider's statistics and the chats that have
\* still to add to them make up what the provider was asked.
LEMMA StepsCount ==
  ASSUME ChatsInOrder, RequestsCounted, NEW c \in Clients, Step(c) \/ Begin(c)
  PROVE  RequestsCounted'
<1> DEFINE o == client[c]
<1>1. o \in Progress /\ At(c) = o.at /\ Here(c) = o.chain[o.pos]
  BY DEF ChatsInOrder, At, Here
<1>2. ASSUME NEW r, client' = [client EXCEPT ![c] = r],
             r.at \notin InFlight, At(c) \notin InFlight, UNCHANGED <<statistics, asked>>
      PROVE  RequestsCounted'
  BY <1>2, SameUncounted
<1>3. ASSUME NEW r, client' = [client EXCEPT ![c] = r], r.at \in InFlight,
             At(c) \in InFlight, r.chain[r.pos] = Here(c), UNCHANGED <<statistics, asked>>
      PROVE  RequestsCounted'
  BY <1>3, SameUncounted
<1>4. ASSUME NEW place, Go(c, place)
      PROVE  \E r : /\ client' = [client EXCEPT ![c] = r]
                    /\ r.at = place /\ r.chain[r.pos] = Here(c)
  <2> DEFINE r == [o EXCEPT !.at = place]
  <2>1. client' = [client EXCEPT ![c] = r] /\ r.at = place /\ r.chain[r.pos] = Here(c)
    BY <1>1, <1>4 DEF Go, Progress, ChatsInOrder
  <2> QED
    BY <2>1
<1>5. ASSUME NextProvider(c)
      PROVE  \E r : client' = [client EXCEPT ![c] = r] /\ r.at = "checking"
  <2> DEFINE r == [o EXCEPT !.at = "checking", !.pos = @ + 1, !.attempt = 0]
  <2>1. client' = [client EXCEPT ![c] = r] /\ r.at = "checking"
    BY <1>1, <1>5 DEF NextProvider, Progress, ChatsInOrder
  <2> QED
    BY <2>1
<1>6. CASE CheckQuota(c) \/ FindProvider(c) \/ GiveUp(c) \/ RegisterAccount(c)
  <2>1. At(c) \notin InFlight /\ UNCHANGED <<statistics, asked>>
    BY <1>6 DEF CheckQuota, FindProvider, GiveUp, RegisterAccount, InFlight
  <2>2. NextProvider(c) \/ \E place \in {"choosing", "asking", "idle"} : Go(c, place)
    BY <1>6 DEF CheckQuota, FindProvider, GiveUp, RegisterAccount
  <2>3. PICK r : client' = [client EXCEPT ![c] = r]
                 /\ r.at \in {"checking", "choosing", "asking", "idle"}
    BY <1>4, <1>5, <2>2
  <2> QED
    BY <1>2, <2>1, <2>3 DEF InFlight
<1>7. CASE Begin(c)
  <2>1. PICK p \in Providers :
          client' = [client EXCEPT ![c] = [Fresh EXCEPT !.at = "checking", !.chain = Chain(p)]]
    BY <1>7 DEF Begin
  <2>2. At(c) = "idle" /\ UNCHANGED <<statistics, asked>>
    BY <1>7 DEF Begin
  <2> QED
    BY <1>2, <2>1, <2>2, FreshCall DEF InFlight
<1>8. CASE PickFromPool(c)
  <2> DEFINE r == [o EXCEPT !.at = "registering", !.picked = Pointed(Here(c))]
  <2>1. client' = [client EXCEPT ![c] = r] /\ r.at = "registering"
    BY <1>1, <1>8 DEF PickFromPool, ChatsInOrder, Progress
  <2>2. At(c) = "choosing" /\ UNCHANGED <<statistics, asked>>
    BY <1>8 DEF PickFromPool
  <2> QED
    BY <1>2, <2>1, <2>2 DEF InFlight
<1>9. CASE Answered(c)
  <2>1. PICK n \in Costs : client' = [client EXCEPT ![c].at = "recording", ![c].tokens = n]
    BY <1>9 DEF Answered
  <2> DEFINE r == [o EXCEPT !.at = "recording", !.tokens = n]
  <2>2. client' = [client EXCEPT ![c] = r] /\ r.at = "recording" /\ r.chain[r.pos] = Here(c)
    BY <1>1, <2>1 DEF ChatsInOrder, Progress
  <2>3. At(c) = "waiting" /\ UNCHANGED <<statistics, asked>>
    BY <1>9 DEF Answered
  <2> QED
    BY <1>3, <2>2, <2>3 DEF InFlight
<1>10. CASE RecordTokens(c)
  <2>1. At(c) = "recording" /\ Go(c, "tracking") /\ UNCHANGED <<statistics, asked>>
    BY <1>10 DEF RecordTokens
  <2> QED
    BY <1>3, <1>4, <2>1 DEF InFlight
<1>11. CASE Ask(c)
  <2> DEFINE q == Here(c)
             r == [o EXCEPT !.at = "waiting", !.tries[q] = @ + 1]
  <2>1. At(c) = "asking" /\ q \in Providers /\ UNCHANGED statistics
        /\ asked' = [asked EXCEPT ![q] = @ + 1]
    BY <1>11, HereIsAProvider DEF Ask
  <2>2. client' = [client EXCEPT ![c] = r] /\ r.at = "waiting" /\ r.chain[r.pos] = q
    BY <1>1, <1>11 DEF Ask, ChatsInOrder, Progress
  <2> HIDE DEF r
  <2>3. \A p \in Providers : Cardinality(Uncounted(p)')
           = IF p = q THEN Cardinality(Uncounted(p)) + 1 ELSE Cardinality(Uncounted(p))
    BY <2>1, <2>2, OneMoreUncounted DEF InFlight
  <2> HIDE DEF q
  <2>4. \A p \in Providers : Cardinality(Uncounted(p)) \in Nat
    BY UncountedFinite
  <2> QED
    BY <2>1, <2>3, <2>4 DEF RequestsCounted, EveryRequestIsCounted, statistics
<1>12. CASE Refused(c) \/ Return(c)
  <2> DEFINE q == Here(c)
  <2>1. At(c) \in InFlight /\ q \in Providers /\ asked' = asked
    BY <1>12, HereIsAProvider DEF Refused, Return, InFlight
  <2>2. \/ failed' = [failed EXCEPT ![q] = @ + 1] /\ succeeded' = succeeded
        \/ succeeded' = [succeeded EXCEPT ![q] = @ + 1] /\ failed' = failed
    BY <1>12 DEF Refused, Return
  <2>3. PICK r : client' = [client EXCEPT ![c] = r] /\ r.at \notin InFlight
    <3>1. CASE NextProvider(c)
      BY <1>5, <3>1 DEF InFlight
    <3>2. CASE Go(c, "idle")
      BY <1>4, <3>2 DEF InFlight
    <3>3. CASE client' = [client EXCEPT ![c].at = "asking", ![c].attempt = @ + 1]
      <4> DEFINE r == [o EXCEPT !.at = "asking", !.attempt = @ + 1]
      <4>1. client' = [client EXCEPT ![c] = r] /\ r.at = "asking"
        BY <1>1, <3>3 DEF ChatsInOrder, Progress
      <4> QED
        BY <4>1 DEF InFlight
    <3> QED
      BY <1>12, <3>1, <3>2, <3>3 DEF Refused, Return
  <2>4. \A p \in Providers : Cardinality(Uncounted(p))
           = IF p = q THEN Cardinality(Uncounted(p)') + 1 ELSE Cardinality(Uncounted(p)')
    BY <2>1, <2>3, OneLessUncounted
  <2> HIDE DEF q
  <2>5. \A p \in Providers : Cardinality(Uncounted(p)) \in Nat
    BY UncountedFinite
  <2>6. \A p \in Providers : Cardinality(Uncounted(p)') \in Nat
    <3>1. \A p : Uncounted(p)' \subseteq Clients
      BY DEF Uncounted
    <3> QED
      BY <3>1, RouterAssumption, FS_Subset, FS_CardinalityType
  <2> QED
    BY <2>1, <2>2, <2>4, <2>5, <2>6 DEF RequestsCounted, EveryRequestIsCounted
<1> QED
  BY <1>6, <1>7, <1>8, <1>9, <1>10, <1>11, <1>12 DEF Step

-----------------------------------------------------------------------------
(***************************************************************************)
(* The theorems.                                                           *)
(***************************************************************************)

RouterInv ==
  /\ calls \in 0..MaxCalls /\ aborted \in BOOLEAN
  /\ QuotaTypeOK /\ CountedWithinLimit
  /\ ChatsInOrder
  /\ ChatDataKnown
  /\ RequestsCounted

\* Before the first chat nothing is asked and nothing is counted.
LEMMA RouterInit ==
  ASSUME Init
  PROVE  RouterInv
<1>1. calls \in 0..MaxCalls /\ aborted \in BOOLEAN
  <2>1. calls \in 0..MaxCalls
    BY RouterAssumption DEF Init
  <2>2. aborted \in BOOLEAN
    BY DEF Init
  <2> QED
    BY <2>1, <2>2
<1>2. QuotaTypeOK /\ CountedWithinLimit
  BY QuotaAssumption DEF Init, QuotaInit, QuotaTypeOK, CountedWithinLimit
<1>3. [q \in Providers |-> 0] \in [Providers -> Nat] /\ "idle" \in Places
  BY DEF Places
<1>4. Fresh \in Progress /\ Fresh.at = "idle" /\ Fresh.chain = <<>> /\ Fresh.tokens = 0
  BY <1>3, Constants DEF Fresh, Zero, OwnAccount, Progress
<1>5. InOrder(Fresh)
  BY <1>4 DEF InOrder, IsInjective
<1>6. client = [c \in Clients |-> Fresh]
  BY DEF Init
<1>7. ChatsInOrder
  BY <1>4, <1>5, <1>6 DEF ChatsInOrder
<1>8. \A c \in Clients : At(c) = "idle" /\ client[c].tokens = 0
  BY <1>4, <1>6 DEF At
<1>9. /\ account \in [Providers -> Int]
      /\ \A p \in Providers : account[p] \in Accounts(p) \cup {NoAccount}
  <2>1. account = [p \in Providers |-> IF p \in Registered THEN OwnAccount ELSE NoAccount]
    BY DEF Init
  <2>2. OwnAccount \in Int /\ NoAccount \in Int
    BY DEF OwnAccount, NoAccount
  <2>3. \A p \in Providers : OwnAccount \in Accounts(p)
    BY RouterAssumption DEF Accounts, OwnAccount
  <2> QED
    BY <2>1, <2>2, <2>3
<1>10. ChatDataKnown
  <2>1. index \in [Providers -> Nat]
    BY <1>3 DEF Init, Zero
  <2> QED
    BY <1>8, <1>9, <2>1 DEF ChatDataKnown
<1>11. \A p : Uncounted(p) = {}
  BY <1>8 DEF Uncounted
<1>12. RequestsCounted
  BY <1>3, <1>11, FS_EmptySet DEF RequestsCounted, EveryRequestIsCounted, Init, Zero
<1> QED
  BY <1>1, <1>2, <1>7, <1>10, <1>12 DEF RouterInv

\* A step of a chat, its begin, a reset of a quota and an abort keep the
\* invariant.
LEMMA RouterNext ==
  ASSUME RouterInv, [Next]_vars
  PROVE  RouterInv'
<1>1. /\ calls \in 0..MaxCalls /\ aborted \in BOOLEAN /\ MaxCalls \in Nat
      /\ QuotaTypeOK /\ CountedWithinLimit
      /\ ChatsInOrder /\ ChatDataKnown /\ RequestsCounted
      /\ index \in [Providers -> Nat]
  BY RouterAssumption DEF RouterInv, ChatDataKnown
<1>2. ASSUME NEW c \in Clients, Step(c)
      PROVE  RouterInv'
  <2>1. aborted' = aborted /\ calls' = calls
    BY <1>2 DEF Step, CheckQuota, GiveUp, PickFromPool, FindProvider, RegisterAccount, Ask,
                Answered, Refused, RecordTokens, Return
  <2>2. (\E p \in Providers, n \in Nat : Record(p, n)) \/ UNCHANGED quotaVars
    <3>1. CASE RecordTokens(c)
      <4>1. Here(c) \in Providers /\ client[c].tokens \in Nat
        BY <1>1, <3>1, HereIsAProvider DEF RecordTokens, ChatsInOrder, Progress
      <4> QED
        BY <3>1, <4>1 DEF RecordTokens
    <3> QED
      BY <1>2, <3>1 DEF Step, CheckQuota, GiveUp, PickFromPool, FindProvider,
                        RegisterAccount, Ask, Answered, Refused, Return
  <2>3. QuotaTypeOK' /\ CountedWithinLimit'
    BY <1>1, <2>2, QuotaSteps
  <2>4. ChatsInOrder' /\ ChatDataKnown' /\ RequestsCounted'
    BY <1>1, <1>2, StepsInOrder, StepsKeepData, StepsCount
  <2> QED
    BY <1>1, <2>1, <2>3, <2>4 DEF RouterInv
<1>3. ASSUME NEW c \in Clients, Begin(c), UNCHANGED aborted
      PROVE  RouterInv'
  <2>1. calls' \in 0..MaxCalls /\ UNCHANGED quotaVars
    BY <1>1, <1>3 DEF Begin
  <2>2. QuotaTypeOK' /\ CountedWithinLimit'
    BY <1>1, <2>1, QuotaSteps
  <2>3. ChatsInOrder' /\ ChatDataKnown' /\ RequestsCounted'
    BY <1>1, <1>3, BeginsInOrder, StepsKeepData, StepsCount
  <2> QED
    BY <1>1, <1>3, <2>1, <2>2, <2>3 DEF RouterInv
<1>4. ASSUME UNCHANGED <<account, client, index, statistics, asked>>
      PROVE  ChatsInOrder' /\ ChatDataKnown' /\ RequestsCounted'
  BY <1>1, <1>4 DEF ChatsInOrder, ChatDataKnown, RequestsCounted, EveryRequestIsCounted,
                    Uncounted, At, Here, statistics
<1>5. CASE EndPeriod
  <2>1. QuotaTypeOK' /\ CountedWithinLimit'
    BY <1>1, <1>5, QuotaSteps DEF EndPeriod
  <2> QED
    BY <1>1, <1>4, <1>5, <2>1 DEF EndPeriod, RouterInv
<1>6. CASE Abort \/ UNCHANGED vars
  <2>1. /\ UNCHANGED <<account, client, index, statistics, asked>>
        /\ UNCHANGED quotaVars /\ calls' = calls /\ aborted' \in BOOLEAN
    BY <1>1, <1>6 DEF Abort, vars, quotaVars, statistics
  <2>2. QuotaTypeOK' /\ CountedWithinLimit'
    BY <1>1, <2>1, QuotaSteps
  <2> QED
    BY <1>1, <1>4, <2>1, <2>2 DEF RouterInv
<1> QED
  BY <1>2, <1>3, <1>5, <1>6 DEF Next

\* The chats of ChatWithFallback are in order, their data is known, and their
\* requests are counted, however many run at once (router.go:80-159).
THEOREM RouterInvariance == Spec => []RouterInv
  BY RouterInit, RouterNext, PTL DEF Spec

\* ChatWithFallback, the pools, the registry and the quotas keep to their
\* types; no chat asks a provider that is not registered.
THEOREM RouterTypeCorrect == Spec => []TypeOK
<1>1. ASSUME RouterInv
      PROVE  TypeOK
  <2>1. \A c \in Clients : At(c) \notin {"idle", "checking"} => ~Exhausted(c)
    BY <1>1, HereIsAProvider DEF RouterInv
  <2> QED
    BY <1>1, <2>1 DEF RouterInv, ChatsInOrder, ChatDataKnown, RequestsCounted, TypeOK
<1> QED
  BY <1>1, RouterInvariance, PTL

\* A call sends at most MaxRetries requests to a provider, and reaches it only
\* when those before it in its chain got all of theirs, or none
\* (router.go:84-123).
THEOREM FallbackIsInOrder == Spec => []FallbackInOrder
<1>1. ASSUME RouterInv
      PROVE  FallbackInOrder
  <2>1. ASSUME NEW c \in Clients, NEW k \in DOMAIN client[c].chain
        PROVE  LET n == client[c].tries[client[c].chain[k]]
               IN  /\ n <= MaxRetries
                   /\ At(c) # "idle" /\ k < client[c].pos => n \in {0, MaxRetries}
                   /\ At(c) # "idle" /\ k > client[c].pos => n = 0
    BY <1>1, <2>1 DEF RouterInv, ChatsInOrder, InOrder, At
  <2> QED
    BY <2>1 DEF FallbackInOrder
<1> QED
  BY <1>1, RouterInvariance, PTL

\* The statistics count every request once, and a quota counts no more tokens
\* than fit it or were spent (router.go:112-121, quota.go:40-60).
THEOREM RequestsAndTokensAreCounted == Spec => []CountsAreRight
<1>1. RouterInv => CountsAreRight
  BY DEF RouterInv, RequestsCounted, CountsAreRight
<1> QED
  BY <1>1, RouterInvariance, PTL

-----------------------------------------------------------------------------
(***************************************************************************)
(* That a chat comes to an end.                                            *)
(*                                                                         *)
(* A chat goes down its chain, and at each provider through its attempts.  *)
(* It waits for no other chat: but for an abort, and for the answer to its *)
(* request, each place has a step whose guard is the place.                *)
(***************************************************************************)

\* The providers a chat may still come to, this one included.
ProvidersAhead(r) == IF r.at = "idle" THEN 0 ELSE Len(r.chain) + 1 - r.pos

\* The steps it may still make at its provider, if every attempt fails there.
StepsHere(r) ==
  CASE r.at = "checking"    -> 2 * MaxRetries + 5
    [] r.at = "choosing"    -> 2 * MaxRetries + 4
    [] r.at = "registering" -> 2 * MaxRetries + 3
    [] r.at = "asking"      -> 2 * (MaxRetries - r.attempt) + 2
    [] r.at = "waiting"     -> 2 * (MaxRetries - r.attempt) + 1
    [] r.at = "recording"   -> 2
    [] r.at = "tracking"    -> 1
    [] r.at = "idle"        -> 0

\* A chat at r is closer to its end than it was at o.
IsCloser(r, o) ==
  \/ ProvidersAhead(r) < ProvidersAhead(o)
  \/ ProvidersAhead(r) = ProvidersAhead(o) /\ StepsHere(r) < StepsHere(o)

\* Both numbers have a bound, and every step of a chat that has begun lowers
\* them in the order of the chain; the steps of others leave them as they are.
ChatsComeCloser ==
  \A c \in Clients :
    /\ ProvidersAhead(client[c]) \in 0..Len(client[c].chain)
    /\ StepsHere(client[c]) \in 0..(2 * MaxRetries + 5)
    /\ At(c) # "idle" /\ client'[c] # client[c] => IsCloser(client'[c], client[c])

\* How far a chat is from its end.
LEMMA ChatIsBounded ==
  ASSUME NEW r \in Progress, InOrder(r)
  PROVE  /\ ProvidersAhead(r) \in 0..Len(r.chain)
         /\ StepsHere(r) \in 0..(2 * MaxRetries + 5)
<1>1. r.chain \in Seq(Providers) /\ r.pos \in Nat \ {0} /\ r.attempt \in 0..(MaxRetries - 1)
      /\ r.at \in Places
  BY DEF Progress
<1>2. Len(r.chain) \in Nat /\ (r.at # "idle" => r.pos <= Len(r.chain) + 1)
  BY <1>1 DEF InOrder
<1>3. ProvidersAhead(r) \in 0..Len(r.chain)
  BY <1>1, <1>2 DEF ProvidersAhead
<1>4. StepsHere(r) \in 0..(2 * MaxRetries + 5)
  <2>1. MaxRetries \in Nat /\ MaxRetries - r.attempt \in 0..MaxRetries
    BY <1>1, Constants
  <2>2. CASE r.at \in {"checking", "choosing", "registering"}
    BY <2>1, <2>2 DEF StepsHere
  <2>3. CASE r.at \in {"asking", "waiting"}
    BY <2>1, <2>3 DEF StepsHere
  <2>4. CASE r.at \in {"recording", "tracking", "idle"}
    BY <2>1, <2>4 DEF StepsHere
  <2> QED
    BY <1>1, <2>2, <2>3, <2>4 DEF Places
<1> QED BY <1>3, <1>4

\* At one provider: what a step there does to the steps ahead.
LEMMA CloserHere ==
  ASSUME NEW o \in Progress, NEW r \in Progress,
         r.chain = o.chain, r.pos = o.pos, o.at # "idle", r.at # "idle",
         StepsHere(r) < StepsHere(o)
  PROVE  IsCloser(r, o)
BY DEF IsCloser, ProvidersAhead

\* A chat that moves to another place at its provider, lower than its own.
LEMMA CloserAt ==
  ASSUME NEW o \in Progress, NEW r \in Progress,
         r.chain = o.chain, r.pos = o.pos, r.attempt = o.attempt,
         \/ o.at = "checking" /\ r.at = "choosing"
         \/ o.at = "choosing" /\ r.at \in {"registering", "asking"}
         \/ o.at = "registering" /\ r.at = "asking"
         \/ o.at = "asking" /\ r.at = "waiting"
         \/ o.at = "waiting" /\ r.at = "recording"
         \/ o.at = "recording" /\ r.at = "tracking"
  PROVE  IsCloser(r, o)
<1>1. o.attempt \in 0..(MaxRetries - 1) /\ MaxRetries \in Nat
  BY Constants DEF Progress
<1>2. CASE o.at = "checking" /\ r.at = "choosing"
  BY <1>1, <1>2, CloserHere DEF StepsHere
<1>3. CASE o.at = "choosing" /\ r.at \in {"registering", "asking"}
  BY <1>1, <1>3, CloserHere DEF StepsHere
<1>4. CASE o.at = "registering" /\ r.at = "asking"
  BY <1>1, <1>4, CloserHere DEF StepsHere
<1>5. CASE o.at = "asking" /\ r.at = "waiting"
  BY <1>1, <1>5, CloserHere DEF StepsHere
<1>6. CASE o.at = "waiting" /\ r.at = "recording"
  BY <1>1, <1>6, CloserHere DEF StepsHere
<1>7. CASE o.at = "recording" /\ r.at = "tracking"
  BY <1>1, <1>7, CloserHere DEF StepsHere
<1> QED
  BY <1>2, <1>3, <1>4, <1>5, <1>6, <1>7

\* A chat that leaves its provider, or returns from it.
LEMMA CloserBeyond ==
  ASSUME NEW o \in Progress, InOrder(o), NEW r \in Progress,
         r.chain = o.chain, o.at # "idle",
         \/ r.at = "checking" /\ r.pos = o.pos + 1 /\ o.pos <= Len(o.chain)
         \/ r.at = "idle" /\ o.pos <= Len(o.chain)
         \/ r.at = "idle" /\ o.at = "checking"
  PROVE  IsCloser(r, o)
<1>1. o.pos \in Nat \ {0} /\ Len(o.chain) \in Nat /\ o.pos <= Len(o.chain) + 1
      /\ MaxRetries \in Nat
  BY Constants DEF Progress, InOrder
<1>2. CASE r.at = "checking" /\ r.pos = o.pos + 1 /\ o.pos <= Len(o.chain)
  BY <1>1, <1>2 DEF IsCloser, ProvidersAhead
<1>3. CASE r.at = "idle" /\ o.pos <= Len(o.chain)
  BY <1>1, <1>3 DEF IsCloser, ProvidersAhead
<1>4. CASE r.at = "idle" /\ o.at = "checking"
  BY <1>1, <1>4 DEF IsCloser, ProvidersAhead, StepsHere
<1> QED
  BY <1>2, <1>3, <1>4

\* Each step of ChatWithFallback.
LEMMA StepIsCloser ==
  ASSUME ChatsInOrder, index \in [Providers -> Nat], NEW c \in Clients, Step(c)
  PROVE  \E r \in Progress : client' = [client EXCEPT ![c] = r] /\ IsCloser(r, client[c])
<1> DEFINE o == client[c]
<1>1. /\ o \in Progress /\ InOrder(o) /\ client \in [Clients -> Progress]
      /\ At(c) = o.at /\ Here(c) = o.chain[o.pos]
      /\ (~Exhausted(c) => o.pos <= Len(o.chain))
      /\ o.pos \in Nat /\ Len(o.chain) \in Nat /\ o.attempt \in 0..(MaxRetries - 1)
      /\ MaxRetries \in Nat
  BY Constants DEF ChatsInOrder, At, Here, Exhausted, Progress
<1>2. o.at \notin {"idle", "checking"} => o.pos <= Len(o.chain)
  BY <1>1 DEF InOrder
<1> DEFINE To(place) == [o EXCEPT !.at = place]
<1>3. ASSUME NEW place \in Places
      PROVE  /\ Go(c, place) => client' = [client EXCEPT ![c] = To(place)]
             /\ To(place) \in Progress /\ To(place).at = place
             /\ To(place).chain = o.chain /\ To(place).pos = o.pos
             /\ To(place).attempt = o.attempt
  BY <1>1, <1>3 DEF Go, Progress
<1> DEFINE on == [o EXCEPT !.at = "checking", !.pos = @ + 1, !.attempt = 0]
<1>4. /\ NextProvider(c) => client' = [client EXCEPT ![c] = on]
      /\ on \in Progress /\ on.at = "checking" /\ on.pos = o.pos + 1 /\ on.chain = o.chain
  <2>1. o.pos + 1 \in Nat \ {0} /\ 0 \in 0..MaxRetries - 1
    BY <1>1, Constants DEF Progress
  <2>2. on \in Progress
    BY <1>1, <2>1 DEF Progress, Places
  <2>3. on.at = "checking" /\ on.pos = o.pos + 1 /\ on.chain = o.chain
    BY <1>1 DEF Progress
  <2>4. NextProvider(c) => client' = [client EXCEPT ![c] = on]
    BY <1>1 DEF NextProvider
  <2> QED BY <2>2, <2>3, <2>4
<1> HIDE DEF o, To, on
<1>5. CASE CheckQuota(c)
  <2>1. At(c) = "checking" /\ ~Exhausted(c) /\ (Go(c, "choosing") \/ NextProvider(c))
    BY <1>5 DEF CheckQuota
  <2>2. o.at = "checking" /\ o.pos <= Len(o.chain)
    <3>1. At(c) = o.at /\ (~Exhausted(c) => o.pos <= Len(o.chain))
      BY <1>1
    <3> QED BY <2>1, <3>1
  <2>3. CASE Go(c, "choosing")
    <3>1. client' = [client EXCEPT ![c] = To("choosing")] /\ To("choosing") \in Progress
          /\ IsCloser(To("choosing"), o)
      BY <1>1, <1>3, <2>3, <2>2, CloserAt DEF Places
    <3> QED BY <3>1 DEF o
  <2>4. CASE NextProvider(c)
    <3>1. client' = [client EXCEPT ![c] = on] /\ on \in Progress /\ IsCloser(on, o)
      BY <1>1, <1>4, <2>4, <2>2, CloserBeyond
    <3> QED BY <3>1 DEF o
  <2> QED BY <2>1, <2>3, <2>4
<1>6. CASE GiveUp(c) \/ Return(c)
  <2>1. Go(c, "idle") /\ (o.at = "checking" \/ (o.at = "tracking" /\ o.pos <= Len(o.chain)))
    BY <1>1, <1>2, <1>6 DEF GiveUp, Return
  <2>2. client' = [client EXCEPT ![c] = To("idle")] /\ To("idle") \in Progress
        /\ IsCloser(To("idle"), o)
    BY <1>1, <1>3, <2>1, CloserBeyond DEF Places
  <2> QED BY <2>2 DEF o
<1>7. CASE PickFromPool(c)
  <2> DEFINE r == [o EXCEPT !.at = "registering", !.picked = Pointed(Here(c))]
  <2>1. o.at = "choosing" /\ client' = [client EXCEPT ![c] = r]
    BY <1>1, <1>7 DEF PickFromPool, o
  <2>2. r \in Progress /\ r.at = "registering" /\ r.pos = o.pos /\ r.chain = o.chain
        /\ r.attempt = o.attempt
    <3>1. ChatsInOrder'
      BY StepsInOrder
    <3>2. client'[c] = r
      BY <1>1, <2>1
    <3>3. r \in Progress
      BY <3>1, <3>2 DEF ChatsInOrder
    <3> QED BY <1>1, <3>3 DEF Progress
  <2>3. IsCloser(r, o)
    BY <1>1, <2>1, <2>2, CloserAt
  <2> QED BY <2>1, <2>2, <2>3 DEF o
<1>8. CASE FindProvider(c)
  <2>1. o.at = "choosing" /\ o.pos <= Len(o.chain) /\ (Go(c, "asking") \/ NextProvider(c))
    BY <1>1, <1>2, <1>8 DEF FindProvider
  <2>2. CASE Go(c, "asking")
    <3>1. client' = [client EXCEPT ![c] = To("asking")] /\ To("asking") \in Progress
          /\ IsCloser(To("asking"), o)
      BY <1>1, <1>3, <2>1, <2>2, CloserAt DEF Places
    <3> QED BY <3>1 DEF o
  <2>3. CASE NextProvider(c)
    <3>1. client' = [client EXCEPT ![c] = on] /\ on \in Progress /\ IsCloser(on, o)
      BY <1>1, <1>4, <2>1, <2>3, CloserBeyond
    <3> QED BY <3>1 DEF o
  <2> QED BY <2>1, <2>2, <2>3
<1>9. CASE RegisterAccount(c)
  <2>1. o.at = "registering" /\ Go(c, "asking")
    BY <1>1, <1>9 DEF RegisterAccount
  <2>2. client' = [client EXCEPT ![c] = To("asking")] /\ To("asking") \in Progress
        /\ IsCloser(To("asking"), o)
    BY <1>1, <1>3, <2>1, CloserAt DEF Places
  <2> QED BY <2>2 DEF o
<1>10. CASE RecordTokens(c)
  <2>1. o.at = "recording" /\ Go(c, "tracking")
    BY <1>1, <1>10 DEF RecordTokens
  <2>2. client' = [client EXCEPT ![c] = To("tracking")] /\ To("tracking") \in Progress
        /\ IsCloser(To("tracking"), o)
    BY <1>1, <1>3, <2>1, CloserAt DEF Places
  <2> QED BY <2>2 DEF o
<1>11. CASE Ask(c)
  <2> DEFINE r == [o EXCEPT !.at = "waiting", !.tries[Here(c)] = @ + 1]
  <2>1. o.at = "asking" /\ client' = [client EXCEPT ![c] = r]
    BY <1>1, <1>11 DEF Ask, o
  <2>2. r \in Progress /\ r.at = "waiting" /\ r.pos = o.pos /\ r.chain = o.chain
        /\ r.attempt = o.attempt
    <3>1. ChatsInOrder'
      BY StepsInOrder
    <3>2. client'[c] = r
      BY <1>1, <2>1
    <3>3. r \in Progress
      BY <3>1, <3>2 DEF ChatsInOrder
    <3> QED BY <1>1, <3>3 DEF Progress
  <2>3. IsCloser(r, o)
    BY <1>1, <2>1, <2>2, CloserAt
  <2> QED BY <2>1, <2>2, <2>3 DEF o
<1>12. CASE Answered(c)
  <2>1. PICK n \in Costs :
          client' = [client EXCEPT ![c].at = "recording", ![c].tokens = n]
    BY <1>12 DEF Answered
  <2> DEFINE r == [o EXCEPT !.at = "recording", !.tokens = n]
  <2>2. o.at = "waiting" /\ client' = [client EXCEPT ![c] = r]
    BY <1>1, <1>12, <2>1 DEF Answered, o
  <2>3. r \in Progress /\ r.at = "recording" /\ r.pos = o.pos /\ r.chain = o.chain
        /\ r.attempt = o.attempt
    BY <1>1, RouterAssumption DEF Progress, Places
  <2>4. IsCloser(r, o)
    BY <1>1, <2>2, <2>3, CloserAt
  <2> QED BY <2>2, <2>3, <2>4 DEF o
<1>13. CASE Refused(c)
  <2>1. o.at = "waiting" /\ o.pos <= Len(o.chain)
    BY <1>1, <1>2, <1>13 DEF Refused
  <2>2. CASE o.attempt + 1 < MaxRetries
    <3> DEFINE r == [o EXCEPT !.at = "asking", !.attempt = @ + 1]
    <3>1. client' = [client EXCEPT ![c] = r]
      BY <1>1, <1>13, <2>2 DEF Refused, o
    <3>2. o.attempt + 1 \in 0..(MaxRetries - 1) /\ "asking" \in Places
      BY <1>1, <2>2 DEF Places
    <3>3. r \in Progress /\ r.at = "asking" /\ r.pos = o.pos /\ r.chain = o.chain
          /\ r.attempt = o.attempt + 1
      BY <1>1, <3>2 DEF Progress
    <3> HIDE DEF r
    <3>4. StepsHere(r) < StepsHere(o)
      BY <1>1, <2>1, <3>3 DEF StepsHere
    <3>5. IsCloser(r, o)
      BY <1>1, <2>1, <3>3, <3>4, CloserHere
    <3> QED BY <3>1, <3>3, <3>5 DEF o
  <2>3. CASE ~(o.attempt + 1 < MaxRetries)
    <3>1. NextProvider(c)
      BY <1>13, <2>3 DEF Refused, o
    <3>2. client' = [client EXCEPT ![c] = on] /\ on \in Progress /\ IsCloser(on, o)
      BY <1>1, <1>4, <2>1, <3>1, CloserBeyond
    <3> QED BY <3>2 DEF o
  <2> QED BY <2>2, <2>3
<1> QED
  BY <1>5, <1>6, <1>7, <1>8, <1>9, <1>10, <1>11, <1>12, <1>13 DEF Step

\* No chat goes on for ever, however the providers answer and whatever the
\* other chats do: with each step it is closer to its end, first by providers,
\* then by attempts (router.go:84-123).
THEOREM ChatsComeToAnEnd == Spec => [][ChatsComeCloser]_vars
<1>1. ASSUME RouterInv, RouterInv', [Next]_vars
      PROVE  [ChatsComeCloser]_vars
  <2>1. ChatsInOrder /\ index \in [Providers -> Nat]
    BY <1>1 DEF RouterInv, ChatDataKnown
  <2>2. ASSUME NEW c \in Clients
        PROVE  /\ ProvidersAhead(client[c]) \in 0..Len(client[c].chain)
               /\ StepsHere(client[c]) \in 0..(2 * MaxRetries + 5)
    BY <2>1, ChatIsBounded DEF ChatsInOrder
  <2>3. ASSUME NEW c \in Clients, NEW r, client' = [client EXCEPT ![c] = r],
               At(c) # "idle" => IsCloser(r, client[c])
        PROVE  ChatsComeCloser
    <3>1. \A d \in Clients : client'[d] = IF d = c THEN r ELSE client[d]
      BY <2>1, <2>3 DEF ChatsInOrder
    <3> QED BY <2>2, <2>3, <3>1 DEF ChatsComeCloser
  <2>4. CASE \E c \in Clients : Step(c)
    BY <2>1, <2>3, <2>4, StepIsCloser
  <2>5. CASE \E c \in Clients : Begin(c)
    <3>1. PICK c \in Clients, p \in Providers :
            /\ At(c) = "idle"
            /\ client' = [client EXCEPT ![c] = [Fresh EXCEPT !.at = "checking", !.chain = Chain(p)]]
      BY <2>5 DEF Begin
    <3> QED BY <2>3, <3>1
  <2>6. CASE client' = client
    BY <2>2, <2>6 DEF ChatsComeCloser
  <2> QED
    BY <1>1, <2>4, <2>5, <2>6 DEF Next, EndPeriod, Abort, vars
<1> QED
  BY <1>1, RouterInvariance, PTL DEF Spec

-----------------------------------------------------------------------------
(***************************************************************************)
(* What a request carries.                                                 *)
(***************************************************************************)

\* Every member of what is left of a sequence is one of those that stay: the
\* n-th place that stays exists, because no two have the same rank.
LEMMA LeftAreOfTheKept ==
  ASSUME NEW T, NEW q \in Seq(T), NEW places, NEW n \in DOMAIN Without(q, places)
  PROVE  \E i \in DOMAIN q : i \notin places /\ Without(q, places)[n] = q[i]
<1> DEFINE kept == {i \in DOMAIN q : i \notin places}
           UpTo(i) == {j \in kept : j <= i}
           C == Cardinality(kept)
           rank == [i \in kept |-> Cardinality(UpTo(i))]
           nth == CHOOSE i \in kept : Cardinality(UpTo(i)) = n
<1>1. n \in 1..C /\ Without(q, places)[n] = q[nth]
  BY DEF Without
<1>2. kept \subseteq Nat /\ IsFiniteSet(kept) /\ C \in Nat
  <2>1. Len(q) \in Nat /\ kept \subseteq 1..Len(q)
    OBVIOUS
  <2>2. IsFiniteSet(1..Len(q))
    BY <2>1, FS_Interval
  <2> HIDE DEF kept
  <2>3. kept \subseteq Nat
    BY <2>1
  <2>4. IsFiniteSet(kept)
    BY <2>1, <2>2, FS_Subset
  <2> QED BY <2>3, <2>4, FS_CardinalityType
<1> HIDE DEF kept
<1>3. ASSUME NEW i \in kept
      PROVE  i \in UpTo(i) /\ IsFiniteSet(UpTo(i)) /\ rank[i] = Cardinality(UpTo(i))
             /\ rank[i] \in Nat /\ rank[i] \in 1..C
  <2>1. i \in UpTo(i) /\ UpTo(i) \subseteq kept /\ rank[i] = Cardinality(UpTo(i))
    BY <1>2
  <2> HIDE DEF UpTo, rank, C
  <2>2. IsFiniteSet(UpTo(i)) /\ Cardinality(UpTo(i)) \in Nat /\ Cardinality(UpTo(i)) <= C
    <3>1. IsFiniteSet(UpTo(i)) /\ Cardinality(UpTo(i)) <= Cardinality(kept)
      BY <1>2, <2>1, FS_Subset
    <3> QED BY <3>1, FS_CardinalityType DEF C
  <2>3. Cardinality(UpTo(i)) # 0
    BY <2>1, <2>2, FS_EmptySet
  <2>4. rank[i] \in Nat /\ rank[i] # 0 /\ rank[i] <= C
    BY <2>1, <2>2, <2>3
  <2> QED BY <1>2, <2>1, <2>2, <2>4
<1>4. ASSUME NEW i \in kept, NEW j \in kept, i < j PROVE rank[i] < rank[j]
  <2> HIDE DEF rank, C
  <2>1. UpTo(i) \subseteq UpTo(j) /\ j \notin UpTo(i)
    <3>1. i \in Nat /\ j \in Nat /\ \A k \in kept : k \in Nat
      BY <1>2
    <3>2. ~ (j <= i) /\ \A k \in kept : k <= i => k <= j
      BY <1>4, <3>1
    <3> QED BY <3>2
  <2>2. j \in UpTo(j) /\ IsFiniteSet(UpTo(j)) /\ rank[j] = Cardinality(UpTo(j)) /\ rank[j] \in Nat
        /\ rank[i] = Cardinality(UpTo(i)) /\ rank[i] \in Nat
    BY <1>3
  <2> HIDE DEF UpTo
  <2>3. Cardinality(UpTo(i)) <= Cardinality(UpTo(j)) /\ Cardinality(UpTo(i)) # Cardinality(UpTo(j))
    BY <2>1, <2>2, FS_Subset
  <2> QED BY <2>2, <2>3
<1>5. rank \in Injection(kept, 1..C)
  <2>1. rank \in [kept -> 1..C]
    BY <1>3
  <2> HIDE DEF rank
  <2>2. ASSUME NEW i \in kept, NEW j \in kept, rank[i] = rank[j] PROVE i = j
    <3>1. i \in Nat /\ j \in Nat /\ rank[i] \in Nat /\ ~ (rank[i] < rank[j]) /\ ~ (rank[j] < rank[i])
      BY <1>2, <2>1, <2>2
    <3> QED BY <1>4, <3>1
  <2> QED BY <2>1, <2>2 DEF Injection, IsInjective
<1>6. \E i \in kept : rank[i] = n
  <2>1. IsFiniteSet(1..C) /\ Cardinality(1..C) = Cardinality(kept)
    BY <1>2, FS_Interval
  <2> HIDE DEF C, rank
  <2>2. rank \in Surjection(kept, 1..C)
    BY <1>2, <1>5, <2>1, FS_Injection
  <2> QED BY <1>1, <2>2 DEF Surjection
<1>7. nth \in kept
  BY <1>3, <1>6
<1> HIDE DEF nth
<1> QED BY <1>1, <1>7 DEF kept

\* A member at a place that stays is among what is left.
LEMMA KeptAreLeft ==
  ASSUME NEW T, NEW q \in Seq(T), NEW places, NEW i \in DOMAIN q, i \notin places
  PROVE  \E n \in DOMAIN Without(q, places) : Without(q, places)[n] = q[i]
<1> DEFINE kept == {j \in DOMAIN q : j \notin places}
           UpTo(k) == {j \in kept : j <= k}
           C == Cardinality(kept)
           n == Cardinality(UpTo(i))
<1>1. kept \subseteq Nat /\ IsFiniteSet(kept) /\ C \in Nat /\ i \in kept
  <2>1. kept \subseteq 1..Len(q) /\ Len(q) \in Nat
    OBVIOUS
  <2>2. IsFiniteSet(1..Len(q))
    BY <2>1, FS_Interval
  <2> HIDE DEF kept
  <2>3. kept \subseteq Nat
    BY <2>1
  <2>4. IsFiniteSet(kept)
    BY <2>1, <2>2, FS_Subset
  <2>5. i \in kept
    BY DEF kept
  <2> QED BY <2>3, <2>4, <2>5, FS_CardinalityType
<1>2. ASSUME NEW k \in kept
      PROVE  Cardinality(UpTo(k)) \in Nat /\ IsFiniteSet(UpTo(k)) /\ Cardinality(UpTo(k)) \in 1..C
  <2> HIDE DEF kept, C
  <2>1. k \in UpTo(k) /\ UpTo(k) \subseteq kept
    BY <1>1
  <2> HIDE DEF UpTo
  <2>2. IsFiniteSet(UpTo(k)) /\ Cardinality(UpTo(k)) <= C /\ Cardinality(UpTo(k)) \in Nat
    BY <1>1, <2>1, FS_Subset, FS_CardinalityType DEF C
  <2>3. Cardinality(UpTo(k)) # 0
    BY <2>1, <2>2, FS_EmptySet
  <2> QED BY <1>1, <2>2, <2>3
<1>3. ASSUME NEW k \in kept, NEW l \in kept, k < l
      PROVE  Cardinality(UpTo(k)) < Cardinality(UpTo(l))
  <2>1. UpTo(k) \subseteq UpTo(l) /\ l \in UpTo(l) /\ l \notin UpTo(k)
    BY <1>1, <1>3
  <2> HIDE DEF UpTo, kept
  <2>2. IsFiniteSet(UpTo(l)) /\ Cardinality(UpTo(l)) \in Nat /\ Cardinality(UpTo(k)) \in Nat
    BY <1>2
  <2>3. /\ Cardinality(UpTo(k)) <= Cardinality(UpTo(l))
        /\ Cardinality(UpTo(k)) = Cardinality(UpTo(l)) => UpTo(k) = UpTo(l)
    BY <2>1, <2>2, FS_Subset
  <2> QED BY <2>1, <2>2, <2>3
<1>4. ASSUME NEW k \in kept, Cardinality(UpTo(k)) = n PROVE k = i
  <2>1. k \in Nat /\ i \in Nat
    BY <1>1
  <2> HIDE DEF kept, UpTo
  <2>2. Cardinality(UpTo(k)) \in Nat /\ Cardinality(UpTo(i)) \in Nat
    BY <1>1, <1>2
  <2>3. ~(k < i) /\ ~(i < k)
    BY <1>1, <1>3, <1>4, <2>2
  <2> QED BY <2>1, <2>3
<1>5. (CHOOSE k \in kept : Cardinality(UpTo(k)) = n) = i
  BY <1>1, <1>4
<1>6. n \in 1..C
  <2> HIDE DEF C, kept, UpTo
  <2> QED BY <1>1, <1>2
<1> QED BY <1>5, <1>6 DEF Without

\* The parts of a message, of a content, of a line and of a body.
LEMMA MessageParts ==
  \A role, content : Message(role, content).role = role /\ Message(role, content).content = content
  BY DEF Message

LEMMA ContentParts ==
  \A small, lines : Content(small, lines).lines = lines
  BY DEF Content

LEMMA LineParts ==
  \A text, spaces, form : Line(text, spaces, form).text = text /\ Line(text, spaces, form).form = form
  BY DEF Line

LEMMA BodyParts ==
  ASSUME NEW s, NEW m, NEW b, b = [system |-> s, messages |-> m]
  PROVE  b.system = s /\ b.messages = m
  OBVIOUS

\* What may be said: in any roles R, in lines of any texts X.
LinesOf(X) == [text : X, spaces : BOOLEAN, form : {"short", "long", "cut"}]
ContentsOf(X) == [small : BOOLEAN, lines : Seq(LinesOf(X))]
Said(R, X) == [role : R, content : ContentsOf(X)]

\* A line that is shortened has its text, and has been cut only if it was long.
LEMMA ShortenKeepsText ==
  ASSUME NEW l
  PROVE  Shorten(l).text = l.text /\ (Shorten(l).form # l.form => l.form = "long")
<1>1. CASE l.form = "long"
  BY <1>1 DEF Shorten, Line
<1>2. CASE l.form # "long"
  BY <1>2 DEF Shorten, Line
<1> QED BY <1>1, <1>2

\* No line with a text is lost to the compression (quota.go:122-152).
LEMMA TextsAreKept ==
  ASSUME NEW X, NEW content \in ContentsOf(X)
  PROVE  \A j \in DOMAIN content.lines : content.lines[j].text # "" =>
           \E k \in DOMAIN CompressContent(content).lines :
             /\ CompressContent(content).lines[k].text = content.lines[j].text
             /\ CompressContent(content).lines[k].form # content.lines[j].form =>
                  content.lines[j].form = "long"
<1> DEFINE lines == content.lines
           places == Repeated(lines)
           left == Without(lines, places)
<1>1. CASE content.small
  BY <1>1 DEF CompressContent
<1>2. CASE ~content.small
  <2>1. lines \in Seq(LinesOf(X))
    BY DEF ContentsOf
  <2>2. CompressContent(content).lines = [i \in DOMAIN left |-> Shorten(left[i])]
    BY <1>2, ContentParts DEF CompressContent
  <2>3. \A j \in DOMAIN lines : lines[j].text # "" => j \notin places
    BY DEF Repeated
  <2> HIDE DEF lines, places
  <2>4. \A j \in DOMAIN lines : j \notin places => \E k \in DOMAIN left : left[k] = lines[j]
    BY <2>1, KeptAreLeft
  <2> HIDE DEF left
  <2>5. ASSUME NEW j \in DOMAIN lines, NEW k \in DOMAIN left, left[k] = lines[j]
        PROVE  /\ k \in DOMAIN CompressContent(content).lines
               /\ CompressContent(content).lines[k].text = lines[j].text
               /\ CompressContent(content).lines[k].form # lines[j].form => lines[j].form = "long"
    <3>1. k \in DOMAIN CompressContent(content).lines
          /\ CompressContent(content).lines[k] = Shorten(lines[j])
      BY <2>2, <2>5
    <3> QED BY <3>1, ShortenKeepsText
  <2>6. \A j \in DOMAIN lines : lines[j].text # "" =>
          \E k \in DOMAIN CompressContent(content).lines :
            /\ CompressContent(content).lines[k].text = lines[j].text
            /\ CompressContent(content).lines[k].form # lines[j].form => lines[j].form = "long"
    BY <2>3, <2>4, <2>5
  <2> QED BY <2>6 DEF lines
<1> QED BY <1>1, <1>2

\* The compression leaves the messages what they are.
LEMMA CompressionKeeps ==
  ASSUME NEW R, NEW X, NEW said \in Seq(Said(R, X)), NEW messages,
         messages = CompressToolResults(said)
  PROVE  Keeps(said, messages) /\ \E T : messages \in Seq(T)
<1>1. /\ DOMAIN messages = DOMAIN said
      /\ \A i \in DOMAIN said :
           messages[i] = IF said[i].role \in {"tool", "system"}
                         THEN Message(said[i].role, CompressContent(said[i].content)) ELSE said[i]
  BY DEF CompressToolResults
<1>2. \E T : messages \in Seq(T)
  <2> DEFINE T == {messages[i] : i \in 1..Len(said)}
  <2>1. Len(said) \in Nat /\ messages = [i \in 1..Len(said) |-> messages[i]]
    BY DEF CompressToolResults
  <2>2. messages \in Seq(T)
    BY <2>1
  <2> QED BY <2>2
<1>3. \A i \in DOMAIN said : said[i].content \in ContentsOf(X)
  <2>1. \A m \in Said(R, X) : m.content \in ContentsOf(X)
    BY DEF Said
  <2> QED BY <2>1
<1>4. ASSUME NEW i \in DOMAIN said
      PROVE  /\ messages[i].role = said[i].role
             /\ said[i].role \notin {"tool", "system"} => messages[i] = said[i]
             /\ LET lines == said[i].content.lines
                    left == messages[i].content.lines
                IN  \A j \in DOMAIN lines : lines[j].text # "" =>
                      \E k \in DOMAIN left :
                        /\ left[k].text = lines[j].text
                        /\ left[k].form # lines[j].form => lines[j].form = "long"
  <2>1. CASE said[i].role \in {"tool", "system"}
    <3>1. messages[i].role = said[i].role
          /\ messages[i].content = CompressContent(said[i].content)
      BY <1>1, <2>1, MessageParts
    <3> DEFINE content == said[i].content
    <3>2. content \in ContentsOf(X)
      BY <1>3
    <3>3. messages[i].content = CompressContent(content)
      BY <3>1
    <3> HIDE DEF content
    <3>4. \A j \in DOMAIN content.lines : content.lines[j].text # "" =>
            \E k \in DOMAIN CompressContent(content).lines :
              /\ CompressContent(content).lines[k].text = content.lines[j].text
              /\ CompressContent(content).lines[k].form # content.lines[j].form =>
                   content.lines[j].form = "long"
      BY <3>2, TextsAreKept
    <3>5. LET left == messages[i].content.lines
          IN  \A j \in DOMAIN content.lines : content.lines[j].text # "" =>
                \E k \in DOMAIN left :
                  /\ left[k].text = content.lines[j].text
                  /\ left[k].form # content.lines[j].form => content.lines[j].form = "long"
      BY <3>3, <3>4
    <3> QED BY <2>1, <3>1, <3>5 DEF content
  <2>2. CASE said[i].role \notin {"tool", "system"}
    <3>1. messages[i] = said[i]
      BY <1>1, <2>2
    <3> QED BY <3>1
  <2> QED BY <2>1, <2>2
<1>5. Keeps(said, messages)
  BY <1>1, <1>4 DEF Keeps
<1> QED BY <1>2, <1>5

\* Each format carries a conversation, however long it is, in whatever roles and
\* texts, that has at most one system message; what the router's compression
\* does to it is included (router.go:82, quota.go:103-152, format.go:83-103,
\* 124-143).
THEOREM FormatsCarryConversations ==
  ASSUME NEW R, NEW X, NEW said \in Seq(Said(R, X)),
         \A i \in SystemPlaces(said), j \in SystemPlaces(said) : i = j,
         NEW format \in Formats
  PROVE  Understands(format, said)
<1> DEFINE messages == CompressToolResults(said)
           systems == SystemPlaces(messages)
           left == Without(messages, systems)
           body == BodyOf(format, said)
           given == Contents(body.messages)
           Known(role) == \/ role \in RolesOf(format)
                          \/ \E j \in DOMAIN said : role = said[j].role /\ said[j].role \notin Spoken
<1>1. Keeps(said, messages) /\ \E T : messages \in Seq(T)
  BY CompressionKeeps
<1>2. body = TranslateToProvider(format, messages)
  BY DEF BodyOf
<1> HIDE DEF messages
<1>3. \A i \in DOMAIN messages : i \in DOMAIN said /\ messages[i].role = said[i].role
  BY <1>1 DEF Keeps
<1>4. systems \subseteq DOMAIN messages /\ \A i \in systems, j \in systems : i = j
  <2>1. systems = SystemPlaces(said)
    BY <1>1, <1>3 DEF Keeps, SystemPlaces
  <2> QED BY <2>1 DEF SystemPlaces
<1>5. \A i \in DOMAIN messages : i \in systems <=> messages[i].role = "system"
  BY DEF SystemPlaces
<1>6. \A i \in systems : Contents(messages)[i] = messages[i].content /\ i \in DOMAIN Contents(messages)
  BY <1>4 DEF Contents
<1> HIDE DEF systems
<1>7. SUFFICES /\ \A i \in DOMAIN body.messages : Known(body.messages[i].role)
               /\ given = IF format = "anthropic" THEN Contents(left) ELSE Contents(messages)
               /\ \A i \in systems : \/ body.system = messages[i].content
                                     \/ \E k \in DOMAIN given : given[k] = messages[i].content
  <2> HIDE DEF left, given, body
  <2> QED BY <1>1, <1>7 DEF Understands, messages, systems, left, given, body
<1>8. CASE format = "openai"
  <2>1. body.messages = messages
    <3>1. body = [system |-> NoContent, messages |-> messages]
      BY <1>2, <1>8 DEF TranslateToProvider, ToOpenAI
    <3> HIDE DEF body
    <3> QED BY <3>1, BodyParts
  <2>2. RolesOf(format) = Spoken /\ format # "anthropic"
    BY <1>8 DEF RolesOf, Spoken
  <2> HIDE DEF body
  <2>3. \A i \in DOMAIN messages : Known(messages[i].role)
    BY <1>3, <2>2
  <2> QED BY <1>6, <2>1, <2>2, <2>3
<1>9. CASE format = "gemini"
  <2> DEFINE RoleOf(role) ==
               CASE role = "assistant" -> "model" [] role = "system" -> "user" [] OTHER -> role
  <2>1. body.messages = [i \in DOMAIN messages |-> Message(RoleOf(messages[i].role), messages[i].content)]
    <3>1. body = [system |-> NoContent, messages |-> [i \in DOMAIN messages |->
                    Message(RoleOf(messages[i].role), messages[i].content)]]
      BY <1>2, <1>9 DEF TranslateToProvider, ToGemini
    <3> HIDE DEF body
    <3> QED BY <3>1, BodyParts
  <2> HIDE DEF body
  <2>2. \A i \in DOMAIN messages : /\ body.messages[i].role = RoleOf(messages[i].role)
                                   /\ body.messages[i].content = messages[i].content
    BY <2>1, MessageParts
  <2>3. DOMAIN body.messages = DOMAIN messages
    BY <2>1
  <2>4. Contents(body.messages) = Contents(messages)
    BY <2>2, <2>3 DEF Contents
  <2>5. ASSUME NEW i \in DOMAIN messages PROVE Known(body.messages[i].role)
    <3>1. CASE messages[i].role \in Spoken
      BY <1>9, <2>2, <3>1 DEF RolesOf, Spoken
    <3>2. CASE messages[i].role \notin Spoken
      BY <1>3, <2>2, <3>2 DEF Spoken
    <3> QED BY <3>1, <3>2
  <2> QED BY <1>6, <1>9, <2>3, <2>4, <2>5
<1>10. CASE format = "anthropic"
  <2> DEFINE last == CHOOSE i \in systems : \A j \in systems : j <= i
  <2>1. body = [system |-> IF systems = {} THEN NoContent ELSE messages[last].content,
                messages |-> left]
    BY <1>2, <1>10 DEF TranslateToProvider, ToAnthropic, systems
  <2>2. \A i \in systems : last = i
    <3>1. \A i \in systems : i \in Nat
      BY <1>1, <1>4
    <3> QED BY <1>4, <3>1
  <2>3. ASSUME NEW n \in DOMAIN left PROVE Known(left[n].role)
    <3>1. PICK i \in DOMAIN messages : i \notin systems /\ left[n] = messages[i]
      BY <1>1, LeftAreOfTheKept
    <3>2. CASE messages[i].role \in Spoken
      BY <1>5, <1>10, <3>1, <3>2 DEF RolesOf, Spoken
    <3>3. CASE messages[i].role \notin Spoken
      BY <1>3, <3>1, <3>3
    <3> QED BY <3>2, <3>3
  <2> HIDE DEF last, left, body
  <2>4. body.messages = left /\ \A i \in systems : body.system = messages[i].content
    <3>1. /\ body.messages = left
          /\ body.system = IF systems = {} THEN NoContent ELSE messages[last].content
      BY <2>1, BodyParts
    <3>2. systems # {} => body.system = messages[last].content
      BY <3>1
    <3> QED BY <2>2, <3>1, <3>2
  <2> QED BY <1>10, <2>3, <2>4
<1> QED BY <1>8, <1>9, <1>10 DEF Formats

\* The conversations of the runs are among them (router.go:82, format.go:83-103,
\* 124-143).
THEOREM ConversationsAlwaysArrive == Spec => []ConversationsArrive
<1>1. ASSUME NEW messages \in Conversations, Cardinality(SystemPlaces(messages)) <= 1,
             NEW format \in Formats
      PROVE  Understands(format, messages)
  <2> DEFINE M == [role : SomeRoles, content : SomeContents]
             X == {"", "t1", "t2"}
  <2>1. PICK n \in 0..3 : messages \in [1..n -> M]
    BY DEF Conversations
  <2>2. M \subseteq Said(SomeRoles, X)
    <3>1. \A text \in X, spaces \in BOOLEAN, form \in {"short", "long", "cut"} :
            Line(text, spaces, form) \in LinesOf(X)
      BY DEF Line, LinesOf
    <3> HIDE DEF X
    <3>2. \A small \in BOOLEAN : \A lines \in Seq(LinesOf(X)) : Content(small, lines) \in ContentsOf(X)
      BY DEF Content, ContentsOf
    <3>3. "" \in X /\ "t1" \in X /\ "t2" \in X
      BY DEF X
    <3>4. SomeContents \subseteq ContentsOf(X)
      <4> DEFINE a == Line("t1", FALSE, "short")
                 b == Line("t1", FALSE, "long")
                 c == Line("", FALSE, "short")
                 d == Line("", TRUE, "short")
                 e == Line("t2", TRUE, "short")
      <4>1. {a, b, c, d, e} \subseteq LinesOf(X)
        BY <3>1, <3>3
      <4> HIDE DEF a, b, c, d, e
      <4>2. <<a>> \in Seq(LinesOf(X)) /\ <<b, c, d, e>> \in Seq(LinesOf(X))
        BY <4>1
      <4>3. SomeContents = {Content(TRUE, <<a>>), Content(FALSE, <<b, c, d, e>>)}
        BY DEF SomeContents, a, b, c, d, e
      <4> QED BY <3>2, <4>2, <4>3
    <3> QED BY <3>4 DEF Said
  <2> HIDE DEF M, X
  <2>3. messages \in Seq(Said(SomeRoles, X)) /\ SystemPlaces(messages) \subseteq 1..n
    <3>1. messages \in [1..n -> Said(SomeRoles, X)]
      BY <2>1, <2>2
    <3> QED BY <3>1 DEF SystemPlaces
  <2>4. IsFiniteSet(SystemPlaces(messages))
    BY <2>1, <2>3, FS_Interval, FS_Subset
  <2>5. \A i \in SystemPlaces(messages), j \in SystemPlaces(messages) : i = j
    <3> SUFFICES ASSUME NEW i \in SystemPlaces(messages), NEW j \in SystemPlaces(messages), i # j
                 PROVE  FALSE
      OBVIOUS
    <3>1. IsFiniteSet({j}) /\ Cardinality({j}) = 1
      BY FS_Singleton
    <3>2. Cardinality({i, j}) = 2 /\ IsFiniteSet({i, j})
      <4>1. {i, j} = {j} \cup {i} /\ i \notin {j}
        OBVIOUS
      <4>2. IsFiniteSet({j} \cup {i}) /\ Cardinality({j} \cup {i}) = 1 + 1
        BY <3>1, <4>1, FS_AddElement
      <4> QED BY <4>1, <4>2
    <3>3. Cardinality({i, j}) <= Cardinality(SystemPlaces(messages))
      BY <2>4, FS_Subset
    <3>4. Cardinality(SystemPlaces(messages)) \in Nat
      BY <2>4, FS_CardinalityType
    <3> QED BY <1>1, <3>2, <3>3, <3>4
  <2> QED BY <2>3, <2>5, FormatsCarryConversations
<1>2. ConversationsArrive
  BY <1>1 DEF ConversationsArrive, EachFormatUnderstands
<1> QED BY <1>2, PTL
=============================================================================
