------------------------------ MODULE AIRouter ------------------------------
(***************************************************************************)
(* ChatWithFallback of internal/ai/router.go, with the account pools of    *)
(* pool.go, the provider registry of provider.go and the quotas: several   *)
(* tool calls at once walk down their chains of providers.                 *)
(*                                                                         *)
(* The quota check, the choice of an account, its registration, the        *)
(* request, the record of its tokens and the statistics are steps of their *)
(* own: nothing is locked from one to the next.  The registry's map has no *)
(* lock at all: a write that meets another access may abort the process    *)
(* ("concurrent map writes"), and otherwise one of them comes first.       *)
(***************************************************************************)
EXTENDS Quota, Integers, Sequences, SequencesExt, FiniteSetsExt

CONSTANTS
  Clients,     \* tool calls in progress at once
  Fallback,    \* RouterConfig.Fallback, a sequence without repetitions
  Registered,  \* providers in the registry at the start
  PoolSize,    \* accounts in a provider's pool; zero is "no pool"
  MaxRetries,  \* attempts per provider
  Costs,       \* tokens a response may report
  MaxCalls     \* bound on the calls made

ASSUME RouterAssumption ==
  /\ IsFiniteSet(Clients)
  /\ Fallback \in Seq(Providers) /\ IsInjective(Fallback)
  /\ Registered \subseteq Providers
  /\ PoolSize \in [Providers -> Nat]
  /\ MaxRetries \in Nat \ {0}
  /\ Costs \subseteq Nat
  /\ MaxCalls \in Nat

VARIABLES
  calls,     \* calls begun
  aborted,   \* the runtime has found concurrent map accesses
  index,     \* the pools' atomic counters
  account,   \* provider -> the account registered for it, if any
  client,    \* client -> where its ChatWithFallback is, as a Progress record
  succeeded, \* usage statistics: successful calls per provider
  failed,    \* usage statistics: errors per provider
  asked      \* history: requests sent, per provider

statistics == <<succeeded, failed>>
vars == <<used, expired, spent, calls, aborted, index, account, client,
          succeeded, failed, asked>>

NoAccount == -1  \* the provider is not registered
OwnAccount == 0  \* the one it was configured with; the pool's are 1, 2, ...

Accounts(p) == OwnAccount..PoolSize[p]
Zero == [p \in Providers |-> 0]

\* chain: the providers of the call, in order; pos: the one it has reached;
\* attempt: failed attempts there; picked: the account the pool gave it;
\* tokens: of the response it is about to record; tries (history): requests
\* of this call per provider.
Fresh == [at |-> "idle", chain |-> <<>>, pos |-> 1, attempt |-> 0,
          picked |-> OwnAccount, tokens |-> 0, tries |-> Zero]

At(c) == client[c].at
Here(c) == client[c].chain[client[c].pos]
Exhausted(c) == client[c].pos > Len(client[c].chain)

Init ==
  /\ QuotaInit
  /\ calls = 0
  /\ aborted = FALSE
  /\ index = Zero
  /\ account = [p \in Providers |-> IF p \in Registered THEN OwnAccount ELSE NoAccount]
  /\ client = [c \in Clients |-> Fresh]
  /\ succeeded = Zero /\ failed = Zero
  /\ asked = Zero

Go(c, place) == client' = [client EXCEPT ![c].at = place]

\* On to the next provider; attempt is declared anew in each inner loop.
NextProvider(c) ==
  client' = [client EXCEPT ![c].at = "checking", ![c].pos = @ + 1, ![c].attempt = 0]

\* Mutant: the requested provider is not taken out of the fallbacks.
ChainRepeating(p) == <<p>> \o Fallback

\* The requested provider first, then the fallbacks that are not it; among
\* them it stands at most once.
Chain(p) == <<p>> \o RemoveFirst(Fallback, p)

\* The messages of the call are compressed first (BodyOf of AIFormats).
Begin(c) ==
  /\ At(c) = "idle"
  /\ calls < MaxCalls
  /\ calls' = calls + 1
  /\ \E p \in Providers :
       client' = [client EXCEPT ![c] = [Fresh EXCEPT !.at = "checking", !.chain = Chain(p)]]
  /\ UNCHANGED <<quotaVars, account, index, statistics, asked>>

\* Mutant: an exhausted provider is asked again and again.
CheckQuotaForever(c) ==
  /\ At(c) = "checking"
  /\ ~Exhausted(c)
  /\ Available(Here(c))
  /\ Go(c, "choosing")
  /\ UNCHANGED <<quotaVars, calls, account, index, statistics, asked>>

CheckQuota(c) ==
  /\ At(c) = "checking"
  /\ ~Exhausted(c)
  /\ IF Available(Here(c)) THEN Go(c, "choosing") ELSE NextProvider(c)
  /\ UNCHANGED <<quotaVars, calls, account, index, statistics, asked>>

\* "all providers failed"
GiveUp(c) ==
  /\ At(c) = "checking"
  /\ Exhausted(c)
  /\ Go(c, "idle")
  /\ UNCHANGED <<quotaVars, calls, account, index, statistics, asked>>

\* The account a pool's counter points to.
Pointed(p) == 1 + (index[p] % PoolSize[p])

\* Pool.Next: one atomic step.
NextAccount(p) == index' = [index EXCEPT ![p] = @ + 1]

PickFromPool(c) ==
  LET p == Here(c) IN
    /\ At(c) = "choosing"
    /\ PoolSize[p] > 0
    /\ NextAccount(p)
    /\ client' = [client EXCEPT ![c].at = "registering", ![c].picked = Pointed(p)]
    /\ UNCHANGED <<quotaVars, calls, account, statistics, asked>>

FindProvider(c) ==
  /\ At(c) = "choosing"
  /\ PoolSize[Here(c)] = 0
  /\ IF account[Here(c)] = NoAccount THEN NextProvider(c) ELSE Go(c, "asking")
  /\ UNCHANGED <<quotaVars, calls, account, index, statistics, asked>>

\* registry.Add: the account of whoever writes last is the one registered.
RegisterAccount(c) ==
  /\ At(c) = "registering"
  /\ account' = [account EXCEPT ![Here(c)] = client[c].picked]
  /\ Go(c, "asking")
  /\ UNCHANGED <<quotaVars, calls, index, statistics, asked>>

\* registry.Chat reads the account and sends the redacted messages on it.
Ask(c) ==
  LET p == Here(c) IN
    /\ At(c) = "asking"
    /\ asked' = [asked EXCEPT ![p] = @ + 1]
    /\ client' = [client EXCEPT ![c].at = "waiting", ![c].tries[p] = @ + 1]
    /\ UNCHANGED <<quotaVars, calls, account, index, statistics>>

\* A 200 with content.
Answered(c) ==
  /\ At(c) = "waiting"
  /\ \E n \in Costs : client' = [client EXCEPT ![c].at = "recording", ![c].tokens = n]
  /\ UNCHANGED <<quotaVars, calls, account, index, statistics, asked>>

\* Any error: a transport error or the timeout, another status, no content.
Refused(c) ==
  /\ At(c) = "waiting"
  /\ failed' = [failed EXCEPT ![Here(c)] = @ + 1]
  /\ IF client[c].attempt + 1 < MaxRetries
     THEN client' = [client EXCEPT ![c].at = "asking", ![c].attempt = @ + 1]
     ELSE NextProvider(c)
  /\ UNCHANGED <<quotaVars, calls, account, index, succeeded, asked>>

\* What Record returns is not looked at.
RecordTokens(c) ==
  /\ At(c) = "recording"
  /\ Record(Here(c), client[c].tokens)
  /\ Go(c, "tracking")
  /\ UNCHANGED <<calls, account, index, statistics, asked>>

\* trackSuccess, and the response is returned.
Return(c) ==
  /\ At(c) = "tracking"
  /\ succeeded' = [succeeded EXCEPT ![Here(c)] = @ + 1]
  /\ Go(c, "idle")
  /\ UNCHANGED <<quotaVars, calls, account, index, failed, asked>>

\* A client is about to read or to write the registry's map.
TouchesMap(c) ==
  \/ At(c) \in {"registering", "asking"}
  \/ At(c) = "choosing" /\ PoolSize[Here(c)] = 0

\* A write of the map overlaps another access to it.
Abort ==
  /\ ~aborted
  /\ \E c, d \in Clients : c # d /\ At(c) = "registering" /\ TouchesMap(d)
  /\ aborted' = TRUE
  /\ UNCHANGED <<quotaVars, calls, account, client, index, statistics, asked>>

Step(c) ==
  /\ ~aborted /\ UNCHANGED aborted
  /\ \/ CheckQuota(c) \/ GiveUp(c) \/ PickFromPool(c) \/ FindProvider(c)
     \/ RegisterAccount(c) \/ Ask(c) \/ Answered(c) \/ Refused(c)
     \/ RecordTokens(c) \/ Return(c)

EndPeriod ==
  /\ \E p \in Limited : PeriodEnds(p)
  /\ UNCHANGED <<calls, aborted, account, client, index, statistics, asked>>

Next ==
  \/ \E c \in Clients : Step(c) \/ (~aborted /\ Begin(c) /\ UNCHANGED aborted)
  \/ EndPeriod
  \/ Abort

Spec == Init /\ [][Next]_vars

\* Goroutines that can run do, and a request has a deadline of 120 s.
FairSpec == Spec /\ \A c \in Clients : WF_vars(Step(c))

-----------------------------------------------------------------------------
Places == {"idle", "checking", "choosing", "registering", "asking", "waiting",
           "recording", "tracking"}

Progress ==
  [at : Places, chain : Seq(Providers), pos : Nat \ {0}, attempt : 0..(MaxRetries - 1),
   picked : Nat, tokens : Nat, tries : [Providers -> Nat]]

TypeOK ==
  /\ QuotaTypeOK
  /\ calls \in 0..MaxCalls
  /\ aborted \in BOOLEAN
  /\ index \in [Providers -> Nat]
  /\ account \in [Providers -> Int]
  /\ \A p \in Providers : account[p] \in Accounts(p) \cup {NoAccount}
  /\ client \in [Clients -> Progress]
  /\ \A c \in Clients :
       /\ At(c) \notin {"idle", "checking"} => ~Exhausted(c)
       /\ At(c) = "asking" => account[Here(c)] # NoAccount
       /\ client[c].tokens \in Costs \cup {0}
  /\ succeeded \in [Providers -> Nat] /\ failed \in [Providers -> Nat]
  /\ asked \in [Providers -> Nat]

\* One call never sends more than MaxRetries requests to a provider, and it
\* reaches a provider only after every one before it in its chain got all of
\* them, or none because it was exhausted or unknown (router.go:84-123).
FallbackInOrder ==
  \A c \in Clients : \A k \in DOMAIN client[c].chain :
    LET n == client[c].tries[client[c].chain[k]] IN
      /\ n <= MaxRetries
      /\ At(c) # "idle" /\ k < client[c].pos => n \in {0, MaxRetries}
      /\ At(c) # "idle" /\ k > client[c].pos => n = 0

\* The calls whose request to p the statistics do not have yet.
Uncounted(p) ==
  {c \in Clients : At(c) \in {"waiting", "recording", "tracking"} /\ Here(c) = p}

\* Every request is counted once, as a success or as an error, by the time
\* its call goes on (router.go:112-121, 149-159).
EveryRequestIsCounted ==
  \A p \in Providers :
    asked[p] = succeeded[p] + failed[p] + Cardinality(Uncounted(p))

\* The statistics have every request once; the quotas have no more tokens than
\* fit the limit, nor than were spent in the period.
CountsAreRight == EveryRequestIsCounted /\ CountedWithinLimit

\* A call returns, with a response or an error, unless the process aborts
\* (router.go:80-126).
CallsReturn == \A c \in Clients : At(c) # "idle" ~> (At(c) = "idle" \/ aborted)

-----------------------------------------------------------------------------
(***************************************************************************)
(* What the code's own words promise without those conditions.             *)
(***************************************************************************)

\* "ensure latest account is registered": the request goes out on the account
\* the pool gave to this call.
PickedAccountIsUsed ==
  [][\A c \in Clients :
       At(c) = "asking" /\ At(c)' = "waiting" /\ PoolSize[Here(c)] > 0 =>
         account[Here(c)] = client[c].picked]_vars

\* "Record adds token usage": within a period no provider spends more than its
\* limit, but for the calls that were in progress when it was reached.
BudgetIsKept ==
  \A p \in Limited :
    Limit[p] > 0 => spent[p] < Limit[p] + Cardinality(Clients) * Max(Costs)
=============================================================================
