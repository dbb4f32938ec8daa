-------------------------------- MODULE Quota --------------------------------
(***************************************************************************)
(* internal/ai/quota.go: token limits per provider and period.  Every      *)
(* method takes the mutex, so each is one step.  Time is whether the       *)
(* period of a provider is over (now is after ResetAt).                    *)
(***************************************************************************)
EXTENDS Naturals

CONSTANTS
  Providers,
  Limited,   \* providers SetLimit was called for
  Limit,     \* their limits; zero is "no limit"
  MaxSpent   \* bound on the tokens of a period

ASSUME QuotaAssumption ==
  /\ Limited \subseteq Providers
  /\ Limit \in [Limited -> Nat]
  /\ MaxSpent \in Nat

VARIABLES
  used,     \* tokens recorded in the current period
  expired,  \* the period is over and nothing was recorded since
  spent     \* history: tokens reported in the current period

quotaVars == <<used, expired, spent>>

QuotaInit ==
  /\ used = [p \in Limited |-> 0]
  /\ expired = [p \in Limited |-> FALSE]
  /\ spent = [p \in Limited |-> 0]

\* What Used is once an expired period has been reset.
Current(p) == IF expired[p] THEN 0 ELSE used[p]

Fits(p, n) == Limit[p] = 0 \/ Current(p) + n <= Limit[p]

\* Mutant: a new period begins with the tokens of the old one.
RecordWithoutReset(p, n) ==
  \/ p \notin Limited /\ UNCHANGED quotaVars
  \/ /\ p \in Limited
     /\ spent[p] + n <= MaxSpent
     /\ used' = [used EXCEPT ![p] = IF Fits(p, n) THEN @ + n ELSE @]
     /\ expired' = [expired EXCEPT ![p] = FALSE]
     /\ spent' = [spent EXCEPT ![p] = @ + n]

\* Record resets an expired period, and then refuses, without adding them,
\* tokens that do not fit.
Record(p, n) ==
  \/ p \notin Limited /\ UNCHANGED quotaVars
  \/ /\ p \in Limited
     /\ spent[p] + n <= MaxSpent
     /\ used' = [used EXCEPT ![p] = IF Fits(p, n) THEN Current(p) + n ELSE Current(p)]
     /\ expired' = [expired EXCEPT ![p] = FALSE]
     /\ spent' = [spent EXCEPT ![p] = @ + n]

Available(p) ==
  p \in Limited => expired[p] \/ Limit[p] = 0 \/ used[p] < Limit[p]

\* The clock passes ResetAt.
PeriodEnds(p) ==
  /\ p \in Limited
  /\ ~expired[p]
  /\ expired' = [expired EXCEPT ![p] = TRUE]
  /\ spent' = [spent EXCEPT ![p] = 0]
  /\ UNCHANGED used

-----------------------------------------------------------------------------
QuotaTypeOK ==
  /\ used \in [Limited -> 0..MaxSpent]
  /\ expired \in [Limited -> BOOLEAN]
  /\ spent \in [Limited -> 0..MaxSpent]

\* What counts against a limit was spent in the current period and is within
\* the limit, however many calls report at once and wherever a period ends
\* between a check and a report (quota.go:40-60).
CountedWithinLimit ==
  \A p \in Limited :
    /\ Limit[p] > 0 => used[p] <= Limit[p]
    /\ ~expired[p] => used[p] <= spent[p]
=============================================================================
