-------------------------- MODULE MCRedactSession --------------------------
(***************************************************************************)
(* Instances of RedactSession for TLC: two agents, three values, and texts *)
(* that share values and repeat one.                                       *)
(***************************************************************************)
EXTENDS RedactSession, TLC

CONSTANTS
  Email, Phone,  \* detection types
  o1, o2, o3,    \* values, which are matches of themselves
  m1, m2         \* two matches of a capturing pattern, with o3 as the group

SomeTexts == {<<o1, o2>>, <<o2, m1>>, <<m1, m2>>}
SingleValues == {<<o1>>, <<o2>>}

DistinctLabelOf == Email :> "EMAIL" @@ Phone :> "PHONE"

SomeValueOf == o1 :> o1 @@ o2 :> o2 @@ m1 :> o3 @@ m2 :> o3

\* o2 is reported under either type, as a number is that two locales match.
SomeTypesOf ==
  o1 :> {Email} @@ o2 :> {Email, Phone} @@ m1 :> {Phone} @@ m2 :> {Phone}
=============================================================================
