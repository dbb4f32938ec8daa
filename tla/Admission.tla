------------------------------ MODULE Admission ------------------------------
(***************************************************************************)
(* What the rate limit promises ("max 20 concurrent tool calls"): calls    *)
(* are let in while fewer than Limit are inside, turned away only when     *)
(* there are that many, and each leaves once.                              *)
(***************************************************************************)
EXTENDS Naturals, FiniteSets

CONSTANTS Calls, Limit

VARIABLES
  inside,     \* calls being worked on
  gone,       \* calls that are over
  turnedAway  \* calls that were not let in

Init == inside = {} /\ gone = {} /\ turnedAway = {}

New == Calls \ (inside \cup gone \cup turnedAway)

Enter(c) ==
  /\ c \in New
  /\ Cardinality(inside) < Limit
  /\ inside' = inside \cup {c}
  /\ UNCHANGED <<gone, turnedAway>>

TurnAway(c) ==
  /\ c \in New
  /\ Cardinality(inside) = Limit
  /\ turnedAway' = turnedAway \cup {c}
  /\ UNCHANGED <<inside, gone>>

Leave(c) ==
  /\ c \in inside
  /\ inside' = inside \ {c}
  /\ gone' = gone \cup {c}
  /\ UNCHANGED turnedAway

Next == \E c \in Calls : Enter(c) \/ TurnAway(c) \/ Leave(c)

Spec == Init /\ [][Next]_<<inside, gone, turnedAway>>
=============================================================================
