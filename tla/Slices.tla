------------------------------- MODULE Slices -------------------------------
(***************************************************************************)
(* The loops of the code that copy a slice and leave some members out.     *)
(***************************************************************************)
EXTENDS Naturals, Sequences, FiniteSets

\* The members of a sequence at the places that are not in the set.
Without(q, places) ==
  LET kept == {i \in DOMAIN q : i \notin places}
      Nth[n \in 1..Cardinality(kept)] ==
        CHOOSE i \in kept : Cardinality({j \in kept : j <= i}) = n
  IN  [n \in DOMAIN Nth |-> q[Nth[n]]]
=============================================================================
