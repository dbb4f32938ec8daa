--------------------------- MODULE MCMappingStore ---------------------------
(***************************************************************************)
(* Instances of MappingStore for TLC.                                      *)
(***************************************************************************)
EXTENDS MappingStore, TLC

CONSTANTS Email, Phone  \* detection types

\* "Email" and "Phone": one label each.
DistinctLabelOf == Email :> "EMAIL" @@ Phone :> "PHONE"

\* pii.go has several patterns whose names contain "Phone": all of them are
\* labelled PHONE, and each has its own counter.
SharedLabelOf == [t \in Types |-> "PHONE"]

\* Values and keys are interchangeable: the code only compares them.
Symmetry == Permutations(Originals) \cup Permutations(Keys)
=============================================================================
