-------------------------- MODULE PlaceholderVault --------------------------
(***************************************************************************)
(* What a caller may expect of a placeholder store: every value it has     *)
(* seen has one placeholder, every placeholder it has handed out stands    *)
(* for one value, and neither ever changes while the process lives.        *)
(***************************************************************************)
CONSTANTS Originals, Placeholders

VARIABLES
  name,   \* value -> its placeholder
  value   \* placeholder -> the value it stands for

vars == <<name, value>>

\* name and value are inverse to each other.
Reversible ==
  /\ \A o \in DOMAIN name : name[o] \in DOMAIN value /\ value[name[o]] = o
  /\ \A ph \in DOMAIN value : value[ph] \in DOMAIN name /\ name[value[ph]] = ph

Init ==
  /\ name = [o \in {} |-> o]
  /\ value = [ph \in {} |-> ph]

\* A value seen for the first time gets a placeholder nothing else uses.
Issue(o) ==
  /\ o \notin DOMAIN name
  /\ \E ph \in Placeholders \ DOMAIN value :
       /\ name' = [x \in DOMAIN name \cup {o} |-> IF x = o THEN ph ELSE name[x]]
       /\ value' =
            [p \in DOMAIN value \cup {ph} |-> IF p = ph THEN o ELSE value[p]]

\* A new process begins with a vault that is again reversible.
Restart == Reversible'

Next == Restart \/ \E o \in Originals : Issue(o)

Spec == Init /\ [][Next]_vars
=============================================================================
