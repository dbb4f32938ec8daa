------------------------------- MODULE GoMaps -------------------------------
(***************************************************************************)
(* Go maps as partial functions.  The :> and @@ of module TLC would do for *)
(* model checking, but the proof system has no definition to expand them.  *)
(***************************************************************************)

EmptyMap == [x \in {} |-> x]

\* m[k] = v
Put(m, k, v) == [x \in DOMAIN m \cup {k} |-> IF x = k THEN v ELSE m[x]]

\* maps.Copy(dst, src)
Merge(dst, src) ==
  [x \in DOMAIN dst \cup DOMAIN src |-> IF x \in DOMAIN src THEN src[x] ELSE dst[x]]

\* m is a map[D]R.
IsMap(m, D, R) == DOMAIN m \subseteq D /\ m \in [DOMAIN m -> R]
=============================================================================
