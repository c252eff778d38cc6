-------------------------------- MODULE GoMap --------------------------------
(***************************************************************************)
(* Go's maps as functions: the empty map, the assignment m[k] = v, which   *)
(* adds k or replaces its value, and delete(m, k).                         *)
(***************************************************************************)
EXTENDS Functions

EmptyMap == [k \in {} |-> k]
Assign(m, k, v) == [x \in DOMAIN m \cup {k} |-> IF x = k THEN v ELSE m[x]]
Without(m, k) == Restrict(m, DOMAIN m \ {k})
=============================================================================
