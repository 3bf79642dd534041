-------------------------------- MODULE Maps --------------------------------
(* Go maps as functions with a finite, changing domain. *)
EXTENDS Functions

EmptyMap == [k \in {} |-> k]

\* m[k] = v: inserts the key or silently replaces its value.
Put(m, k, v) == [x \in DOMAIN m \cup {k} |-> IF x = k THEN v ELSE m[x]]

\* delete(m, k) for every k of K; an absent key is no error.
Delete(m, K) == Restrict(m, DOMAIN m \ K)
=============================================================================
