-------------------------------- MODULE Maps --------------------------------
(* Go maps as functions: what their assignments and deletions make of them. *)

\* f, and g where f says nothing.
f ++ g == [k \in DOMAIN f \cup DOMAIN g |-> IF k \in DOMAIN f THEN f[k] ELSE g[k]]

\* The map with one key.
Only(k, v) == [x \in {k} |-> v]

\* f without the keys ks.
Without(f, ks) == [k \in DOMAIN f \ ks |-> f[k]]
=============================================================================
