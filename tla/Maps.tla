-------------------------------- MODULE Maps --------------------------------
(* Finite maps as functions: std's HashMap as the code uses it. *)

\* f maps keys of S to values of T.
IsMap(f, S, T) == \E D \in SUBSET S : f \in [D -> T]

EmptyMap == [x \in {} |-> x]

\* HashMap::insert and HashMap::remove.
Put(f, x, v) == [y \in DOMAIN f \cup {x} |-> IF y = x THEN v ELSE f[y]]
Drop(f, x) == [y \in DOMAIN f \ {x} |-> f[y]]
=============================================================================
