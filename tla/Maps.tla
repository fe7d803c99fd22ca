-------------------------------- MODULE Maps --------------------------------
(***************************************************************************)
(* Functions with a finite domain that grows and shrinks, as the hash and  *)
(* tree maps of the code do.                                               *)
(***************************************************************************)
EmptyMap == [x \in {} |-> 0]

\* A map with one entry inserted or replaced.
Put(f, x, v) == [y \in DOMAIN f \cup {x} |-> IF y = x THEN v ELSE f[y]]

\* A map without one key, and without a set of keys.
Drop(f, x) == [y \in DOMAIN f \ {x} |-> f[y]]
Without(f, S) == [y \in DOMAIN f \ S |-> f[y]]
=============================================================================
