----------------------------- MODULE RedisKeys -----------------------------
(***************************************************************************)
(* Redis values that map names to values: the string keys of a database    *)
(* (key to value) and a sorted set (member to score).  An absent name is   *)
(* outside the domain.                                                     *)
(***************************************************************************)
EXTENDS Integers, FiniteSets

Has(m, k) == k \in DOMAIN m

\* SET k v, or ZADD with score v: adds k or overwrites what it had.
Put(m, k, v) == [x \in DOMAIN m \cup {k} |-> IF x = k THEN v ELSE m[x]]

\* DEL k, or ZREM: no effect when k is absent.
Remove(m, k) == [x \in DOMAIN m \ {k} |-> m[x]]

Nothing == [x \in {} |-> x]
=============================================================================
