------------------------------ MODULE MCDedup ------------------------------
(***************************************************************************)
(* Small instances of Dedup for TLC.                                       *)
(***************************************************************************)
EXTENDS Dedup, TLC

CONSTANTS c1, c2, c3, c4, k1, k2

\* Three calls share a key, one has another.
ThreeAndOne == (c1 :> k1) @@ (c2 :> k1) @@ (c3 :> k1) @@ (c4 :> k2)

=============================================================================
