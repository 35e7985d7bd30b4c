---------------------------- MODULE MCDelayQueue ----------------------------
(***************************************************************************)
(* Small instances of DelayQueue for TLC.                                  *)
(***************************************************************************)
EXTENDS DelayQueue, TLC

CONSTANTS w1, w2, t1, t2, i1, i2

MCWorkers == {w1, w2}

\* Every call of delay() uses an id of its own, as generated ids are.
DistinctIds == (t1 :> i1) @@ (t2 :> i2)

\* The same task is scheduled twice under one caller-provided id.
OneId == (t1 :> i1) @@ (t2 :> i1)

Symmetry == Permutations(MCWorkers)
=============================================================================
