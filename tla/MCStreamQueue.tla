--------------------------- MODULE MCStreamQueue ---------------------------
(***************************************************************************)
(* Small instances of StreamQueue for TLC.                                 *)
(***************************************************************************)
EXTENDS StreamQueue, TLC

CONSTANTS w1, w2, m1, m2

MCWorkers == {w1, w2}
MCIds == {m1, m2}

\* Workers are interchangeable, and so are the messages when all are readable.
Symmetry == Permutations(MCWorkers) \cup Permutations(MCIds)
=============================================================================
