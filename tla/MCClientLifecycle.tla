------------------------- MODULE MCClientLifecycle -------------------------
(***************************************************************************)
(* Small instances of ClientLifecycle for TLC.                             *)
(***************************************************************************)
EXTENDS ClientLifecycle, TLC

CONSTANTS c1, c2, t1, t2, t3

MCClients == {c1, c2}
MCTasks == {t1, t2, t3}

\* The first version with streams and one before it, which is larger in its
\* minor parts.
MCVersions == {<<4, 9, 9>>, <<5, 0, 0>>}

\* Clients are interchangeable, and so are tasks.
Symmetry == Permutations(MCClients) \cup Permutations(MCTasks)
=============================================================================
