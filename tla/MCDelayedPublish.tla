-------------------------- MODULE MCDelayedPublish --------------------------
(***************************************************************************)
(* Small instances of DelayedPublish for TLC.                              *)
(***************************************************************************)
EXTENDS DelayedPublish

CONSTANTS c1, c2, s1, s2, k1

MCWorkers == Tasks \cup Schedulers

OwnId == [c \in Tasks |-> c]

OneKey == [c \in Tasks |-> k1]
=============================================================================
