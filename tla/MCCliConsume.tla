---------------------------- MODULE MCCliConsume ----------------------------
(***************************************************************************)
(* Small instances of CliConsume for TLC.                                  *)
(***************************************************************************)
EXTENDS CliConsume

CONSTANTS w1, w2, m1, m2
=============================================================================
