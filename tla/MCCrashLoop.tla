----------------------------- MODULE MCCrashLoop ----------------------------
(* Small instances of CrashLoop: one or two containers of one service. *)
EXTENDS CrashLoop, TLC

CONSTANTS c1, c2, c3

Containers == Permutations(Ids)
=============================================================================
