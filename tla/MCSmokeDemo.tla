---------------------------- MODULE MCSmokeDemo ----------------------------
(***************************************************************************)
(* SmokeDemo for TLC: the demo order o1, of two tasks, beside an order o2  *)
(* of one.                                                                 *)
(***************************************************************************)
EXTENDS SmokeDemo

CONSTANTS o1, o2, t2, t3

MCOrderOf == [t \in Tasks |-> IF t = t3 THEN o2 ELSE o1]
MCBuildIndex == [t \in Tasks |-> IF t = t2 THEN 2 ELSE 1]
MCTimes == 0..1
=============================================================================
