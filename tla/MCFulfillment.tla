--------------------------- MODULE MCFulfillment ---------------------------
(***************************************************************************)
(* Fulfillment for TLC: one order of two tasks, two distinguishable times. *)
(***************************************************************************)
EXTENDS Fulfillment

CONSTANTS o1, t2

MCOrderOf == [t \in Tasks |-> o1]
MCBuildIndex == [t \in Tasks |-> IF t = t2 THEN 2 ELSE 1]
MCTimes == 0..1
=============================================================================
