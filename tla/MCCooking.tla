----------------------------- MODULE MCCooking -----------------------------
(***************************************************************************)
(* Cooking for TLC: one order with two tasks.  The worker is at s1, nobody *)
(* is at s2; t2 can be cooked at s1 only, t1 at either station.            *)
(***************************************************************************)
EXTENDS Cooking

CONSTANTS s1, s2, o1, t2

MCSuitable == [t \in Tasks |-> IF t = t2 THEN {s1} ELSE Stations]
MCBacklogLimit == [s \in Stations |-> 1]
MCHome == [w \in Workers |-> s1]
MCOrderOf == [t \in Tasks |-> o1]
=============================================================================
