------------------------ MODULE MCFulfillmentEvents ------------------------
(***************************************************************************)
(* FulfillmentEvents for TLC: one order of two tasks.                      *)
(***************************************************************************)
EXTENDS FulfillmentEvents, TLC

CONSTANTS o1, t2

MCOrderOf == [t \in Tasks |-> o1]
MCBuildIndex == [t \in Tasks |-> IF t = t2 THEN 2 ELSE 1]
MCTimes == 0..1

\* Requests and stations are interchangeable; t1 is built before t2.
Symmetry == Permutations(Requests) \union Permutations(Stations)
=============================================================================
