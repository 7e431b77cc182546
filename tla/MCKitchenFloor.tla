--------------------------- MODULE MCKitchenFloor ---------------------------
(***************************************************************************)
(* KitchenFloor for TLC: workers at one station with one place on its      *)
(* display.                                                                *)
(***************************************************************************)
EXTENDS KitchenFloor, TLC

CONSTANTS s1

MCSuitable == [t \in Tasks |-> Stations]
MCBacklogLimit == [s \in Stations |-> 1]
MCHome == [w \in Workers |-> s1]

\* Tasks, workers and request slots are interchangeable.
Symmetry == Permutations(Tasks) \union Permutations(Workers) \union Permutations(Requests)
=============================================================================
