---------------------------- MODULE MCKdsEvents ----------------------------
(***************************************************************************)
(* KdsEvents for TLC: one place on each station's display.                 *)
(***************************************************************************)
EXTENDS KdsEvents

MCSuitable == [t \in Tasks |-> Stations]
MCBacklogLimit == [s \in Stations |-> 1]
=============================================================================
