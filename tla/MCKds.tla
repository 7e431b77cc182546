------------------------------- MODULE MCKds -------------------------------
(***************************************************************************)
(* Kds for TLC: every task may be shown on every station and a station     *)
(* shows at most one, so that deliveries meet a full backlog.              *)
(***************************************************************************)
EXTENDS Kds

MCSuitable == [t \in Tasks |-> Stations]
MCBacklogLimit == [s \in Stations |-> 1]
=============================================================================
