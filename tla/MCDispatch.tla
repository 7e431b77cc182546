----------------------------- MODULE MCDispatch -----------------------------
(***************************************************************************)
(* Dispatch for TLC: one order whose tasks share the stations 1 and 2,     *)
(* each with room for one displayed task.  Where a cfg names a task t2, it *)
(* depends on all the others (the second step of a recipe).                *)
(***************************************************************************)
EXTENDS Dispatch, TLC

CONSTANTS o1, t2

MCOrderOf == [t \in Tasks |-> o1]
MCDependsOn == [t \in Tasks |-> IF t = t2 THEN Tasks \ {t2} ELSE {}]
MCSuitable == [t \in Tasks |-> Stations]
MCBacklogLimit == [s \in Stations |-> 1]

\* Scheduler processes are interchangeable; used by the runs of safety only.
Symmetry == Permutations(Schedulers)
=============================================================================
