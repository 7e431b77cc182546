------------------------------ MODULE SmokeDemo ------------------------------
(***************************************************************************)
(* scripts/demo/smoke_demo.py against fulfillment-service: create an order *)
(* and poll it until it is ready, with two requests per poll (the order,   *)
(* then its tasks) between which the kitchen goes on.                      *)
(***************************************************************************)
EXTENDS Fulfillment

CONSTANT DemoOrder  \* the order the script creates

ASSUME DemoOrderType == DemoOrder \in Orders

VARIABLE smoke      \* the script

smokeVars == <<vars, smoke>>

-----------------------------------------------------------------------------
\* last_order and tasks_unread are what the script's last GETs were answered;
\* "unknown" and TRUE stand for an error answer.
Smoke == [pc : {"ordering", "polling", "order_read", "tasks_read",
                "succeeded", "not_observed", "failed"},
          last_order : OrderStatus \union {"unknown"},
          tasks_unread : BOOLEAN,
          observed_displayed : BOOLEAN, observed_progress_or_done : BOOLEAN]

Statuses == {task[t].status : t \in TasksOf(DemoOrder)}

\* POST /orders is answered with 201 when the tasks are queued, or without
\* having queued any when no publisher is configured.
Ordered ==
  /\ smoke.pc = "ordering"
  /\ creator[DemoOrder] \in {"finished", "abandoned"}
  /\ smoke' = [smoke EXCEPT !.pc = "polling"]
  /\ UNCHANGED vars

ReadOrder ==
  /\ smoke.pc = "polling"
  /\ \E answer \in {order[DemoOrder], "unknown"} :
       smoke' = [smoke EXCEPT !.pc = "order_read", !.last_order = answer]
  /\ UNCHANGED vars

ReadTasks ==
  /\ smoke.pc = "order_read"
  /\ \/ smoke' = [smoke EXCEPT !.pc = "tasks_read", !.tasks_unread = TRUE]
     \/ smoke' = [smoke EXCEPT !.pc = "tasks_read", !.tasks_unread = FALSE,
                    !.observed_displayed =
                      @ \/ {"displayed", "in_progress", "done"} \intersect Statuses # {},
                    !.observed_progress_or_done =
                      @ \/ {"in_progress", "done"} \intersect Statuses # {}]
  /\ UNCHANGED vars

\* Faulty: the order is read after the tasks.
JudgeLatest ==
  /\ smoke.pc = "tasks_read"
  /\ smoke' = [smoke EXCEPT !.pc =
       IF order[DemoOrder] # "ready_for_pickup" THEN "polling"
       ELSE IF smoke.observed_displayed /\ smoke.observed_progress_or_done THEN "succeeded"
       ELSE "not_observed"]
  /\ UNCHANGED vars

Judge ==
  /\ smoke.pc = "tasks_read"
  /\ smoke' = [smoke EXCEPT !.pc =
       IF smoke.last_order # "ready_for_pickup" THEN "polling"
       ELSE IF smoke.observed_displayed /\ smoke.observed_progress_or_done THEN "succeeded"
       ELSE "not_observed"]
  /\ UNCHANGED vars

\* The script raises: the order was not created, a request got no answer, the
\* deadline passed, or Prometheus or Grafana do not come up.
Raises ==
  /\ smoke.pc \in {"ordering", "polling", "order_read", "tasks_read"}
  /\ smoke' = [smoke EXCEPT !.pc = "failed"]
  /\ UNCHANGED vars

-----------------------------------------------------------------------------
SmokeInit ==
  /\ Init
  /\ smoke = [pc |-> "ordering", last_order |-> "unknown", tasks_unread |-> TRUE,
              observed_displayed |-> FALSE, observed_progress_or_done |-> FALSE]

SmokeNext ==
  \/ Next /\ UNCHANGED smoke
  \/ Ordered \/ ReadOrder \/ ReadTasks \/ Judge \/ Raises

SmokeSpec == SmokeInit /\ [][SmokeNext]_smokeVars

-----------------------------------------------------------------------------
(* Properties *)

\* The verdict can be relied on although order and tasks are read at different
\* moments: after "Demo succeeded" every task of the order is done, and an order
\* that became ready between two polls, through all its states, still counts as
\* observed unless the list of its tasks could not be read.
VerdictIsSound ==
  /\ smoke \in Smoke
  /\ smoke.pc = "succeeded" => Statuses = {"done"} /\ order[DemoOrder] = "ready_for_pickup"
  /\ smoke.pc = "not_observed" => smoke.tasks_unread
=============================================================================
