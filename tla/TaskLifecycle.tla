--------------------------- MODULE TaskLifecycle ---------------------------
(***************************************************************************)
(* What fulfillment-service promises about orders and kitchen tasks, with  *)
(* no requests, transactions or payloads: the task state machine of        *)
(* domain/transitions.py, in which every accepted call is one step, and    *)
(* the status an order may show for a given state of its tasks.            *)
(***************************************************************************)
CONSTANTS
  Orders,    \* order ids
  Tasks,     \* kitchen task ids
  OrderOf    \* [Tasks -> Orders], kitchen_tasks.order_id

VARIABLES
  status,    \* [Tasks -> TaskStatus or "absent"]
  order      \* [Orders -> OrderStatus or "absent"]

lifecycleVars == <<status, order>>

TasksOf(o) == {t \in Tasks : OrderOf[t] = o}

LifecycleInit ==
  /\ status = [t \in Tasks |-> "absent"]
  /\ order = [o \in Orders |-> "absent"]

\* The order and all its tasks appear together.
Create(o) ==
  /\ order[o] = "absent"
  /\ order' = [order EXCEPT ![o] = "created"]
  /\ status' = [t \in Tasks |-> IF OrderOf[t] = o THEN "created" ELSE status[t]]

\* All tasks of an order are queued together, and none of them has moved before.
Queue(o) ==
  /\ \A t \in TasksOf(o) : status[t] = "created"
  /\ status' = [t \in Tasks |-> IF OrderOf[t] = o THEN "queued" ELSE status[t]]
  /\ UNCHANGED order

\* A queued task is either put on a display or given up, once.
Dispatch(t) ==
  /\ status[t] = "queued"
  /\ status' = [status EXCEPT ![t] = "displayed"]
  /\ UNCHANGED order

GiveUp(t) ==
  /\ status[t] = "queued"
  /\ status' = [status EXCEPT ![t] = "failed"]
  /\ UNCHANGED order

\* Work on a task makes its order cook.
Start(t) ==
  /\ status[t] = "displayed"
  /\ status' = [status EXCEPT ![t] = "in_progress"]
  /\ order' = [order EXCEPT ![OrderOf[t]] = "cooking"]

\* An order may become ready only in the step that leaves it no open task.
Finish(t) ==
  /\ status[t] = "in_progress"
  /\ status' = [status EXCEPT ![t] = "done"]
  /\ \/ UNCHANGED order
     \/ /\ \A u \in TasksOf(OrderOf[t]) : u # t => status[u] = "done"
        /\ order' = [order EXCEPT ![OrderOf[t]] = "ready_for_pickup"]

LifecycleNext ==
  \/ \E o \in Orders : Create(o) \/ Queue(o)
  \/ \E t \in Tasks : Dispatch(t) \/ GiveUp(t) \/ Start(t) \/ Finish(t)

LifecycleSpec == LifecycleInit /\ [][LifecycleNext]_lifecycleVars
=============================================================================
