---------------------------- MODULE Fulfillment ----------------------------
(***************************************************************************)
(* fulfillment-service: orders, kitchen tasks and the internal transition  *)
(* endpoints, at the grain of database transactions.                       *)
(*                                                                         *)
(* A transition request runs in a session of its own: it locks and reads   *)
(* the task row (SELECT ... FOR UPDATE, under READ COMMITTED), decides on  *)
(* what it read, and writes and releases the row when it commits.          *)
(* complete_task also counts its siblings, whose rows it does not lock,    *)
(* before it commits.  Requests of any client may be in progress at once.  *)
(***************************************************************************)
EXTENDS Naturals

CONSTANTS
  Orders,       \* order ids
  Tasks,        \* kitchen task ids
  OrderOf,      \* [Tasks -> Orders], kitchen_tasks.order_id
  BuildIndex,   \* [Tasks -> Nat], position in the list TaskBuilder.build returns
  Requests,     \* slots for transition requests in progress
  Stations,     \* station ids a client may send
  KdsTasks,     \* kds_task ids a client may send
  Times,        \* timestamps a client may send
  MaxAttempts,  \* largest attempt number a client may send
  NULL          \* SQL NULL

ASSUME OrderOfType == OrderOf \in [Tasks -> Orders]
ASSUME BuildIndexType == BuildIndex \in [Tasks -> Nat]
ASSUME TimesType == Times \subseteq Nat
ASSUME MaxAttemptsType == MaxAttempts \in Nat \ {0}

VARIABLES
  task,       \* committed rows of kitchen_tasks
  order,      \* committed orders.status
  creator,    \* progress of POST /orders for each order
  published,  \* tasks whose message has been added to a Redis stream
  req         \* sessions of the transition requests

vars == <<task, order, creator, published, req>>

-----------------------------------------------------------------------------
(* Rows and sessions *)

TaskStatus == {"created", "queued", "displayed", "in_progress", "done",
               "failed", "retrying", "cancelled"}
OrderStatus == {"created", "cooking", "ready_for_pickup"}

Row == [status     : TaskStatus \union {"absent"},
        station_id : Stations \union {NULL},
        kds_task_id: KdsTasks \union {NULL},
        started_at : Times \union {NULL},
        attempts   : 0..MaxAttempts]

Absent == [status |-> "absent", station_id |-> NULL, kds_task_id |-> NULL,
           started_at |-> NULL, attempts |-> 0]

\* A transition request: endpoint, task and the payload fields decided on.
MarkDisplayedCall == [op : {"mark_displayed"}, task : Tasks,
                      station_id : Stations, kds_task_id : KdsTasks]
WorkCall == [op : {"start", "complete"}, task : Tasks,
             station_id : Stations, kds_task_id : KdsTasks, at : Times]
DispatchFailedCall == [op : {"dispatch_failed"}, task : Tasks, attempts : 1..MaxAttempts]
Call == MarkDisplayedCall \union WorkCall \union DispatchFailedCall

\* A session: idle, holding its task's row, or past complete_task's count.
Idle == [pc |-> "idle"]
Session == {Idle}
           \union [pc : {"locked"}, call : Call, row : Row, order : OrderStatus]
           \union [pc : {"counted"}, call : Call, row : Row, order : OrderStatus,
                   order_ready : BOOLEAN]

TasksOf(o) == {t \in Tasks : OrderOf[t] = o}
OrderIdOf(r) == OrderOf[req[r].call.task]

\* Faulty: a SELECT without FOR UPDATE.
NeverLocked(t) == FALSE

\* The row lock SELECT ... FOR UPDATE takes, held until the session ends.
RowLocked(t) == \E r \in Requests : req[r].pc # "idle" /\ req[r].call.task = t

-----------------------------------------------------------------------------
(* domain/transitions.py *)

\* Faulty: a task may be shown before it is queued.
TransitionsFromCreated ==
  {<<"created", "displayed">>, <<"queued", "displayed">>, <<"retrying", "displayed">>,
   <<"displayed", "in_progress">>, <<"in_progress", "done">>,
   <<"queued", "failed">>, <<"retrying", "failed">>}

\* Faulty: a task on display may still be given up.
TransitionsFailDisplayed ==
  {<<"queued", "displayed">>, <<"retrying", "displayed">>,
   <<"displayed", "in_progress">>, <<"in_progress", "done">>,
   <<"queued", "failed">>, <<"retrying", "failed">>, <<"displayed", "failed">>}

ALLOWED_TRANSITIONS ==
  {<<"queued", "displayed">>, <<"retrying", "displayed">>,
   <<"displayed", "in_progress">>, <<"in_progress", "done">>,
   <<"queued", "failed">>, <<"retrying", "failed">>}

can_transition(current, target) == <<current, target>> \in ALLOWED_TRANSITIONS

\* _validate_same_station_and_kds
SameStationAndKds(row, call) ==
  /\ row.station_id = call.station_id
  /\ row.kds_task_id = call.kds_task_id

-----------------------------------------------------------------------------
(* OrderCreationService *)

\* create_order up to its commit: the order, its tasks and their dependencies
\* are inserted in one transaction, after the kitchen and menu were asked.
CreateOrder(o) ==
  /\ order[o] = "absent"
  /\ order' = [order EXCEPT ![o] = "created"]
  /\ task' = [t \in Tasks |->
                IF OrderOf[t] = o THEN [Absent EXCEPT !.status = "created"] ELSE task[t]]
  /\ creator' = [creator EXCEPT ![o] = "publishing"]
  /\ UNCHANGED <<published, req>>

\* The task the publish loop of _publish_and_queue_tasks has reached.
NextToPublish(t) ==
  /\ creator[OrderOf[t]] = "publishing"
  /\ t \notin published
  /\ \A u \in TasksOf(OrderOf[t]) : BuildIndex[u] < BuildIndex[t] => u \in published

PublishTask(t) ==
  /\ NextToPublish(t)
  /\ published' = published \union {t}
  /\ UNCHANGED <<task, order, creator, req>>

\* The columns mark_tasks_queued writes.
QueuedRow(row) == [row EXCEPT !.status = "queued", !.attempts = 1]

\* Faulty: the tasks are queued before they are published.
QueueBeforePublishing(o) ==
  /\ creator[o] = "publishing"
  /\ \A t \in TasksOf(o) : ~RowLocked(t)
  /\ task' = [t \in Tasks |->
                IF OrderOf[t] = o THEN QueuedRow(task[t]) ELSE task[t]]
  /\ creator' = [creator EXCEPT ![o] = "finished"]
  /\ UNCHANGED <<order, published, req>>

\* mark_tasks_queued and its commit, after every task was published.  The
\* session still holds the task objects it created: it writes the columns
\* without reading the rows again, and only waits for their locks.
MarkTasksQueued(o) ==
  /\ creator[o] = "publishing"
  /\ TasksOf(o) \subseteq published
  /\ \A t \in TasksOf(o) : ~RowLocked(t)
  /\ task' = [t \in Tasks |->
                IF OrderOf[t] = o THEN QueuedRow(task[t]) ELSE task[t]]
  /\ creator' = [creator EXCEPT ![o] = "finished"]
  /\ UNCHANGED <<order, published, req>>

\* POST /orders stops between its two commits: xadd raised (the message may
\* have been added all the same), the second commit raised, the process died,
\* or no publisher is configured.  Nothing takes the order up again.
AbandonCreation(o) ==
  /\ creator[o] = "publishing"
  /\ creator' = [creator EXCEPT ![o] = "abandoned"]
  /\ \/ UNCHANGED published
     \/ \E t \in TasksOf(o) : NextToPublish(t) /\ published' = published \union {t}
  /\ UNCHANGED <<task, order, req>>

-----------------------------------------------------------------------------
(* TaskTransitionService *)

\* Faulty: no check that the task exists.
GetUnknownForUpdate(r, call) ==
  /\ req[r].pc = "idle"
  /\ ~RowLocked(call.task)
  /\ req' = [req EXCEPT ![r] = [pc |-> "locked", call |-> call,
                                row |-> task[call.task],
                                order |-> order[OrderOf[call.task]]]]
  /\ UNCHANGED <<task, order, creator, published>>

\* _get_task_for_transition: wait for the row lock, read the row and, through
\* selectinload, the order.  An unknown task is a 404 and changes nothing.
GetForUpdate(r, call) ==
  /\ req[r].pc = "idle"
  /\ task[call.task].status # "absent"
  /\ ~RowLocked(call.task)
  /\ req' = [req EXCEPT ![r] = [pc |-> "locked", call |-> call,
                                row |-> task[call.task],
                                order |-> order[OrderOf[call.task]]]]
  /\ UNCHANGED <<task, order, creator, published>>

\* The session ends: the lock is released, the answer is sent.
Release(r) == req' = [req EXCEPT ![r] = Idle]

At(r, op) == req[r].pc = "locked" /\ req[r].call.op = op

\* Whether the handler finds the task already where the call wants it: the
\* call is then answered from the row, as a replay or as a conflict.
Already(r, target) == req[r].row.status = target

\* A replay, a 409 or an error: the session ends with nothing written.
AnswerUnchanged(r) == Release(r) /\ UNCHANGED <<task, order, creator, published>>

MayDisplay(r) == can_transition(req[r].row.status, "displayed")

MarkDisplayed(r) ==
  /\ At(r, "mark_displayed")
  /\ LET call == req[r].call IN
     \/ /\ Already(r, "displayed") \/ ~MayDisplay(r)
        /\ AnswerUnchanged(r)
     \/ /\ ~Already(r, "displayed") /\ MayDisplay(r)
        /\ task' = [task EXCEPT ![call.task] =
                      [@ EXCEPT !.status = "displayed",
                                !.station_id = call.station_id,
                                !.kds_task_id = call.kds_task_id]]
        /\ Release(r)
        /\ UNCHANGED <<order, creator, published>>

MayStart(r) ==
  /\ can_transition(req[r].row.status, "in_progress")
  /\ SameStationAndKds(req[r].row, req[r].call)

\* The ORM writes orders.status only when it differs from the loaded value.
StartTask(r) ==
  /\ At(r, "start")
  /\ LET call == req[r].call IN
     \/ /\ Already(r, "in_progress") \/ ~MayStart(r)
        /\ AnswerUnchanged(r)
     \/ /\ ~Already(r, "in_progress") /\ MayStart(r)
        /\ task' = [task EXCEPT ![call.task] =
                      [@ EXCEPT !.status = "in_progress", !.started_at = call.at]]
        /\ order' = IF req[r].order = "cooking" THEN order
                    ELSE [order EXCEPT ![OrderIdOf(r)] = "cooking"]
        /\ Release(r)
        /\ UNCHANGED <<creator, published>>

MayComplete(r) ==
  /\ can_transition(req[r].row.status, "done")
  /\ SameStationAndKds(req[r].row, req[r].call)
  /\ req[r].row.started_at # NULL
  /\ req[r].call.at >= req[r].row.started_at

\* Faulty: only tasks being worked on count as unfinished.
NoTaskInProgress(t) ==
  \A u \in TasksOf(OrderOf[t]) : u # t => task[u].status # "in_progress"

\* Faulty: without autoflush the session's own row still counts as unfinished.
AllCommittedTasksDone(t) ==
  \A u \in TasksOf(OrderOf[t]) : task[u].status = "done"

\* all_order_tasks_done: the session sees its own row as done (autoflush) and
\* of every other row what is committed.
AllOrderTasksDone(t) ==
  \A u \in TasksOf(OrderOf[t]) : u # t => task[u].status = "done"

CompleteTask(r) ==
  /\ At(r, "complete")
  /\ \/ /\ Already(r, "done") \/ ~MayComplete(r)
        /\ AnswerUnchanged(r)
     \/ /\ ~Already(r, "done") /\ MayComplete(r)
        /\ req' = [req EXCEPT ![r] =
                     [pc |-> "counted", call |-> @.call, row |-> @.row, order |-> @.order,
                      order_ready |-> AllOrderTasksDone(@.call.task)]]
        /\ UNCHANGED <<task, order, creator, published>>

CompleteCommit(r) ==
  /\ req[r].pc = "counted"
  /\ task' = [task EXCEPT ![req[r].call.task] = [@ EXCEPT !.status = "done"]]
  /\ order' = IF req[r].order_ready
              THEN [order EXCEPT ![OrderIdOf(r)] = "ready_for_pickup"] ELSE order
  /\ Release(r)
  /\ UNCHANGED <<creator, published>>

DispatchFailed(r) ==
  /\ At(r, "dispatch_failed")
  /\ LET call == req[r].call
         row  == req[r].row IN
     \/ /\ Already(r, "failed") \/ ~can_transition(row.status, "failed")
        /\ AnswerUnchanged(r)
     \/ /\ ~Already(r, "failed") /\ can_transition(row.status, "failed")
        /\ task' = [task EXCEPT ![call.task] =
                      [@ EXCEPT !.status = "failed",
                                !.attempts = IF call.attempts > row.attempts
                                             THEN call.attempts
                                             ELSE task[call.task].attempts]]
        /\ Release(r)
        /\ UNCHANGED <<order, creator, published>>

\* The process or its database connection dies: the transaction is rolled back.
Rollback(r) ==
  /\ req[r].pc # "idle"
  /\ AnswerUnchanged(r)

-----------------------------------------------------------------------------
Init ==
  /\ task = [t \in Tasks |-> Absent]
  /\ order = [o \in Orders |-> "absent"]
  /\ creator = [o \in Orders |-> "none"]
  /\ published = {}
  /\ req = [r \in Requests |-> Idle]

Creation ==
  \/ \E o \in Orders : CreateOrder(o) \/ MarkTasksQueued(o) \/ AbandonCreation(o)
  \/ \E t \in Tasks : PublishTask(t)

Handler(r) ==
  \/ MarkDisplayed(r) \/ StartTask(r) \/ CompleteTask(r) \/ CompleteCommit(r)
  \/ DispatchFailed(r)

Next ==
  \/ Creation
  \/ \E r \in Requests :
       \/ \E call \in Call : GetForUpdate(r, call)
       \/ Handler(r)
       \/ Rollback(r)

Spec == Init /\ [][Next]_vars

-----------------------------------------------------------------------------
(* Properties *)

\* Committed rows and sessions have the shape the schema and the handlers give
\* them; a session never works on a task that does not exist.
TypeOK ==
  /\ task \in [Tasks -> Row]
  /\ order \in [Orders -> OrderStatus \union {"absent"}]
  /\ creator \in [Orders -> {"none", "publishing", "finished", "abandoned"}]
  /\ published \subseteq Tasks
  /\ req \in [Requests -> Session]

\* An order shown as ready_for_pickup has no open task: complete_task decides
\* on rows it has not locked, start_task writes the order row of its siblings.
ReadyMeansAllDone ==
  \A t \in Tasks : order[OrderOf[t]] = "ready_for_pickup" => task[t].status = "done"

\* An order whose POST /orders has not reached its second commit keeps all its
\* tasks in created, whatever the scheduler does with messages that are already
\* in the stream: mark_tasks_queued overwrites rows without reading them, and
\* this is what makes that safe.
UnqueuedTasksWait ==
  \A t \in Tasks : creator[OrderOf[t]] \in {"publishing", "abandoned"}
                    => task[t].status = "created"

\* No task waits in queued without a message in a stream that can move it:
\* _publish_and_queue_tasks publishes first and commits afterwards.
QueuedWasPublished ==
  \A t \in Tasks : task[t].status \notin {"absent", "created"} => t \in published

\* FrozenStep, AssignmentFrozen: once a task is displayed, no retry, replay or late call moves it to another
\* station or KDS task, and once started its start time (the base of its SLA
\* deadline) never changes.
FrozenStep ==
  \A t \in Tasks :
    /\ task[t].status \in {"displayed", "in_progress", "done"} =>
         /\ task'[t].station_id = task[t].station_id
         /\ task'[t].kds_task_id = task[t].kds_task_id
    /\ task[t].status \in {"in_progress", "done"} =>
         task'[t].started_at = task[t].started_at
AssignmentFrozen == [][FrozenStep]_vars

\* Every step of every request, in any interleaving, is one step of the task
\* state machine or changes nothing a client can see.
Lifecycle == INSTANCE TaskLifecycle WITH
  status <- [t \in Tasks |-> task[t].status], order <- order
RefinesLifecycle == Lifecycle!LifecycleSpec

\* When the last task of an order is done and no request on the order is in
\* progress, the order is ready_for_pickup.
OrderClosed ==
  \A o \in Orders :
    /\ order[o] # "absent"
    /\ \A t \in TasksOf(o) : task[t].status = "done" /\ ~RowLocked(t)
    => order[o] = "ready_for_pickup"
=============================================================================
