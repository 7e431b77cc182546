------------------------- MODULE FulfillmentEvents -------------------------
(***************************************************************************)
(* The event log of fulfillment-service: what POST /orders and the         *)
(* transition requests write to MongoDB after their commits.               *)
(*                                                                         *)
(* A writer, which is an order's POST /orders or a transition request,     *)
(* awaits its inserts one after the other and only then goes on or         *)
(* answers.  An insert may raise, stored or not; a failed insert of an     *)
(* order or task event is followed by one of an audit event; what raises   *)
(* is logged and swallowed.                                                *)
(***************************************************************************)
EXTENDS Fulfillment, Sequences, FiniteSets, Functions

CONSTANTS MaxFaults  \* bound on the inserts that raise and the deaths while writing

ASSUME MaxFaultsType == MaxFaults \in Nat
ASSUME WritersDiffer == Orders \intersect Requests = {}

\* BuildIndex numbers the tasks of each order from 1, in a finite list.
ASSUME BuildList ==
  /\ IsFiniteSet(Tasks)
  /\ \A t \in Tasks : BuildIndex[t] \in 1..Cardinality(TasksOf(OrderOf[t]))
  /\ \A o \in Orders : \A i \in 1..Cardinality(TasksOf(o)) :
       \E t \in TasksOf(o) : BuildIndex[t] = i
  /\ \A t, u \in Tasks : OrderOf[t] = OrderOf[u] /\ BuildIndex[t] = BuildIndex[u] => t = u

VARIABLES
  outbox,   \* what each writer has still to insert
  log,      \* documents of order_events, task_events and app_audit_events
  failed,   \* events whose insert raised
  dropped   \* events a writer that died had not inserted

logVars == <<outbox, log, failed, dropped>>
eventVars == <<vars, logVars>>

Writers == Orders \union Requests

-----------------------------------------------------------------------------
(* Events *)

OrderEvents == {"OrderCreated", "KitchenTasksCreated", "OrderReadyForPickup"}
TaskEvents == {"TaskQueued", "TaskDisplayed", "TaskStarted", "TaskCompleted", "TaskDispatchFailed"}
AuditEvents == {"DispatchFailed", "MongoEventWriteFailed"}

Event(type, subject) == [type |-> type, of |-> subject]
IsAudit(e) == e.type \in AuditEvents

Pending == UNION {Range(outbox[w]) : w \in Writers}
Known == log \union Pending \union failed \union dropped

OrderCreatedEvents(o) == <<Event("OrderCreated", o), Event("KitchenTasksCreated", o)>>

\* One TaskQueued per task, in the order in which they were published.
TaskQueuedEvents(o) ==
  [i \in 1..Cardinality(TasksOf(o)) |->
     Event("TaskQueued", CHOOSE t \in TasksOf(o) : BuildIndex[t] = i)]

\* Faulty: a replay is announced like the transition itself.
CommitsOrReplays(r) ==
  \/ At(r, "mark_displayed") /\ (Already(r, "displayed") \/ MayDisplay(r))
  \/ At(r, "start") /\ ~Already(r, "in_progress") /\ MayStart(r)
  \/ At(r, "dispatch_failed") /\ ~Already(r, "failed") /\ can_transition(req[r].row.status, "failed")
  \/ req[r].pc = "counted"

\* Whether the next step of the request is the commit of a transition.
Commits(r) ==
  \/ At(r, "mark_displayed") /\ ~Already(r, "displayed") /\ MayDisplay(r)
  \/ At(r, "start") /\ ~Already(r, "in_progress") /\ MayStart(r)
  \/ At(r, "dispatch_failed") /\ ~Already(r, "failed") /\ can_transition(req[r].row.status, "failed")
  \/ req[r].pc = "counted"

\* What a transition announces once it is committed.
Announced(r) ==
  LET t == req[r].call.task IN
  CASE req[r].call.op = "mark_displayed"  -> <<Event("TaskDisplayed", t)>>
    [] req[r].call.op = "start"           -> <<Event("TaskStarted", t)>>
    [] req[r].call.op = "dispatch_failed" ->
         <<Event("TaskDispatchFailed", t), Event("DispatchFailed", t)>>
    [] req[r].call.op = "complete"        ->
         <<Event("TaskCompleted", t)>>
         \o IF req[r].order_ready
            THEN <<Event("OrderReadyForPickup", OrderOf[t])>> ELSE <<>>

-----------------------------------------------------------------------------
(* Inserts *)

\* At most one writer dies while it writes.
FaultsSoFar == Cardinality(failed) + (IF dropped = {} THEN 0 ELSE 1)

Insert(w) ==
  /\ outbox[w] # <<>>
  /\ log' = log \union {Head(outbox[w])}
  /\ outbox' = [outbox EXCEPT ![w] = Tail(@)]
  /\ UNCHANGED <<vars, failed, dropped>>

\* Faulty: a failed insert makes the writer give up what it still has to write.
GiveUpAfterFailure(e, rest) == <<>>

\* What a writer inserts after the insert of e raised.
AfterFailure(e, rest) ==
  IF IsAudit(e) THEN rest ELSE <<Event("MongoEventWriteFailed", e)>> \o rest

InsertFails(w) ==
  /\ outbox[w] # <<>>
  /\ FaultsSoFar < MaxFaults
  /\ log' \in {log, log \union {Head(outbox[w])}}
  /\ failed' = failed \union {Head(outbox[w])}
  /\ outbox' = [outbox EXCEPT ![w] = AfterFailure(Head(@), Tail(@))]
  /\ UNCHANGED <<vars, dropped>>

\* A transition request dies after its commit.
WriterDies(r) ==
  /\ outbox[r] # <<>>
  /\ FaultsSoFar < MaxFaults
  /\ dropped' = dropped \union Range(outbox[r])
  /\ outbox' = [outbox EXCEPT ![r] = <<>>]
  /\ UNCHANGED <<vars, log, failed>>

-----------------------------------------------------------------------------
(* The service's steps with their announcements *)

Announce(w, events) ==
  /\ outbox' = [outbox EXCEPT ![w] = @ \o events]
  /\ UNCHANGED <<log, failed, dropped>>

\* Faulty: the order's own events are written by a background job.
CreationWaitsForNothing(o) == TRUE

\* _publish_and_queue_tasks begins when the order's own events are written.
CreationMayGoOn(o) == outbox[o] = <<>>

CreationStep(o) ==
  \/ CreateOrder(o) /\ Announce(o, OrderCreatedEvents(o))
  \/ /\ CreationMayGoOn(o)
     /\ \E t \in TasksOf(o) : PublishTask(t)
     /\ UNCHANGED logVars
  \/ CreationMayGoOn(o) /\ MarkTasksQueued(o) /\ Announce(o, TaskQueuedEvents(o))

\* POST /orders stops: inside its publish loop, or killed while it writes.
CreationStops(o) ==
  \/ CreationMayGoOn(o) /\ AbandonCreation(o) /\ UNCHANGED logVars
  \/ /\ outbox[o] # <<>>
     /\ FaultsSoFar < MaxFaults
     /\ creator' = [creator EXCEPT ![o] = IF @ = "publishing" THEN "abandoned" ELSE @]
     /\ dropped' = dropped \union Range(outbox[o])
     /\ outbox' = [outbox EXCEPT ![o] = <<>>]
     /\ UNCHANGED <<task, order, published, req, log, failed>>

RequestStep(r) ==
  \/ /\ outbox[r] = <<>>
     /\ \E call \in Call : GetForUpdate(r, call)
     /\ UNCHANGED logVars
  \/ Commits(r) /\ Handler(r) /\ Announce(r, Announced(r))
  \/ ~Commits(r) /\ Handler(r) /\ UNCHANGED logVars
  \/ Rollback(r) /\ UNCHANGED logVars

-----------------------------------------------------------------------------
EventsInit ==
  /\ Init
  /\ outbox = [w \in Writers |-> <<>>]
  /\ log = {} /\ failed = {} /\ dropped = {}

EventsNext ==
  \/ \E o \in Orders : CreationStep(o) \/ CreationStops(o)
  \/ \E r \in Requests : RequestStep(r) \/ WriterDies(r)
  \/ \E w \in Writers : Insert(w) \/ InsertFails(w)

EventsSpec == EventsInit /\ [][EventsNext]_eventVars

-----------------------------------------------------------------------------
(* Properties *)

\* No event is written twice, by one writer or by two: replays announce nothing,
\* two concurrent calls announce one transition, and of two completions that
\* finish an order at most one announces OrderReadyForPickup.
AnnouncedOnce ==
  /\ \A w \in Writers : \A i \in DOMAIN outbox[w] : outbox[w][i] \notin log \union dropped
  /\ \A w, v \in Writers : \A i \in DOMAIN outbox[w], j \in DOMAIN outbox[v] :
       outbox[w][i] = outbox[v][j] => w = v /\ i = j

\* The log never tells of something the database does not have, and what it
\* told stays true: an order announced as ready is never taken back to cooking.
LogIsTrue ==
  /\ \A o \in Orders : Event("OrderReadyForPickup", o) \in Known => order[o] = "ready_for_pickup"
  /\ \A t \in Tasks :
       /\ Event("TaskCompleted", t) \in Known => task[t].status = "done"
       /\ Event("TaskStarted", t) \in Known => task[t].status \in {"in_progress", "done"}
       /\ Event("TaskDisplayed", t) \in Known => task[t].status \in {"displayed", "in_progress", "done"}
       /\ Event("TaskDispatchFailed", t) \in Known => task[t].status = "failed"

\* Nothing happens unannounced: the event of every committed transition is in
\* the log, on its way there, or was lost with an insert that raised or a writer
\* that died; and a lost insert has an audit event of its own.
LogIsComplete ==
  /\ \A o \in Orders :
       /\ order[o] # "absent" => Range(OrderCreatedEvents(o)) \subseteq Known
       /\ order[o] = "ready_for_pickup" => Event("OrderReadyForPickup", o) \in Known
  /\ \A t \in Tasks :
       /\ creator[OrderOf[t]] = "finished" => Event("TaskQueued", t) \in Known
       /\ task[t].status \in {"displayed", "in_progress", "done"} => Event("TaskDisplayed", t) \in Known
       /\ task[t].status \in {"in_progress", "done"} => Event("TaskStarted", t) \in Known
       /\ task[t].status = "done" => Event("TaskCompleted", t) \in Known
       /\ task[t].status = "failed" => Event("DispatchFailed", t) \in Known
  /\ \A e \in failed : IsAudit(e) \/ Event("MongoEventWriteFailed", e) \in Known

\* No task event is written while the events of its order are still on their
\* way: they are awaited before the first task is published.
OrderEventsFirst ==
  \A t \in Tasks, type \in TaskEvents :
    Event(type, t) \in log => Range(OrderCreatedEvents(OrderOf[t])) \intersect Pending = {}
=============================================================================
