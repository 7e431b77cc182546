-------------------------- MODULE FulfillmentProofs --------------------------
(***************************************************************************)
(* Proofs about Fulfillment for any orders, tasks, requests and payloads.  *)
(*                                                                         *)
(* The invariants the runs check are not inductive.  What makes them so is *)
(* the row lock: at most one session holds a task (LockExclusive), what it *)
(* read is what the row still says (SessionCurrent), and a completion that *)
(* counted all its siblings done may rely on it until it commits, because  *)
(* done is final (CountStands).                                            *)
(***************************************************************************)
EXTENDS Fulfillment, TLAPS

\* A task's row is locked by one session at most.
LockExclusive ==
  \A r, q \in Requests :
    req[r].pc # "idle" /\ req[q].pc # "idle" /\ req[r].call.task = req[q].call.task => r = q

\* What a session read of the row it locked is what is committed.
SessionCurrent ==
  \A r \in Requests : req[r].pc # "idle" =>
    /\ req[r].row = task[req[r].call.task]
    /\ req[r].row.status # "absent"

\* A completion that found its siblings done may rely on it until it commits.
CountStands ==
  \A r \in Requests : req[r].pc = "counted" =>
    /\ req[r].row.status = "in_progress"
    /\ req[r].order_ready => AllOrderTasksDone(req[r].call.task)

\* An order, its tasks and its creation come into being together.
CreatedTogether ==
  /\ \A t \in Tasks : task[t].status = "absent" <=> order[OrderOf[t]] = "absent"
  /\ \A o \in Orders : creator[o] = "none" <=> order[o] = "absent"

\* No code of the service writes retrying or cancelled.
LiveStatuses == \A t \in Tasks : task[t].status \notin {"retrying", "cancelled"}

\* An order a session saw cooking has not gone back since.
OrderSeenStands ==
  \A r \in Requests : req[r].pc # "idle" /\ req[r].order = "cooking" =>
    order[OrderIdOf(r)] \in {"cooking", "ready_for_pickup"}

\* The inductive invariant.
IInv ==
  /\ TypeOK
  /\ LockExclusive
  /\ SessionCurrent
  /\ CountStands
  /\ OrderSeenStands
  /\ CreatedTogether
  /\ LiveStatuses
  /\ UnqueuedTasksWait
  /\ QueuedWasPublished
  /\ ReadyMeansAllDone

-----------------------------------------------------------------------------
\* Sessions and calls are what their pc says they are.
LEMMA SessionShape ==
  ASSUME TypeOK, NEW r \in Requests, req[r].pc # "idle"
  PROVE  /\ req[r].call \in Call
         /\ req[r].call.task \in Tasks
         /\ req[r].row \in Row
         /\ req[r].order \in OrderStatus
         /\ req[r].pc \in {"locked", "counted"}
         /\ req[r].pc = "counted" => req[r].order_ready \in BOOLEAN
<1>1. req[r] \in Session
  BY DEF TypeOK
<1>2. QED
  BY <1>1 DEF Session, Idle, Call, MarkDisplayedCall, WorkCall, DispatchFailedCall

\* A session may rest.
LEMMA IdleInSession == Idle \in Session /\ Idle.pc = "idle"
  BY DEF Idle, Session

\* The empty database satisfies the inductive invariant.
THEOREM InitIInv == Init => IInv
<1> SUFFICES ASSUME Init PROVE IInv
  OBVIOUS
<1>1. TypeOK
  BY IdleInSession, MaxAttemptsType DEF Init, TypeOK, Row, Absent
<1>2. QED
  BY <1>1, OrderOfType, IdleInSession DEF Init, IInv, LockExclusive, SessionCurrent, CountStands,
     OrderSeenStands, CreatedTogether, LiveStatuses, UnqueuedTasksWait, QueuedWasPublished,
     ReadyMeansAllDone, Absent

-----------------------------------------------------------------------------
(* What the handlers write *)

\* The session of r ends and leaves row, in status to, where the task's row
\* had a status in from.
Writes(r, from, to, row) ==
  /\ req[r].pc # "idle"
  /\ req[r].call.task \in Tasks
  /\ task[req[r].call.task].status \in from
  /\ row.status = to
  /\ task' = [task EXCEPT ![req[r].call.task] = row]
  /\ Release(r)
  /\ UNCHANGED <<creator, published>>

\* What mark_displayed leaves in the task row, and what it leaves alone.
LEMMA MarkDisplayedWrites ==
  ASSUME IInv, NEW r \in Requests, MarkDisplayed(r), ~AnswerUnchanged(r)
  PROVE  \E row \in Row : Writes(r, {"queued"}, "displayed", row) /\ UNCHANGED order
<1> DEFINE call == req[r].call
           row == [task[call.task] EXCEPT !.status = "displayed",
                     !.station_id = call.station_id, !.kds_task_id = call.kds_task_id]
<1>1. req[r].pc # "idle" /\ call.op = "mark_displayed" /\ call \in Call /\ call.task \in Tasks
  BY SessionShape DEF MarkDisplayed, At, IInv
<1>2. call.station_id \in Stations /\ call.kds_task_id \in KdsTasks
  BY <1>1 DEF Call, MarkDisplayedCall, WorkCall, DispatchFailedCall
<1>3. row \in Row /\ row.status = "displayed"
  BY <1>1, <1>2 DEF IInv, TypeOK, Row, TaskStatus
<1>4. /\ req[r].row.status \in {"queued", "retrying"}
      /\ task' = [task EXCEPT ![call.task] = row]
      /\ Release(r) /\ UNCHANGED <<order, creator, published>>
  BY DEF MarkDisplayed, MayDisplay, can_transition, ALLOWED_TRANSITIONS
<1>5. task[call.task].status = "queued"
  BY <1>1, <1>4 DEF IInv, SessionCurrent, LiveStatuses
<1> HIDE DEF row
<1>6. QED
  BY <1>1, <1>3, <1>4, <1>5 DEF Writes

\* What start_task leaves in the task row and in the order.
LEMMA StartTaskWrites ==
  ASSUME IInv, NEW r \in Requests, StartTask(r), ~AnswerUnchanged(r)
  PROVE  /\ \E row \in Row :
              /\ Writes(r, {"displayed"}, "in_progress", row)
              /\ row.station_id = task[req[r].call.task].station_id
              /\ row.kds_task_id = task[req[r].call.task].kds_task_id
         /\ order' = [order EXCEPT ![OrderIdOf(r)] = "cooking"]
<1> DEFINE call == req[r].call
           row == [task[call.task] EXCEPT !.status = "in_progress", !.started_at = call.at]
<1>1. req[r].pc # "idle" /\ call.op = "start" /\ call \in Call /\ call.task \in Tasks
  BY SessionShape DEF StartTask, At, IInv
<1>2. call.at \in Times
  BY <1>1 DEF Call, MarkDisplayedCall, WorkCall, DispatchFailedCall
<1>3. /\ row \in Row /\ row.status = "in_progress"
      /\ row.station_id = task[call.task].station_id
      /\ row.kds_task_id = task[call.task].kds_task_id
  BY <1>1, <1>2 DEF IInv, TypeOK, Row, TaskStatus
<1>4. /\ req[r].row.status = "displayed"
      /\ task' = [task EXCEPT ![call.task] = row]
      /\ \/ order' = order /\ req[r].order = "cooking"
         \/ order' = [order EXCEPT ![OrderIdOf(r)] = "cooking"]
      /\ Release(r) /\ UNCHANGED <<creator, published>>
  BY DEF StartTask, MayStart, can_transition, ALLOWED_TRANSITIONS
<1>5. task[call.task].status = "displayed"
  BY <1>1, <1>4 DEF IInv, SessionCurrent
<1>6. req[r].order = "cooking" => order[OrderIdOf(r)] = "cooking"
  BY <1>1, <1>5 DEF IInv, OrderSeenStands, ReadyMeansAllDone, OrderIdOf
<1>7. order' = [order EXCEPT ![OrderIdOf(r)] = "cooking"]
  BY <1>1, <1>4, <1>6, OrderOfType DEF IInv, TypeOK, OrderIdOf
<1> HIDE DEF row
<1>8. QED
  BY <1>1, <1>3, <1>4, <1>5, <1>7 DEF Writes

\* What the commit of complete_task leaves in the task row and in the order.
LEMMA CompleteCommitWrites ==
  ASSUME IInv, NEW r \in Requests, CompleteCommit(r)
  PROVE  /\ \E row \in Row :
              /\ Writes(r, {"in_progress"}, "done", row)
              /\ row.station_id = task[req[r].call.task].station_id
              /\ row.kds_task_id = task[req[r].call.task].kds_task_id
              /\ row.started_at = task[req[r].call.task].started_at
         /\ \/ UNCHANGED order
            \/ /\ AllOrderTasksDone(req[r].call.task)
               /\ order' = [order EXCEPT ![OrderIdOf(r)] = "ready_for_pickup"]
<1> DEFINE t == req[r].call.task
           row == [task[t] EXCEPT !.status = "done"]
<1>1. req[r].pc = "counted" /\ t \in Tasks /\ task[t].status = "in_progress"
  BY SessionShape DEF CompleteCommit, IInv, SessionCurrent, CountStands
<1>2. /\ row \in Row /\ row.status = "done" /\ row.station_id = task[t].station_id
      /\ row.kds_task_id = task[t].kds_task_id /\ row.started_at = task[t].started_at
  BY <1>1 DEF IInv, TypeOK, Row, TaskStatus
<1>3. /\ task' = [task EXCEPT ![t] = row]
      /\ \/ order' = order
         \/ /\ req[r].order_ready
            /\ order' = [order EXCEPT ![OrderIdOf(r)] = "ready_for_pickup"]
      /\ Release(r) /\ UNCHANGED <<creator, published>>
  BY DEF CompleteCommit
<1>4. req[r].order_ready => AllOrderTasksDone(t)
  BY <1>1 DEF IInv, CountStands
<1> HIDE DEF row
<1>5. QED
  BY <1>1, <1>2, <1>3, <1>4 DEF Writes

\* What dispatch_failed leaves in the task row.
LEMMA DispatchFailedWrites ==
  ASSUME IInv, NEW r \in Requests, DispatchFailed(r), ~AnswerUnchanged(r)
  PROVE  \E row \in Row : Writes(r, {"queued"}, "failed", row) /\ UNCHANGED order
<1> DEFINE call == req[r].call
           n == IF call.attempts > req[r].row.attempts THEN call.attempts
                ELSE task[call.task].attempts
           row == [task[call.task] EXCEPT !.status = "failed", !.attempts = n]
<1>1. req[r].pc # "idle" /\ call.op = "dispatch_failed" /\ call \in Call /\ call.task \in Tasks
  BY SessionShape DEF DispatchFailed, At, IInv
<1>2. call.attempts \in 1..MaxAttempts
  BY <1>1 DEF Call, MarkDisplayedCall, WorkCall, DispatchFailedCall
<1>3. task[call.task] \in Row /\ task[call.task].attempts \in 0..MaxAttempts
  BY <1>1 DEF IInv, TypeOK, Row
<1>4. n \in 0..MaxAttempts
  BY <1>2, <1>3, MaxAttemptsType
<1>5. row \in Row /\ row.status = "failed"
  BY <1>3, <1>4 DEF Row, TaskStatus
<1>6. /\ req[r].row.status \in {"queued", "retrying"}
      /\ task' = [task EXCEPT ![call.task] = row]
      /\ Release(r) /\ UNCHANGED <<order, creator, published>>
  BY DEF DispatchFailed, can_transition, ALLOWED_TRANSITIONS
<1>7. task[call.task].status = "queued"
  BY <1>1, <1>6 DEF IInv, SessionCurrent, LiveStatuses
<1> HIDE DEF row
<1>8. QED
  BY <1>1, <1>5, <1>6, <1>7 DEF Writes

-----------------------------------------------------------------------------
(* Each action preserves IInv *)

\* A session that ends without writing disturbs nothing.
LEMMA AnswerUnchangedIInv ==
  ASSUME IInv, NEW r \in Requests, AnswerUnchanged(r) PROVE IInv'
<1> USE DEF AnswerUnchanged, Release
<1>1. TypeOK'
  BY IdleInSession DEF IInv, TypeOK
<1>2. \A q \in Requests : req'[q].pc # "idle" => req'[q] = req[q]
  BY IdleInSession DEF IInv, TypeOK
<1>3. LockExclusive' /\ SessionCurrent' /\ OrderSeenStands'
  BY <1>2 DEF IInv, LockExclusive, SessionCurrent, OrderSeenStands, OrderIdOf
<1>4. CountStands'
  BY <1>2 DEF IInv, CountStands, AllOrderTasksDone, TasksOf
<1>5. QED
  BY <1>1, <1>3, <1>4 DEF IInv, CreatedTogether, LiveStatuses, UnqueuedTasksWait,
     QueuedWasPublished, ReadyMeansAllDone

\* A session that ends and writes its own row preserves the rest of IInv when
\* it preserves ReadyMeansAllDone and moves the order forward at most.
LEMMA WritesIInv ==
  ASSUME IInv, NEW r \in Requests, NEW row \in Row, NEW from, NEW to,
         Writes(r, from, to, row),
         from \subseteq {"queued", "displayed", "in_progress"},
         to \in {"displayed", "in_progress", "done", "failed"},
         order' \in [Orders -> OrderStatus \union {"absent"}],
         \A o \in Orders :
           /\ order'[o] = "absent" <=> order[o] = "absent"
           /\ order[o] \in {"cooking", "ready_for_pickup"}
              => order'[o] \in {"cooking", "ready_for_pickup"},
         ReadyMeansAllDone'
  PROVE  IInv'
<1> DEFINE t == req[r].call.task
<1> USE DEF Writes, Release
<1>1. TypeOK'
  BY IdleInSession DEF IInv, TypeOK
<1>2. \A q \in Requests : req'[q].pc # "idle" => req'[q] = req[q] /\ req[q].call.task # t
  BY IdleInSession DEF IInv, TypeOK, LockExclusive
<1>3. LockExclusive' /\ SessionCurrent'
  BY <1>2, SessionShape DEF IInv, TypeOK, LockExclusive, SessionCurrent
<1>4. CountStands'
  BY <1>2, SessionShape DEF IInv, TypeOK, CountStands, AllOrderTasksDone, TasksOf
<1>5. OrderSeenStands'
  BY <1>2, SessionShape, OrderOfType DEF IInv, OrderSeenStands, OrderIdOf
<1>6. CreatedTogether' /\ LiveStatuses'
  BY OrderOfType DEF IInv, TypeOK, CreatedTogether, LiveStatuses
<1>7. UnqueuedTasksWait' /\ QueuedWasPublished'
  BY DEF IInv, TypeOK, UnqueuedTasksWait, QueuedWasPublished
<1>8. QED
  BY <1>1, <1>3, <1>4, <1>5, <1>6, <1>7 DEF IInv

\* The first commit of POST /orders preserves the invariant.
LEMMA CreateOrderIInv ==
  ASSUME IInv, NEW o \in Orders, CreateOrder(o) PROVE IInv'
<1> USE DEF CreateOrder
<1>1. TypeOK'
  BY MaxAttemptsType DEF IInv, TypeOK, Row, TaskStatus, OrderStatus, Absent
<1>2. \A t \in Tasks : OrderOf[t] = o => task[t].status = "absent" /\ task'[t].status = "created"
  BY DEF IInv, CreatedTogether, Absent
<1>3. LockExclusive' /\ SessionCurrent'
  BY <1>2, SessionShape DEF IInv, TypeOK, LockExclusive, SessionCurrent
<1>4. CountStands'
  BY <1>2, SessionShape DEF IInv, TypeOK, CountStands, AllOrderTasksDone, TasksOf, SessionCurrent
<1>5. OrderSeenStands'
  BY SessionShape, OrderOfType DEF IInv, TypeOK, OrderSeenStands, OrderIdOf
<1>6. /\ CreatedTogether' /\ LiveStatuses' /\ UnqueuedTasksWait' /\ QueuedWasPublished'
      /\ ReadyMeansAllDone'
  BY <1>2, OrderOfType DEF IInv, TypeOK, CreatedTogether, LiveStatuses, UnqueuedTasksWait,
     QueuedWasPublished, ReadyMeansAllDone
<1>7. QED
  BY <1>1, <1>3, <1>4, <1>5, <1>6 DEF IInv

\* So does publishing, and giving up in the middle of it.
LEMMA PublishingIInv ==
  ASSUME IInv,
         \/ \E t \in Tasks : PublishTask(t)
         \/ \E o \in Orders : AbandonCreation(o)
  PROVE  IInv'
<1>1. UNCHANGED <<task, order, req>> /\ published \subseteq published' /\ published' \subseteq Tasks
  BY DEF IInv, TypeOK, PublishTask, AbandonCreation, TasksOf
<1>2. \/ UNCHANGED creator
      \/ \E o \in Orders : /\ creator[o] = "publishing"
                           /\ creator' = [creator EXCEPT ![o] = "abandoned"]
  BY DEF PublishTask, AbandonCreation
<1>3. TypeOK' /\ LockExclusive' /\ SessionCurrent' /\ CountStands' /\ OrderSeenStands'
  BY <1>1, <1>2 DEF IInv, TypeOK, LockExclusive, SessionCurrent, CountStands, AllOrderTasksDone,
     TasksOf, OrderSeenStands, OrderIdOf
<1>4. /\ CreatedTogether' /\ LiveStatuses' /\ UnqueuedTasksWait' /\ QueuedWasPublished'
      /\ ReadyMeansAllDone'
  BY <1>1, <1>2, OrderOfType DEF IInv, TypeOK, CreatedTogether, LiveStatuses, UnqueuedTasksWait,
     QueuedWasPublished, ReadyMeansAllDone
<1>5. QED
  BY <1>3, <1>4 DEF IInv

\* mark_tasks_queued changes the status and the attempts of a row only.
LEMMA QueuedRowType ==
  ASSUME NEW row \in Row PROVE QueuedRow(row) \in Row /\ QueuedRow(row).status = "queued"
<1>1. 1 \in 0..MaxAttempts
  BY MaxAttemptsType
<1>2. QED
  BY <1>1 DEF QueuedRow, Row, TaskStatus

\* What mark_tasks_queued finds and leaves.
LEMMA MarkTasksQueuedWrites ==
  ASSUME IInv, NEW o \in Orders, MarkTasksQueued(o)
  PROVE  \A t \in Tasks :
           /\ task'[t] \in Row
           /\ OrderOf[t] # o => task'[t] = task[t]
           /\ OrderOf[t] = o => /\ task[t].status = "created"
                                /\ task'[t].status = "queued"
                                /\ t \in published
<1>1. \A t \in Tasks : QueuedRow(task[t]) \in Row /\ QueuedRow(task[t]).status = "queued"
  BY QueuedRowType DEF IInv, TypeOK
<1>2. QED
  BY <1>1 DEF IInv, TypeOK, UnqueuedTasksWait, TasksOf, MarkTasksQueued

\* The second commit of POST /orders preserves the invariant: all rows it
\* overwrites are still created.
LEMMA MarkTasksQueuedIInv ==
  ASSUME IInv, NEW o \in Orders, MarkTasksQueued(o) PROVE IInv'
<1>1. \A t \in Tasks :
        /\ task'[t] \in Row
        /\ OrderOf[t] # o => task'[t] = task[t]
        /\ OrderOf[t] = o => /\ task[t].status = "created"
                             /\ task'[t].status = "queued"
                             /\ t \in published
  BY MarkTasksQueuedWrites
<1>2. task' \in [Tasks -> Row] /\ creator' = [creator EXCEPT ![o] = "finished"]
      /\ UNCHANGED <<order, published, req>>
  BY <1>1 DEF MarkTasksQueued
<1>3. TypeOK'
  BY <1>2 DEF IInv, TypeOK
<1>4. \A r \in Requests : req[r].pc # "idle" => OrderOf[req[r].call.task] # o
  BY SessionShape DEF IInv, RowLocked, TasksOf, MarkTasksQueued
<1>5. LockExclusive' /\ SessionCurrent' /\ OrderSeenStands'
  BY <1>1, <1>2, <1>4, SessionShape DEF IInv, LockExclusive, SessionCurrent, OrderSeenStands, OrderIdOf
<1>6. CountStands'
  BY <1>1, <1>2, <1>4, SessionShape DEF IInv, CountStands, AllOrderTasksDone, TasksOf
<1>7. CreatedTogether'
  BY <1>1, <1>2, OrderOfType DEF IInv, TypeOK, CreatedTogether, MarkTasksQueued
<1>8. LiveStatuses' /\ QueuedWasPublished'
  BY <1>1, <1>2 DEF IInv, LiveStatuses, QueuedWasPublished
<1>9. UnqueuedTasksWait' /\ ReadyMeansAllDone'
  BY <1>1, <1>2, OrderOfType DEF IInv, TypeOK, UnqueuedTasksWait, ReadyMeansAllDone
<1>10. QED
  BY <1>3, <1>5, <1>6, <1>7, <1>8, <1>9 DEF IInv

\* Locking and reading a row preserves the invariant: the row was free.
LEMMA GetForUpdateIInv ==
  ASSUME IInv, NEW r \in Requests, NEW call \in Call, GetForUpdate(r, call) PROVE IInv'
<1> USE DEF GetForUpdate
<1>1. call.task \in Tasks
  BY DEF Call, MarkDisplayedCall, WorkCall, DispatchFailedCall
<1>2. order[OrderOf[call.task]] \in OrderStatus /\ task[call.task] \in Row
  BY <1>1, OrderOfType DEF IInv, TypeOK, CreatedTogether
<1>3. TypeOK'
  BY <1>1, <1>2 DEF IInv, TypeOK, Session
<1>4. /\ req'[r].pc = "locked" /\ req'[r].call = call /\ req'[r].row = task[call.task]
      /\ req'[r].order = order[OrderOf[call.task]]
      /\ \A q \in Requests : q # r => req'[q] = req[q]
  BY DEF IInv, TypeOK
<1>5. LockExclusive' /\ SessionCurrent' /\ OrderSeenStands'
  BY <1>4 DEF IInv, RowLocked, LockExclusive, SessionCurrent, OrderSeenStands, OrderIdOf
<1>6. CountStands'
  BY <1>4 DEF IInv, CountStands, AllOrderTasksDone, TasksOf
<1>7. QED
  BY <1>3, <1>5, <1>6 DEF IInv, CreatedTogether, LiveStatuses, UnqueuedTasksWait,
     QueuedWasPublished, ReadyMeansAllDone

\* mark_displayed and dispatch_failed, which leave the order alone.
LEMMA DispatchOutcomeIInv ==
  ASSUME IInv, NEW r \in Requests, MarkDisplayed(r) \/ DispatchFailed(r) PROVE IInv'
<1>1. CASE AnswerUnchanged(r)
  BY <1>1, AnswerUnchangedIInv
<1>2. CASE ~AnswerUnchanged(r)
  <2>1. PICK row \in Row, to \in {"displayed", "failed"} :
          Writes(r, {"queued"}, to, row) /\ UNCHANGED order
    BY <1>2, MarkDisplayedWrites, DispatchFailedWrites
  <2>2. ReadyMeansAllDone'
    BY <2>1 DEF IInv, TypeOK, ReadyMeansAllDone, Writes
  <2>3. QED
    BY <2>1, <2>2, WritesIInv DEF IInv, TypeOK
<1>3. QED
  BY <1>1, <1>2

\* start_task preserves the invariant: the order it reopens had an open task.
LEMMA StartTaskIInv ==
  ASSUME IInv, NEW r \in Requests, StartTask(r) PROVE IInv'
<1>1. CASE AnswerUnchanged(r)
  BY <1>1, AnswerUnchangedIInv
<1>2. CASE ~AnswerUnchanged(r)
  <2>1. PICK row \in Row : Writes(r, {"displayed"}, "in_progress", row)
    BY <1>2, StartTaskWrites
  <2>2. order' = [order EXCEPT ![OrderOf[req[r].call.task]] = "cooking"]
    BY <1>2, StartTaskWrites DEF OrderIdOf
  <2>3. /\ order' \in [Orders -> OrderStatus \union {"absent"}]
        /\ \A o \in Orders :
             /\ order'[o] = "absent" <=> order[o] = "absent"
             /\ order[o] \in {"cooking", "ready_for_pickup"}
                => order'[o] \in {"cooking", "ready_for_pickup"}
    BY <2>1, <2>2, OrderOfType DEF IInv, TypeOK, OrderStatus, CreatedTogether, Writes
  <2>4. ReadyMeansAllDone'
    BY <2>1, <2>2, OrderOfType DEF IInv, TypeOK, ReadyMeansAllDone, Writes
  <2>5. QED
    BY <2>1, <2>3, <2>4, WritesIInv
<1>3. QED
  BY <1>1, <1>2

\* The count of complete_task preserves the invariant.
LEMMA CompleteTaskIInv ==
  ASSUME IInv, NEW r \in Requests, CompleteTask(r) PROVE IInv'
<1>1. CASE AnswerUnchanged(r)
  BY <1>1, AnswerUnchangedIInv
<1>2. CASE ~AnswerUnchanged(r)
  <2> DEFINE s == [pc |-> "counted", call |-> req[r].call, row |-> req[r].row,
                   order |-> req[r].order,
                   order_ready |-> AllOrderTasksDone(req[r].call.task)]
  <2>1. req[r].pc # "idle" /\ req[r].row.status = "in_progress" /\ req' = [req EXCEPT ![r] = s]
        /\ UNCHANGED <<task, order, creator, published>>
    BY <1>2 DEF CompleteTask, At, MayComplete, can_transition, ALLOWED_TRANSITIONS
  <2>2. AllOrderTasksDone(req[r].call.task) \in BOOLEAN
    BY DEF AllOrderTasksDone
  <2>3. s \in Session
    BY <2>1, <2>2, SessionShape DEF IInv, Session
  <2>4. TypeOK'
    BY <2>1, <2>3 DEF IInv, TypeOK
  <2>5. req'[r] = s /\ \A q \in Requests : q # r => req'[q] = req[q]
    BY <2>1 DEF IInv, TypeOK
  <2>6. LockExclusive' /\ SessionCurrent' /\ OrderSeenStands'
    BY <2>1, <2>5 DEF IInv, LockExclusive, SessionCurrent, OrderSeenStands, OrderIdOf
  <2>7. CountStands'
    BY <2>1, <2>5 DEF IInv, CountStands, AllOrderTasksDone, TasksOf
  <2>8. QED
    BY <2>1, <2>4, <2>6, <2>7 DEF IInv, CreatedTogether, LiveStatuses, UnqueuedTasksWait,
       QueuedWasPublished, ReadyMeansAllDone
<1>3. QED
  BY <1>1, <1>2

\* The commit of complete_task preserves the invariant: what it counted still
\* stands.
LEMMA CompleteCommitIInv ==
  ASSUME IInv, NEW r \in Requests, CompleteCommit(r) PROVE IInv'
<1> DEFINE t == req[r].call.task
<1>1. PICK row \in Row : Writes(r, {"in_progress"}, "done", row)
  BY CompleteCommitWrites
<1>2. \/ order' = order
      \/ /\ AllOrderTasksDone(t)
         /\ order' = [order EXCEPT ![OrderOf[t]] = "ready_for_pickup"]
  BY CompleteCommitWrites DEF OrderIdOf
<1>3. /\ order' \in [Orders -> OrderStatus \union {"absent"}]
      /\ \A o \in Orders :
           /\ order'[o] = "absent" <=> order[o] = "absent"
           /\ order[o] \in {"cooking", "ready_for_pickup"}
              => order'[o] \in {"cooking", "ready_for_pickup"}
  BY <1>1, <1>2, OrderOfType DEF IInv, TypeOK, OrderStatus, CreatedTogether, Writes
<1>4. ReadyMeansAllDone'
  <2> SUFFICES ASSUME NEW u \in Tasks, order'[OrderOf[u]] = "ready_for_pickup"
               PROVE  task'[u].status = "done"
    BY DEF ReadyMeansAllDone
  <2>1. CASE u = t
    BY <1>1, <2>1 DEF IInv, TypeOK, Writes
  <2>2. CASE u # t /\ order[OrderOf[u]] = "ready_for_pickup"
    BY <1>1, <2>2 DEF IInv, TypeOK, ReadyMeansAllDone, Writes
  <2>3. CASE u # t /\ order[OrderOf[u]] # "ready_for_pickup"
    <3>1. AllOrderTasksDone(t) /\ OrderOf[u] = OrderOf[t]
      BY <1>1, <1>2, <2>3, OrderOfType DEF IInv, TypeOK, Writes
    <3>2. task[u].status = "done"
      BY <2>3, <3>1 DEF AllOrderTasksDone, TasksOf
    <3>3. QED
      BY <1>1, <2>3, <3>2 DEF IInv, TypeOK, Writes
  <2>4. QED
    BY <2>1, <2>2, <2>3
<1>5. QED
  BY <1>1, <1>3, <1>4, WritesIInv

\* Every step of the service preserves the inductive invariant.
THEOREM NextIInv == IInv /\ [Next]_vars => IInv'
<1> SUFFICES ASSUME IInv, [Next]_vars PROVE IInv'
  OBVIOUS
<1>1. CASE Creation
  BY <1>1, CreateOrderIInv, MarkTasksQueuedIInv, PublishingIInv DEF Creation
<1>2. ASSUME NEW r \in Requests,
             \/ \E call \in Call : GetForUpdate(r, call)
             \/ Handler(r)
             \/ Rollback(r)
      PROVE  IInv'
  BY <1>2, GetForUpdateIInv, DispatchOutcomeIInv, StartTaskIInv, CompleteTaskIInv,
     CompleteCommitIInv, AnswerUnchangedIInv DEF Handler, Rollback
<1>3. CASE UNCHANGED vars
  BY <1>3 DEF vars, IInv, TypeOK, LockExclusive, SessionCurrent, CountStands, OrderSeenStands,
     CreatedTogether, LiveStatuses, UnqueuedTasksWait, QueuedWasPublished, ReadyMeansAllDone,
     AllOrderTasksDone, TasksOf, OrderIdOf
<1>4. QED
  BY <1>1, <1>2, <1>3 DEF Next

\* The inductive invariant holds in every reachable state.
THEOREM Invariance == Spec => []IInv
  BY InitIInv, NextIInv, PTL DEF Spec

\* Rows, sessions and order statuses keep their types under any interleaving.
THEOREM TypeCorrect == Spec => []TypeOK
  BY Invariance, PTL DEF IInv

\* An order that fulfillment-service shows as ready_for_pickup has every task
\* done, however its completions and starts interleave.
THEOREM ReadyIsSound == Spec => []ReadyMeansAllDone
  BY Invariance, PTL DEF IInv

\* mark_tasks_queued, which writes rows it has not read again, never meets a
\* task that has already moved.
THEOREM QueueingIsSafe == Spec => []UnqueuedTasksWait
  BY Invariance, PTL DEF IInv

\* No task leaves created without a message in a stream.
THEOREM QueuedHasMessage == Spec => []QueuedWasPublished
  BY Invariance, PTL DEF IInv

-----------------------------------------------------------------------------
(* Action property and refinement *)

\* Every step keeps the assignment of displayed, started and finished tasks.
LEMMA NextFrozen == IInv /\ [Next]_vars => [FrozenStep]_vars
<1> SUFFICES ASSUME IInv, Next PROVE FrozenStep
  OBVIOUS
<1>1. CASE UNCHANGED task
  BY <1>1 DEF FrozenStep
<1>2. ASSUME NEW o \in Orders, CreateOrder(o) PROVE FrozenStep
  BY <1>2 DEF IInv, CreatedTogether, CreateOrder, FrozenStep, TypeOK
<1>3. ASSUME NEW o \in Orders, MarkTasksQueued(o) PROVE FrozenStep
  BY <1>3, MarkTasksQueuedWrites DEF FrozenStep
<1>4. ASSUME NEW r \in Requests, Handler(r), task' # task PROVE FrozenStep
  <2>1. ~AnswerUnchanged(r) /\ ~CompleteTask(r)
    BY <1>4 DEF AnswerUnchanged, CompleteTask
  <2>2. CASE MarkDisplayed(r) \/ DispatchFailed(r)
    <3>1. PICK row \in Row, to \in {"displayed", "failed"} : Writes(r, {"queued"}, to, row)
      BY <2>1, <2>2, MarkDisplayedWrites, DispatchFailedWrites
    <3>2. QED
      BY <3>1 DEF Writes, FrozenStep, IInv, TypeOK
  <2>3. CASE StartTask(r)
    <3>1. PICK row \in Row :
            /\ Writes(r, {"displayed"}, "in_progress", row)
            /\ row.station_id = task[req[r].call.task].station_id
            /\ row.kds_task_id = task[req[r].call.task].kds_task_id
      BY <2>1, <2>3, StartTaskWrites
    <3>2. QED
      BY <3>1 DEF Writes, FrozenStep, IInv, TypeOK
  <2>4. CASE CompleteCommit(r)
    <3>1. PICK row \in Row :
            /\ Writes(r, {"in_progress"}, "done", row)
            /\ row.station_id = task[req[r].call.task].station_id
            /\ row.kds_task_id = task[req[r].call.task].kds_task_id
            /\ row.started_at = task[req[r].call.task].started_at
      BY <2>4, CompleteCommitWrites
    <3>2. QED
      BY <3>1 DEF Writes, FrozenStep, IInv, TypeOK
  <2>5. QED
    BY <1>4, <2>1, <2>2, <2>3, <2>4 DEF Handler
<1>5. QED
  BY <1>1, <1>2, <1>3, <1>4 DEF Next, Creation, PublishTask, AbandonCreation, GetForUpdate,
     Rollback, AnswerUnchanged

\* Station, KDS task and start time of a task never change once set, for any
\* number of concurrent, repeated or late calls.
THEOREM AssignmentIsFrozen == Spec => AssignmentFrozen
  BY Invariance, NextFrozen, PTL DEF Spec, AssignmentFrozen

\* The initial states map to initial states of the lifecycle.
LEMMA InitRefines == Init => Lifecycle!LifecycleInit
  BY DEF Init, Lifecycle!LifecycleInit, Absent

\* A write of one row is one step of the task's status function.
LEMMA StatusOfWrite ==
  ASSUME TypeOK, NEW r \in Requests, NEW row \in Row, NEW from, NEW to, Writes(r, from, to, row)
  PROVE  [t \in Tasks |-> task'[t].status] =
           [[t \in Tasks |-> task[t].status] EXCEPT ![req[r].call.task] = to]
  BY DEF TypeOK, Writes

\* Every step of the service is a step of the abstract state machine.
LEMMA NextRefines == IInv /\ [Next]_vars => [Lifecycle!LifecycleNext]_(Lifecycle!lifecycleVars)
<1> USE DEF Lifecycle!LifecycleNext, Lifecycle!lifecycleVars
<1> SUFFICES ASSUME IInv, [Next]_vars, ~UNCHANGED <<task, order>>
             PROVE  Lifecycle!LifecycleNext
  OBVIOUS
<1>1. ASSUME NEW o \in Orders, CreateOrder(o) PROVE Lifecycle!Create(o)
  BY <1>1 DEF CreateOrder, Lifecycle!Create, Absent
<1>2. ASSUME NEW o \in Orders, MarkTasksQueued(o) PROVE Lifecycle!Queue(o)
  <2>1. [t \in Tasks |-> task'[t].status] =
          [t \in Tasks |-> IF OrderOf[t] = o THEN "queued" ELSE task[t].status]
    BY <1>2, MarkTasksQueuedWrites
  <2>2. QED
    BY <1>2, <2>1, MarkTasksQueuedWrites DEF MarkTasksQueued, Lifecycle!Queue, Lifecycle!TasksOf
<1>3. ASSUME NEW r \in Requests, Handler(r)
      PROVE  \E t \in Tasks : \/ Lifecycle!Dispatch(t) \/ Lifecycle!GiveUp(t)
                              \/ Lifecycle!Start(t) \/ Lifecycle!Finish(t)
  <2>1. ~AnswerUnchanged(r) /\ ~CompleteTask(r)
    BY DEF AnswerUnchanged, CompleteTask
  <2>a. req[r].pc # "idle"
    BY <1>3 DEF Handler, MarkDisplayed, StartTask, CompleteTask, CompleteCommit, DispatchFailed, At
  <2>b. PICK t \in Tasks : t = req[r].call.task
    BY <2>a, SessionShape DEF IInv
  <2>2. CASE MarkDisplayed(r)
    <3>1. PICK row \in Row : Writes(r, {"queued"}, "displayed", row) /\ UNCHANGED order
      BY <2>1, <2>2, MarkDisplayedWrites
    <3>a. [u \in Tasks |-> task'[u].status] =
            [[u \in Tasks |-> task[u].status] EXCEPT ![t] = "displayed"]
      BY <2>b, <3>1, StatusOfWrite DEF IInv
    <3>b. task[t].status = "queued"
      BY <2>b, <3>1 DEF Writes
    <3>2. Lifecycle!Dispatch(t)
      BY <3>1, <3>a, <3>b DEF Lifecycle!Dispatch
    <3>3. QED
      BY <3>2
  <2>3. CASE DispatchFailed(r)
    <3>1. PICK row \in Row : Writes(r, {"queued"}, "failed", row) /\ UNCHANGED order
      BY <2>1, <2>3, DispatchFailedWrites
    <3>a. [u \in Tasks |-> task'[u].status] =
            [[u \in Tasks |-> task[u].status] EXCEPT ![t] = "failed"]
      BY <2>b, <3>1, StatusOfWrite DEF IInv
    <3>b. task[t].status = "queued"
      BY <2>b, <3>1 DEF Writes
    <3>2. Lifecycle!GiveUp(t)
      BY <3>1, <3>a, <3>b DEF Lifecycle!GiveUp
    <3>3. QED
      BY <3>2
  <2>4. CASE StartTask(r)
    <3>1. PICK row \in Row : Writes(r, {"displayed"}, "in_progress", row)
      BY <2>1, <2>4, StartTaskWrites
    <3>2. order' = [order EXCEPT ![OrderOf[t]] = "cooking"]
      BY <2>b, <2>1, <2>4, StartTaskWrites DEF OrderIdOf
    <3>a. [u \in Tasks |-> task'[u].status] =
            [[u \in Tasks |-> task[u].status] EXCEPT ![t] = "in_progress"]
      BY <2>b, <3>1, StatusOfWrite DEF IInv
    <3>b. task[t].status = "displayed"
      BY <2>b, <3>1 DEF Writes
    <3>3. Lifecycle!Start(t)
      BY <3>2, <3>a, <3>b DEF Lifecycle!Start
    <3>4. QED
      BY <3>3
  <2>5. CASE CompleteCommit(r)
    <3>1. PICK row \in Row : Writes(r, {"in_progress"}, "done", row)
      BY <2>5, CompleteCommitWrites
    <3>2. \/ UNCHANGED order
          \/ /\ \A u \in TasksOf(OrderOf[t]) : u # t => task[u].status = "done"
             /\ order' = [order EXCEPT ![OrderOf[t]] = "ready_for_pickup"]
      BY <2>b, <2>5, CompleteCommitWrites DEF OrderIdOf, AllOrderTasksDone
    <3>a. [u \in Tasks |-> task'[u].status] =
            [[u \in Tasks |-> task[u].status] EXCEPT ![t] = "done"]
      BY <2>b, <3>1, StatusOfWrite DEF IInv
    <3>b. task[t].status = "in_progress"
      BY <2>b, <3>1 DEF Writes
    <3>3. Lifecycle!Finish(t)
      BY <3>2, <3>a, <3>b DEF Lifecycle!Finish, TasksOf, Lifecycle!TasksOf
    <3>4. QED
      BY <3>3
  <2>6. QED
    BY <1>3, <2>1, <2>2, <2>3, <2>4, <2>5 DEF Handler
<1>4. QED
  BY <1>1, <1>2, <1>3 DEF Next, Creation, vars, PublishTask, AbandonCreation, GetForUpdate,
     Rollback, AnswerUnchanged

\* The service with its transactions, sessions and crashes implements the
\* atomic task state machine.
THEOREM Refinement == Spec => RefinesLifecycle
  BY Invariance, InitRefines, NextRefines, PTL DEF Spec, RefinesLifecycle, Lifecycle!LifecycleSpec

-----------------------------------------------------------------------------
(* Orders whose requests come one at a time *)

\* An order that is not ready yet has a task to wait for.
OpenOrders ==
  \A o \in Orders : order[o] \notin {"absent", "ready_for_pickup"} =>
    \E t \in TasksOf(o) : task[t].status # "done"

\* A completion that did not find its siblings done was right until it commits.
CountExact ==
  \A r \in Requests : req[r].pc = "counted" =>
    (AllOrderTasksDone(req[r].call.task) => req[r].order_ready)

SerialInv == OpenOrders /\ CountExact

\* A request that moves its own task to anything but done keeps the order open.
LEMMA WritesSerial ==
  ASSUME IInv, SerialInv, \A r, q \in Requests : r = q,
         NEW r \in Requests, NEW row \in Row, NEW from, NEW to, Writes(r, from, to, row),
         to # "done",
         \A o \in Orders : o # OrderOf[req[r].call.task] => order'[o] = order[o]
  PROVE  SerialInv'
<1> DEFINE t == req[r].call.task
<1>1. task'[t].status # "done" /\ \A u \in Tasks : u # t => task'[u] = task[u]
  BY DEF IInv, TypeOK, Writes
<1>2. OpenOrders'
  <2> SUFFICES ASSUME NEW o \in Orders, order'[o] \notin {"absent", "ready_for_pickup"}
               PROVE  \E u \in TasksOf(o) : task'[u].status # "done"
    BY DEF OpenOrders, TasksOf
  <2>1. CASE o = OrderOf[t]
    BY <1>1, <2>1 DEF TasksOf, Writes
  <2>2. CASE o # OrderOf[t]
    <3>1. PICK u \in TasksOf(o) : task[u].status # "done"
      BY <2>2 DEF SerialInv, OpenOrders
    <3>2. QED
      BY <1>1, <3>1 DEF TasksOf
  <2>3. QED
    BY <2>1, <2>2
<1>3. CountExact'
  BY IdleInSession DEF IInv, TypeOK, CountExact, Writes, Release
<1>4. QED
  BY <1>2, <1>3 DEF SerialInv

\* Every step keeps an unfinished order open while one request runs at a time
\* and every order has a task.
LEMMA NextSerial ==
  ASSUME \A r, q \in Requests : r = q, \A o \in Orders : TasksOf(o) # {},
         IInv, SerialInv, [Next]_vars
  PROVE  SerialInv'
<1>1. CASE UNCHANGED <<task, order, req>>
  BY <1>1 DEF SerialInv, OpenOrders, CountExact, TasksOf, AllOrderTasksDone
<1>2. ASSUME NEW o \in Orders, CreateOrder(o) \/ MarkTasksQueued(o) PROVE SerialInv'
  <2>1. /\ UNCHANGED req
        /\ \A t \in Tasks : OrderOf[t] = o => task'[t].status \in {"created", "queued"}
        /\ \A t \in Tasks : OrderOf[t] # o => task'[t] = task[t]
        /\ \A p \in Orders : p # o => order'[p] = order[p]
    BY <1>2, MarkTasksQueuedWrites DEF IInv, TypeOK, CreateOrder, MarkTasksQueued, Absent
  <2>2. OpenOrders'
    <3> SUFFICES ASSUME NEW p \in Orders, order'[p] \notin {"absent", "ready_for_pickup"}
                 PROVE  \E u \in TasksOf(p) : task'[u].status # "done"
      BY DEF OpenOrders, TasksOf
    <3>1. CASE p = o
      BY <2>1, <3>1 DEF TasksOf
    <3>2. CASE p # o
      <4>1. PICK u \in TasksOf(p) : task[u].status # "done"
        BY <2>1, <3>2 DEF SerialInv, OpenOrders
      <4>2. QED
        BY <2>1, <3>2, <4>1 DEF TasksOf
    <3>3. QED
      BY <3>1, <3>2
  <2>3. \A r \in Requests : req[r].pc # "idle" => OrderOf[req[r].call.task] # o
    BY <1>2, SessionShape DEF IInv, SessionCurrent, CreatedTogether, CreateOrder,
       MarkTasksQueued, RowLocked, TasksOf
  <2>4. CountExact'
    BY <2>1, <2>3 DEF SerialInv, CountExact, AllOrderTasksDone, TasksOf
  <2>5. QED
    BY <2>2, <2>4 DEF SerialInv
<1>3. ASSUME NEW r \in Requests, NEW call \in Call, GetForUpdate(r, call) PROVE SerialInv'
  BY <1>3 DEF GetForUpdate, IInv, TypeOK, SerialInv, OpenOrders, CountExact, TasksOf,
     AllOrderTasksDone
<1>4. ASSUME NEW r \in Requests, AnswerUnchanged(r) PROVE SerialInv'
  BY <1>4, IdleInSession DEF AnswerUnchanged, Release, IInv, TypeOK, SerialInv, OpenOrders,
     CountExact, TasksOf, AllOrderTasksDone
<1>5. ASSUME NEW r \in Requests, ~AnswerUnchanged(r),
             MarkDisplayed(r) \/ StartTask(r) \/ DispatchFailed(r)
      PROVE  SerialInv'
  <2>1. PICK row \in Row, from \in {{"queued"}, {"displayed"}},
             to \in {"displayed", "in_progress", "failed"} : Writes(r, from, to, row)
    BY <1>5, MarkDisplayedWrites, StartTaskWrites, DispatchFailedWrites
  <2>2. \A o \in Orders : o # OrderOf[req[r].call.task] => order'[o] = order[o]
    BY <1>5, MarkDisplayedWrites, StartTaskWrites, DispatchFailedWrites DEF IInv, TypeOK, OrderIdOf
  <2>3. QED
    BY <2>1, <2>2, WritesSerial
<1>6. ASSUME NEW r \in Requests, ~AnswerUnchanged(r), CompleteTask(r) PROVE SerialInv'
  BY <1>6 DEF CompleteTask, IInv, TypeOK, SerialInv, OpenOrders, CountExact, TasksOf,
     AllOrderTasksDone
<1>7. ASSUME NEW r \in Requests, CompleteCommit(r) PROVE SerialInv'
  <2> DEFINE t == req[r].call.task
  <2>1. /\ t \in Tasks /\ req[r].pc = "counted" /\ req[r].order_ready \in BOOLEAN
        /\ \A u \in Tasks : u # t => task'[u] = task[u]
        /\ \A o \in Orders : o # OrderOf[t] => order'[o] = order[o]
    BY <1>7, SessionShape DEF CompleteCommit, IInv, TypeOK, OrderIdOf
  <2>2. OpenOrders'
    <3> SUFFICES ASSUME NEW o \in Orders, order'[o] \notin {"absent", "ready_for_pickup"}
                 PROVE  \E u \in TasksOf(o) : task'[u].status # "done"
      BY DEF OpenOrders, TasksOf
    <3>1. CASE o = OrderOf[t]
      <4>1. ~req[r].order_ready
        BY <1>7, <2>1, <3>1 DEF CompleteCommit, IInv, TypeOK, OrderIdOf
      <4>2. PICK u \in TasksOf(o) : u # t /\ task[u].status # "done"
        BY <2>1, <3>1, <4>1 DEF SerialInv, CountExact, AllOrderTasksDone
      <4>3. QED
        BY <2>1, <4>2 DEF TasksOf
    <3>2. CASE o # OrderOf[t]
      <4>1. PICK u \in TasksOf(o) : task[u].status # "done"
        BY <2>1, <3>2 DEF SerialInv, OpenOrders
      <4>2. QED
        BY <2>1, <3>2, <4>1 DEF TasksOf
    <3>3. QED
      BY <3>1, <3>2
  <2>3. CountExact'
    BY <1>7, IdleInSession DEF CompleteCommit, Release, IInv, TypeOK, CountExact
  <2>4. QED
    BY <2>2, <2>3 DEF SerialInv
<1>8. QED
  BY <1>1, <1>2, <1>3, <1>4, <1>5, <1>6, <1>7 DEF Next, Creation, Handler, Rollback, vars,
     PublishTask, AbandonCreation

\* Without concurrent requests no order is left behind: when the last task of
\* an order is done and no request on it is in progress, it is ready_for_pickup.
\* (With two completions at once it may not be; see OrderClosed.)  Every order
\* has a task because an order line without recipe steps is refused.
THEOREM SerialOrdersClose ==
  ASSUME \A r, q \in Requests : r = q, \A o \in Orders : TasksOf(o) # {}
  PROVE  Spec => []OrderClosed
<1>1. Init => SerialInv
  BY IdleInSession DEF Init, SerialInv, OpenOrders, CountExact
<1>2. IInv /\ SerialInv /\ [Next]_vars => SerialInv'
  BY NextSerial
<1>3. TypeOK /\ SerialInv => OrderClosed
  BY DEF TypeOK, SerialInv, OpenOrders, OrderClosed
<1>4. QED
  BY Invariance, <1>1, <1>2, <1>3, PTL DEF Spec, IInv
=============================================================================
