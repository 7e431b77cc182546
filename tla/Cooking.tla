------------------------------- MODULE Cooking -------------------------------
(***************************************************************************)
(* The floor and fulfillment-service together: the start and complete      *)
(* calls kitchen-service makes while it claims and completes, and the      *)
(* calls of the scheduler, meet the tasks of Fulfillment.                  *)
(*                                                                         *)
(* kitchen-service's HTTP client gives up after a timeout; the call it     *)
(* gave up on goes on in fulfillment-service, or arrives there later.      *)
(* Orders begin with their tasks queued; stations are not patched.         *)
(***************************************************************************)
EXTENDS KitchenFloor

CONSTANTS
  Orders,
  OrderOf,   \* [Tasks -> Orders]
  Sessions   \* slots for requests in progress in fulfillment-service

ASSUME CookingOrders == OrderOf \in [Tasks -> Orders]
ASSUME NullIsNoSession == NULL \notin Sessions

VARIABLES
  ftask,     \* rows of kitchen_tasks
  forder,    \* orders.status
  session,   \* fulfillment-service's requests in progress
  wire,      \* calls on their way to it, by the slot they will take
  on         \* the slot of the call each kitchen-service request waits for

fulfillmentVars == <<ftask, forder, session>>
cookingVars == <<floorVars, fulfillmentVars, wire, on>>

\* The row of a task on the display stands for its kds_task_id; all times are
\* taken in the order of the calls, so that none is refused for its time.
F == INSTANCE Fulfillment WITH
       task <- ftask, order <- forder, req <- session, Requests <- Sessions,
       creator <- [o \in Orders |-> "finished"], published <- {t \in Tasks : ftask[t].status # "created"},
       KdsTasks <- Tasks, Times <- {0}, MaxAttempts <- 1, BuildIndex <- [t \in Tasks |-> 0]

-----------------------------------------------------------------------------
(* FulfillmentClient of kitchen-service *)

Calling == {"start_call", "complete_call"}

FreeSlot(f) == session[f] = F!Idle /\ wire[f] = NoCall

StartTask(r, f) ==
  /\ req[r].pc = "start_call" /\ on[r] = NULL /\ FreeSlot(f)
  /\ wire' = [wire EXCEPT ![f] = [op |-> "start", task |-> req[r].task, at |-> 0,
                                  station_id |-> req[r].station, kds_task_id |-> req[r].task]]
  /\ on' = [on EXCEPT ![r] = f]
  /\ UNCHANGED <<floorVars, fulfillmentVars>>

CompleteTask(r, f) ==
  /\ req[r].pc = "complete_call" /\ on[r] = NULL /\ FreeSlot(f)
  /\ wire' = [wire EXCEPT ![f] = [op |-> "complete", task |-> req[r].task, at |-> 0,
                                  station_id |-> req[r].station, kds_task_id |-> req[r].task]]
  /\ on' = [on EXCEPT ![r] = f]
  /\ UNCHANGED <<floorVars, fulfillmentVars>>

\* kitchen-service goes on with the answer of its call.
Answered(r, ok) ==
  /\ \/ req[r].pc = "start_call" /\ IF ok THEN EndsWell(r) ELSE GoesOn(r)
     \/ req[r].pc = "complete_call" /\ IF ok THEN GoesOn(r) ELSE EndsBadly(r)
  /\ on' = [on EXCEPT ![r] = NULL]

\* The service is not reached or the client times out: the call is lost, still
\* on its way or being served.
CallTimesOut(r) ==
  /\ req[r].pc \in Calling
  /\ Answered(r, FALSE)
  /\ \/ UNCHANGED wire
     \/ on[r] # NULL /\ wire' = [wire EXCEPT ![on[r]] = NoCall]
  /\ UNCHANGED fulfillmentVars

-----------------------------------------------------------------------------
(* The scheduler's calls *)

\* The station sent is the one selected for this attempt.  After a delivery whose
\* answer was lost it may be another than the one the task is shown at.
MarkDisplayed(t, s, f) ==
  /\ ftask[t].status = "queued" /\ kds[t].status # "absent" /\ FreeSlot(f)
  /\ s \in Suitable[t]
  /\ wire' = [wire EXCEPT ![f] = [op |-> "mark_displayed", task |-> t,
                                  station_id |-> s, kds_task_id |-> t]]
  /\ UNCHANGED <<floorVars, fulfillmentVars, on>>

\* The attempts are used up, whatever became of the deliveries.
DispatchFailed(t, f) ==
  /\ ftask[t].status = "queued" /\ FreeSlot(f)
  /\ wire' = [wire EXCEPT ![f] = [op |-> "dispatch_failed", task |-> t, attempts |-> 1]]
  /\ UNCHANGED <<floorVars, fulfillmentVars, on>>

-----------------------------------------------------------------------------
(* fulfillment-service serves what arrives *)

Reach(f) ==
  /\ wire[f] # NoCall
  /\ F!GetForUpdate(f, wire[f])
  /\ wire' = [wire EXCEPT ![f] = NoCall]
  /\ UNCHANGED <<floorVars, on>>

\* Faulty: a refusal (409) is not raised.
AcceptedAlways(f) == TRUE


\* _post_transition raises on a 409.  A replay that names the same station and
\* KDS task is answered like the transition itself.
Accepted(f) ==
  LET row  == session[f].row
      call == session[f].call
      Replay(target) == row.status = target /\ F!SameStationAndKds(row, call)
  IN CASE call.op = "start"    -> Replay("in_progress") \/ F!MayStart(f)
       [] call.op = "complete" -> Replay("done") \/ session[f].pc = "counted"

\* The answer of slot f to the request that still waits for it, if any.
Reply(f, ok) ==
  \/ \E r \in Requests : on[r] = f /\ Answered(r, ok)
  \/ (\A r \in Requests : on[r] # f) /\ UNCHANGED <<floorVars, on>>

Serve(f) ==
  /\ F!Handler(f)
  /\ IF session'[f] # F!Idle THEN UNCHANGED <<floorVars, on>>
     ELSE IF session[f].call.op \in {"start", "complete"} THEN Reply(f, Accepted(f))
     ELSE UNCHANGED <<floorVars, on>>
  /\ UNCHANGED wire

\* The process or its connection dies: a 5xx, or no answer.
Die(f) ==
  /\ F!Rollback(f)
  /\ Reply(f, FALSE)
  /\ UNCHANGED wire

-----------------------------------------------------------------------------
(* The floor *)

Elsewhere == UNCHANGED <<fulfillmentVars, wire, on>>

\* A step of a kitchen-service request outside its calls.
KitchenStep(r) ==
  /\ req[r].pc \notin Calling
  /\ GoesOn(r) \/ EndsWell(r) \/ EndsBadly(r)
  /\ Elsewhere

\* kitchen-service dies waiting for the answer of a start.
DiesCalling(r) ==
  /\ req[r].pc = "start_call"
  /\ EndsBadly(r)
  /\ on' = [on EXCEPT ![r] = NULL]
  /\ UNCHANGED <<fulfillmentVars, wire>>

\* The scheduler delivers what it read as queued, to a station of its type.
Delivers(r) ==
  /\ Deliver(r)
  /\ \A t \in Tasks : req'[r].task = t => ftask[t].status = "queued"
                                        /\ req'[r].station \in Suitable[t]
  /\ Elsewhere

CookStep(w) == (Poll(w) \/ SendComplete(w) \/ TimesOut(w)) /\ Elsewhere

-----------------------------------------------------------------------------
CookingInit ==
  /\ FloorInit
  /\ ftask = [t \in Tasks |-> F!QueuedRow(F!Absent)]
  /\ forder = [o \in Orders |-> "created"]
  /\ session = [f \in Sessions |-> F!Idle]
  /\ wire = [f \in Sessions |-> NoCall]
  /\ on = [r \in Requests |-> NULL]

CookingNext ==
  \/ \E w \in Workers : CookStep(w)
  \/ Restart /\ Elsewhere
  \/ \E r \in Requests :
       \/ (Arrives(r) \/ Lost(r)) /\ Elsewhere
       \/ Delivers(r) \/ KitchenStep(r) \/ DiesCalling(r) \/ CallTimesOut(r)
       \/ \E f \in Sessions : StartTask(r, f) \/ CompleteTask(r, f)
  \/ \E f \in Sessions :
       \/ Reach(f) \/ Serve(f) \/ Die(f)
       \/ \E t \in Tasks : DispatchFailed(t, f) \/ \E s \in Stations : MarkDisplayed(t, s, f)

CookingSpec == CookingInit /\ [][CookingNext]_cookingVars

\* What the processes do when nothing is lost, times out or dies.
Works(w) == (Poll(w) \/ SendComplete(w)) /\ Elsewhere
Serves(r) ==
  \/ Arrives(r) /\ Elsewhere
  \/ KitchenStep(r) /\ (Proceed(r) \/ DeadlockAbort(r))
  \/ \E f \in Sessions : StartTask(r, f) \/ CompleteTask(r, f)
Slot(f) == Reach(f) \/ Serve(f)
Marks == \E t \in Tasks, s \in Stations, f \in Sessions : MarkDisplayed(t, s, f)

CalmStep ==
  \/ \E w \in Workers : Works(w)
  \/ \E r \in Requests : Serves(r) \/ Delivers(r)
  \/ \E f \in Sessions : Slot(f) \/ \E t \in Tasks : DispatchFailed(t, f)
  \/ Marks

\* Under fairness, when the faults have stopped: workers go on polling and
\* completing, requests and calls are served, and the scheduler marks what it
\* delivered.
CookingFairness ==
  /\ <>[][CalmStep]_cookingVars
  /\ \A w \in Workers : SF_cookingVars(Works(w))
  /\ \A r \in Requests : SF_cookingVars(Serves(r))
  /\ \A f \in Sessions : SF_cookingVars(Slot(f))
  /\ SF_cookingVars(Marks)

FairCookingSpec == CookingSpec /\ CookingFairness

-----------------------------------------------------------------------------
(* Properties *)

\* The display and the order agree on what is finished: a task the display shows
\* as completed is done, and one that is done is never offered to a worker
\* again, although a start or complete the kitchen gave up on may still succeed.
DisplayAgrees ==
  \A t \in Tasks :
    /\ kds[t].status = "completed" => ftask[t].status = "done"
    /\ ftask[t].status = "done" => kds[t].status \in {"claimed", "completed"}

\* No worker cooks what fulfillment-service has not started or has given up: a
\* task whose delivery succeeded after dispatch-failed stays on the display, but
\* nobody's claim of it succeeds.
CookedIsStarted ==
  \A w \in Workers : cook[w].pc \in {"cooking", "completing"} =>
    ftask[cook[w].task].status \in {"in_progress", "done"}

\* A claim nobody stands for any more: the worker gave up completing, took its
\* claim for lost, was restarted, or the claim's compensation died.
Abandoned(t) ==
  /\ kds[t].status = "claimed"
  /\ \A w \in Workers : cook[w].task # t
  /\ \A r \in Requests : (req[r] # Idle => req[r].task # t) /\ (sent[r] # NoCall => sent[r].task # t)

\* A task on the display that fulfillment-service has given up.
Ghost(t) == kds[t].status = "displayed" /\ ftask[t].status = "failed"

\* A task shown at one station and marked at another: every start is refused.
Misplaced(t) == kds[t].status = "displayed" /\ ftask[t].status = "displayed"
                /\ kds[t].station_id # ftask[t].station_id

\* A task that is displayed where somebody works and is not cooked yet.
Uncooked(t) ==
  /\ ftask[t].status \in {"displayed", "in_progress"}
  /\ \E w \in Workers : Home[w] = kds[t].station_id

=============================================================================
