-------------------------------- MODULE Kds --------------------------------
(***************************************************************************)
(* The kitchen display of kitchen-service: stations, the tasks shown on    *)
(* them, and the deliver, claim and complete requests that move the tasks, *)
(* at the grain of row locks, commits and calls to fulfillment-service.    *)
(*                                                                         *)
(* A request keeps one database session for its whole life.  Sessions do   *)
(* not expire objects on commit (db.py), and a SELECT ... FOR UPDATE of a  *)
(* row the session already holds as an object locks the row but returns    *)
(* the object as it is.  So after its call to fulfillment-service a        *)
(* request locks the rows again and decides on what it saw before the      *)
(* call; the fields seen_* of a session are that memory.                   *)
(***************************************************************************)
EXTENDS Integers, FiniteSets

CONSTANTS
  Stations,
  Tasks,
  Workers,        \* station_worker_id values
  Requests,       \* slots for requests in progress
  Suitable,       \* [Tasks -> SUBSET Stations]: stations of the task's kitchen and type
  BacklogLimit,   \* [Stations -> Nat]: stations.visible_backlog_limit
  Capacities,     \* capacities a station may be created with or patched to
  MaxCapacity,    \* the largest of them
  NULL

ASSUME SuitableType == Suitable \in [Tasks -> SUBSET Stations]
ASSUME BacklogLimitType == BacklogLimit \in [Stations -> Nat]
ASSUME CapacitiesType == MaxCapacity \in Nat /\ Capacities \subseteq 1..MaxCapacity
ASSUME NullIsNoWorker == NULL \notin Workers

VARIABLES
  status,      \* stations.status
  capacity,    \* stations.capacity
  busy_slots,  \* stations.busy_slots
  kds,         \* rows of kds_station_tasks, one per task_id
  req          \* sessions of the requests in progress

stationVars == <<status, capacity, busy_slots>>
vars == <<status, capacity, busy_slots, kds, req>>

-----------------------------------------------------------------------------
(* Rows and sessions *)

StationStatus == {"available", "unavailable", "maintenance"}

Row == [status     : {"absent", "displayed", "claimed", "completed"},
        station_id : Stations \union {NULL},
        claimed_by : Workers \union {NULL}]
Absent == [status |-> "absent", station_id |-> NULL, claimed_by |-> NULL]

\* Where a request in progress stands: what it holds and waits for.
WaitsForTask == {"claim_task", "complete_task", "final_task"}  \* and holds the station
HoldsStation == {"claim_task", "complete_task", "final_task", "deliver_insert"}
HoldsTask == {"comp_station"}                                  \* and waits for the station
HoldsNothing == {"refresh_task", "refresh_station", "start_call", "comp_task",
                 "complete_call", "final_station"}

Idle == [pc |-> "idle"]
Delivery == [pc : {"deliver_station", "deliver_insert"}, station : Stations, task : Tasks]
Work == [pc : WaitsForTask \union HoldsTask \union HoldsNothing,
         station : Stations, task : Tasks, worker : Workers,
         seen_status : StationStatus, seen_capacity : 1..MaxCapacity,
         seen_busy : 0..MaxCapacity, seen_row : Row]
Session == {Idle} \union Delivery \union Work

StationLocked(s) == \E r \in Requests : req[r].pc \in HoldsStation /\ req[r].station = s
TaskLocked(t) == \E r \in Requests : req[r].pc \in HoldsTask /\ req[r].task = t

\* visible_backlog_size
Displayed(s) == {t \in Tasks : kds[t].status = "displayed" /\ kds[t].station_id = s}
Claimed(s) == {t \in Tasks : kds[t].status = "claimed" /\ kds[t].station_id = s}

\* A new session that has read station s.
Open(pc, s, t, w) ==
  [pc |-> pc, station |-> s, task |-> t, worker |-> w,
   seen_status |-> status[s], seen_capacity |-> capacity[s], seen_busy |-> busy_slots[s],
   seen_row |-> Absent]

GoTo(r, pc) == req' = [req EXCEPT ![r] = [@ EXCEPT !.pc = pc]]

\* The request is over: answered, refused or failed.
End(r) == req' = [req EXCEPT ![r] = Idle]

\* Faulty: no lower bound.
ReleaseSlotUnbounded(r) ==
  busy_slots' = [busy_slots EXCEPT ![req[r].station] = req[r].seen_busy - 1]

\* Faulty: the slot is not given back.
KeepSlot(r) == busy_slots' = busy_slots

\* station.busy_slots = max(0, station.busy_slots - 1) on the session's object;
\* the ORM writes the column only if the object's value changed.
ReleaseSlot(r) ==
  LET s == req[r].station IN
  busy_slots' = IF req[r].seen_busy = 0 THEN busy_slots
                ELSE [busy_slots EXCEPT ![s] = req[r].seen_busy - 1]

-----------------------------------------------------------------------------
(* KitchenService: PATCH of a station waits for its row and writes one column *)

UpdateStationCapacity(s, c) ==
  /\ ~StationLocked(s)
  /\ capacity' = [capacity EXCEPT ![s] = c]
  /\ UNCHANGED <<status, busy_slots, kds, req>>

UpdateStationStatus(s, st) ==
  /\ ~StationLocked(s)
  /\ status' = [status EXCEPT ![s] = st]
  /\ UNCHANGED <<capacity, busy_slots, kds, req>>

-----------------------------------------------------------------------------
(* deliver_task *)

\* The idempotency key, which is the task's, is looked up before any lock; a
\* known key is answered at once with the existing row.
DeliverCheck(r, s, t) ==
  /\ req[r] = Idle
  /\ kds[t].status = "absent"
  /\ req' = [req EXCEPT ![r] = [pc |-> "deliver_station", station |-> s, task |-> t]]
  /\ UNCHANGED <<stationVars, kds>>

\* Faulty: off by one.
MayDeliverAtLimit(s, t) ==
  /\ status[s] = "available"
  /\ s \in Suitable[t]
  /\ Cardinality(Displayed(s)) <= BacklogLimit[s]

MayDeliver(s, t) ==
  /\ status[s] = "available"
  /\ s \in Suitable[t]
  /\ Cardinality(Displayed(s)) < BacklogLimit[s]

\* Faulty: the station is read without FOR UPDATE.
DeliverCountUnlocked(r) ==
  /\ req[r].pc = "deliver_station"
  /\ IF MayDeliver(req[r].station, req[r].task) THEN GoTo(r, "deliver_insert") ELSE End(r)
  /\ UNCHANGED <<stationVars, kds>>

\* The station is locked and validated and its backlog counted.
DeliverCount(r) ==
  /\ req[r].pc = "deliver_station"
  /\ ~StationLocked(req[r].station)
  /\ IF MayDeliver(req[r].station, req[r].task) THEN GoTo(r, "deliver_insert") ELSE End(r)
  /\ UNCHANGED <<stationVars, kds>>

\* The row is inserted and committed.  A row that appeared since the check makes
\* the insert fail on its unique key, and the request answers with that row.
DeliverInsert(r) ==
  /\ req[r].pc = "deliver_insert"
  /\ kds' = IF kds[req[r].task].status = "absent"
            THEN [kds EXCEPT ![req[r].task] = [status |-> "displayed", claimed_by |-> NULL,
                                               station_id |-> req[r].station]]
            ELSE kds
  /\ End(r)
  /\ UNCHANGED stationVars

-----------------------------------------------------------------------------
(* claim_task *)

ClaimLockStation(r, s, t, w) ==
  /\ req[r] = Idle
  /\ ~StationLocked(s)
  /\ req' = [req EXCEPT ![r] = Open("claim_task", s, t, w)]
  /\ UNCHANGED <<stationVars, kds>>

\* Faulty: off by one.
MayClaimAtCapacity(r) ==
  LET row == kds[req[r].task] IN
  /\ row.station_id = req[r].station
  /\ req[r].seen_status = "available"
  /\ row.status = "displayed"
  /\ req[r].seen_busy <= req[r].seen_capacity

\* Faulty: a task another worker has claimed may be claimed.
MayClaimClaimed(r) ==
  LET row == kds[req[r].task] IN
  /\ row.station_id = req[r].station
  /\ req[r].seen_status = "available"
  /\ row.status \in {"displayed", "claimed"}
  /\ req[r].seen_busy < req[r].seen_capacity

\* _validate_claim
MayClaim(r) ==
  LET row == kds[req[r].task] IN
  /\ row.station_id = req[r].station
  /\ req[r].seen_status = "available"
  /\ row.status = "displayed"
  /\ req[r].seen_busy < req[r].seen_capacity

\* The task's row is locked and read; the claim commits or is refused (404, 409).
ClaimCommit(r) ==
  /\ req[r].pc = "claim_task"
  /\ ~TaskLocked(req[r].task)
  /\ \/ /\ MayClaim(r)
        /\ kds' = [kds EXCEPT ![req[r].task] =
                     [@ EXCEPT !.status = "claimed", !.claimed_by = req[r].worker]]
        /\ busy_slots' = [busy_slots EXCEPT ![req[r].station] = req[r].seen_busy + 1]
        /\ GoTo(r, "refresh_task")
        /\ UNCHANGED <<status, capacity>>
     \/ /\ ~MayClaim(r)
        /\ End(r)
        /\ UNCHANGED <<stationVars, kds>>

\* session.refresh of the two objects, one after the other and without locks.
ClaimRefreshTask(r) ==
  /\ req[r].pc = "refresh_task"
  /\ req' = [req EXCEPT ![r] = [@ EXCEPT !.pc = "refresh_station",
                                         !.seen_row = kds[req[r].task]]]
  /\ UNCHANGED <<stationVars, kds>>

ClaimRefreshStation(r) ==
  /\ req[r].pc = "refresh_station"
  /\ LET s == req[r].station IN
     req' = [req EXCEPT ![r] = [@ EXCEPT !.pc = "start_call",
                                         !.seen_status = status[s],
                                         !.seen_capacity = capacity[s],
                                         !.seen_busy = busy_slots[s]]]
  /\ UNCHANGED <<stationVars, kds>>

\* The answer of POST /internal/tasks/{task_id}/start: any failure, a refusal
\* as well as a timeout, leads to _compensate_claim.
StartAnswer(r, ok) ==
  /\ req[r].pc = "start_call"
  /\ IF ok THEN End(r) ELSE GoTo(r, "comp_task")
  /\ UNCHANGED <<stationVars, kds>>

\* _compensate_claim locks the task first and the station second.
CompensateLockTask(r) ==
  /\ req[r].pc = "comp_task"
  /\ ~TaskLocked(req[r].task)
  /\ GoTo(r, "comp_station")
  /\ UNCHANGED <<stationVars, kds>>

CompensateCommit(r) ==
  /\ req[r].pc = "comp_station"
  /\ ~StationLocked(req[r].station)
  /\ \/ /\ req[r].seen_row.status = "claimed" /\ req[r].seen_row.claimed_by = req[r].worker
        /\ kds' = [kds EXCEPT ![req[r].task] =
                     [@ EXCEPT !.status = "displayed", !.claimed_by = NULL]]
        /\ ReleaseSlot(r)
     \/ /\ ~(req[r].seen_row.status = "claimed" /\ req[r].seen_row.claimed_by = req[r].worker)
        /\ UNCHANGED <<kds, busy_slots>>
  /\ End(r)
  /\ UNCHANGED <<status, capacity>>

-----------------------------------------------------------------------------
(* complete_task *)

CompleteLockStation(r, s, t, w) ==
  /\ req[r] = Idle
  /\ ~StationLocked(s)
  /\ req' = [req EXCEPT ![r] = Open("complete_task", s, t, w)]
  /\ UNCHANGED <<stationVars, kds>>

\* _validate_complete
MayComplete(row, s, w) ==
  /\ row.station_id = s
  /\ row.status = "claimed"
  /\ row.claimed_by = w

\* The task's row is locked and read; a valid request commits, releasing both
\* locks, and calls fulfillment-service.
CompleteValidate(r) ==
  /\ req[r].pc = "complete_task"
  /\ ~TaskLocked(req[r].task)
  /\ LET row == kds[req[r].task] IN
     IF MayComplete(row, req[r].station, req[r].worker)
     THEN req' = [req EXCEPT ![r] = [@ EXCEPT !.pc = "complete_call", !.seen_row = row]]
     ELSE End(r)
  /\ UNCHANGED <<stationVars, kds>>

\* Faulty: a failed call is repeated from the start, without end.
CompleteAgain(r, ok) ==
  /\ req[r].pc = "complete_call"
  /\ IF ok THEN GoTo(r, "final_station")
     ELSE ~StationLocked(req[r].station) /\ GoTo(r, "complete_task")
  /\ UNCHANGED <<stationVars, kds>>

\* The answer of POST /internal/tasks/{task_id}/complete; after a failure the
\* task stays claimed and its slot occupied.
CompleteAnswer(r, ok) ==
  /\ req[r].pc = "complete_call"
  /\ IF ok THEN GoTo(r, "final_station") ELSE End(r)
  /\ UNCHANGED <<stationVars, kds>>

FinalLockStation(r) ==
  /\ req[r].pc = "final_station"
  /\ ~StationLocked(req[r].station)
  /\ GoTo(r, "final_task")
  /\ UNCHANGED <<stationVars, kds>>

\* The second validation reads the session's objects, not the rows.
CompleteCommit(r) ==
  /\ req[r].pc = "final_task"
  /\ ~TaskLocked(req[r].task)
  /\ \/ /\ MayComplete(req[r].seen_row, req[r].station, req[r].worker)
        /\ kds' = [kds EXCEPT ![req[r].task] = [@ EXCEPT !.status = "completed"]]
        /\ ReleaseSlot(r)
     \/ /\ ~MayComplete(req[r].seen_row, req[r].station, req[r].worker)
        /\ UNCHANGED <<kds, busy_slots>>
  /\ End(r)
  /\ UNCHANGED <<status, capacity>>

-----------------------------------------------------------------------------
(* Failures *)

\* r waits for a row that q has locked.
WaitsFor(r, q) ==
  \/ req[r].pc \in WaitsForTask /\ req[q].pc \in HoldsTask /\ req[r].task = req[q].task
  \/ req[r].pc \in HoldsTask /\ req[q].pc \in HoldsStation /\ req[r].station = req[q].station

\* A request waits for one row, so such a set is made of cycles.
WaitCycle(S) ==
  \A r \in S : (\E q \in S : WaitsFor(r, q)) /\ (\E q \in S : WaitsFor(q, r))

\* PostgreSQL breaks a cycle of lock waits by aborting one of the transactions;
\* nothing catches the error, so the request ends there.
DeadlockAbort(r) ==
  /\ \E S \in SUBSET Requests : r \in S /\ WaitCycle(S)
  /\ End(r)
  /\ UNCHANGED <<stationVars, kds>>

\* The process or its connection dies between two commits of the request.
Crash(r) ==
  /\ req[r] # Idle
  /\ End(r)
  /\ UNCHANGED <<stationVars, kds>>

-----------------------------------------------------------------------------
Init ==
  /\ status = [s \in Stations |-> "available"]
  /\ capacity \in [Stations -> Capacities]
  /\ busy_slots = [s \in Stations |-> 0]
  /\ kds = [t \in Tasks |-> Absent]
  /\ req = [r \in Requests |-> Idle]

Arrive(r) ==
  \E s \in Stations, t \in Tasks :
    \/ DeliverCheck(r, s, t)
    \/ \E w \in Workers : ClaimLockStation(r, s, t, w) \/ CompleteLockStation(r, s, t, w)

Claiming(r) ==
  \/ ClaimCommit(r) \/ ClaimRefreshTask(r) \/ ClaimRefreshStation(r)
  \/ \E ok \in BOOLEAN : StartAnswer(r, ok)
Compensating(r) == CompensateLockTask(r) \/ CompensateCommit(r)
Completing(r) ==
  \/ CompleteValidate(r) \/ \E ok \in BOOLEAN : CompleteAnswer(r, ok)
  \/ FinalLockStation(r) \/ CompleteCommit(r)

\* A step of a request in progress.
Proceed(r) ==
  \/ DeliverCount(r) \/ DeliverInsert(r)
  \/ Claiming(r) \/ Compensating(r) \/ Completing(r)

Patch ==
  \E s \in Stations :
    \/ \E c \in Capacities : UpdateStationCapacity(s, c)
    \/ \E st \in StationStatus : UpdateStationStatus(s, st)

Next ==
  \/ Patch
  \/ \E r \in Requests : Arrive(r) \/ Proceed(r) \/ DeadlockAbort(r) \/ Crash(r)

Spec == Init /\ [][Next]_vars

-----------------------------------------------------------------------------
(* Properties *)

\* Rows and sessions have their shape and busy_slots stays in its range.
TypeOK ==
  /\ status \in [Stations -> StationStatus]
  /\ capacity \in [Stations -> Capacities]
  /\ busy_slots \in [Stations -> 0..MaxCapacity]
  /\ kds \in [Tasks -> Row]
  /\ req \in [Requests -> Session]

\* A claim never takes a station beyond the capacity it has at that moment,
\* with capacities and statuses patched at any time.
ClaimStep ==
  \A t \in Tasks :
    kds[t].status = "displayed" /\ kds'[t].status = "claimed" =>
      /\ busy_slots'[kds[t].station_id] <= capacity[kds[t].station_id]
      /\ status[kds[t].station_id] = "available"
ClaimRespectsStation == [][ClaimStep]_vars

\* From its commit to its answer a claim keeps its task, although it holds no
\* lock during the call to fulfillment-service and its compensation: no other
\* claim of the task is under way, and the row is its worker's, at its station.
ClaimPcs == {"refresh_task", "refresh_station", "start_call", "comp_task", "comp_station"}
ClaimKept ==
  \A r \in Requests : req[r].pc \in ClaimPcs =>
    LET row == kds[req[r].task] IN
    /\ row.status \in {"claimed", "completed"}
    /\ row.station_id = req[r].station /\ row.claimed_by = req[r].worker
    /\ \A q \in Requests : req[q].pc \in ClaimPcs /\ req[q].task = req[r].task => q = r

\* A delivery inserts its row where there is room for it at that moment, although
\* deliveries, claims and compensations of other requests may come between its
\* count of the backlog and its insert.
DeliveryStep ==
  \A t \in Tasks :
    kds[t].status = "absent" /\ kds'[t].status = "displayed" =>
      LET s == kds'[t].station_id IN
      /\ s \in Suitable[t]
      /\ Cardinality(Displayed(s)) < BacklogLimit[s]
DeliveryWithinBacklog == [][DeliveryStep]_vars

\* A compensation puts its task back on a display that may have been filled since
\* the claim, without a look at the limit.  The overrun is bounded by the requests
\* in progress: each claim under way can exceed the limit by one task, and the
\* delivery that filled the display is a request too.
OverrunIsBounded ==
  \A s \in Stations :
    Cardinality(Displayed(s)) <= BacklogLimit[s] + Cardinality(Requests) - 1

\* A station's busy_slots counts its claimed tasks: each claim occupies one
\* slot, each completion and each compensation releases exactly one.
SlotAccounting == \A s \in Stations : busy_slots[s] = Cardinality(Claimed(s))
=============================================================================
