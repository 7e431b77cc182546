------------------------------ MODULE KdsProofs ------------------------------
(***************************************************************************)
(* Proofs about Kds for any stations, tasks, workers and requests.         *)
(*                                                                         *)
(* busy_slots is written from values a session read earlier, so its bounds *)
(* need two facts: a session's seen_busy is itself within bounds           *)
(* (TypeOK), and a session that holds a station's lock since it read the   *)
(* station still sees what is committed (SeenCurrent), because no one else *)
(* holds that lock (StationExclusive).                                     *)
(*                                                                         *)
(* When requests come one at a time, what a session read stays current     *)
(* without any lock: busy_slots then counts the claimed tasks exactly.     *)
(***************************************************************************)
EXTENDS Kds, FiniteSetTheorems, TLAPS

\* A station's row is locked by one session at most.
StationExclusive ==
  \A r, q \in Requests :
    /\ req[r].pc \in HoldsStation /\ req[q].pc \in HoldsStation
    /\ req[r].station = req[q].station
    => r = q

\* What a session read of a station it has locked since is what is committed.
SeenCurrent ==
  \A r \in Requests : req[r].pc \in {"claim_task", "complete_task"} =>
    /\ req[r].seen_status = status[req[r].station]
    /\ req[r].seen_capacity = capacity[req[r].station]
    /\ req[r].seen_busy = busy_slots[req[r].station]

\* The inductive invariant.
IInv == TypeOK /\ StationExclusive /\ SeenCurrent

-----------------------------------------------------------------------------
DeliverPcs == {"deliver_station", "deliver_insert"}
Pcs == WaitsForTask \union HoldsTask \union HoldsNothing

\* Sessions are what their pc says they are.
LEMMA SessionShape ==
  ASSUME TypeOK, NEW r \in Requests
  PROVE  /\ req[r] = Idle \/ req[r] \in Delivery \/ req[r] \in Work
         /\ req[r].pc \in Pcs => req[r] \in Work
         /\ req[r].pc \in DeliverPcs => req[r] \in Delivery
         /\ Idle.pc = "idle" /\ Idle \in Session
  BY DEF TypeOK, Session, Idle, Delivery, Work, Pcs, DeliverPcs, WaitsForTask, HoldsTask, HoldsNothing

\* A session moved to another pc keeps the rest.
LEMMA MovedSession ==
  ASSUME NEW w \in Work, NEW pc \in Pcs
  PROVE  /\ [w EXCEPT !.pc = pc] \in Work
         /\ [w EXCEPT !.pc = pc].pc = pc
         /\ [w EXCEPT !.pc = pc].station = w.station
         /\ [w EXCEPT !.pc = pc].seen_status = w.seen_status
         /\ [w EXCEPT !.pc = pc].seen_capacity = w.seen_capacity
         /\ [w EXCEPT !.pc = pc].seen_busy = w.seen_busy
  BY DEF Work, Pcs

\* A new session has read its station as it is.
LEMMA OpenedSession ==
  ASSUME TypeOK, NEW pc \in {"claim_task", "complete_task"}, NEW s \in Stations, NEW t \in Tasks,
         NEW w \in Workers
  PROVE  /\ Open(pc, s, t, w) \in Work
         /\ Open(pc, s, t, w).pc = pc
         /\ Open(pc, s, t, w).station = s
         /\ Open(pc, s, t, w).seen_status = status[s]
         /\ Open(pc, s, t, w).seen_capacity = capacity[s]
         /\ Open(pc, s, t, w).seen_busy = busy_slots[s]
<1>1. capacity[s] \in 1..MaxCapacity
  BY CapacitiesType DEF TypeOK
<1>2. QED
  BY <1>1 DEF Open, TypeOK, Work, Row, Absent, WaitsForTask

\* Empty displays satisfy the inductive invariant.
THEOREM InitIInv == Init => IInv
<1> SUFFICES ASSUME Init PROVE IInv
  OBVIOUS
<1>1. TypeOK
  BY CapacitiesType DEF Init, TypeOK, StationStatus, Row, Absent, Session
<1>2. QED
  BY <1>1 DEF Init, IInv, StationExclusive, SeenCurrent, Idle, HoldsStation

-----------------------------------------------------------------------------
(* Kinds of steps *)

\* A session ends and rows other than stations' change in their type.
LEMMA EndIInv ==
  ASSUME IInv, NEW r \in Requests, End(r), UNCHANGED stationVars, kds' \in [Tasks -> Row]
  PROVE  IInv'
<1> USE DEF End, stationVars
<1>1. TypeOK'
  BY SessionShape DEF IInv, TypeOK
<1>2. \A q \in Requests : req'[q].pc # "idle" => req'[q] = req[q]
  BY SessionShape DEF IInv, TypeOK
<1>3. QED
  BY <1>1, <1>2 DEF IInv, StationExclusive, SeenCurrent, HoldsStation

\* Ending a session without writing anything.
LEMMA JustEndIInv ==
  ASSUME IInv, NEW r \in Requests, End(r), UNCHANGED <<stationVars, kds>>
  PROVE  IInv'
<1>1. kds' \in [Tasks -> Row]
  BY DEF IInv, TypeOK
<1>2. QED
  BY <1>1, EndIInv

\* A session gets a new record w: no other step may disturb the locks.
LEMMA SetSessionIInv ==
  ASSUME IInv, NEW r \in Requests, NEW w \in Work, req' = [req EXCEPT ![r] = w],
         UNCHANGED <<stationVars, kds>>,
         w.pc \in HoldsStation => ~StationLocked(w.station),
         w.pc \in {"claim_task", "complete_task"} =>
           /\ w.seen_status = status[w.station]
           /\ w.seen_capacity = capacity[w.station]
           /\ w.seen_busy = busy_slots[w.station]
  PROVE  IInv'
<1> USE DEF stationVars
<1>1. TypeOK'
  BY DEF IInv, TypeOK, Session
<1>2. req'[r] = w /\ \A q \in Requests : q # r => req'[q] = req[q]
  BY DEF IInv, TypeOK
<1>3. StationExclusive'
  BY <1>2 DEF IInv, StationExclusive, StationLocked
<1>4. SeenCurrent'
  BY <1>2 DEF IInv, SeenCurrent
<1>5. QED
  BY <1>1, <1>3, <1>4 DEF IInv

\* A session moves on, taking at most a lock that is free.
LEMMA GoToIInv ==
  ASSUME IInv, NEW r \in Requests, req[r].pc \in Pcs, NEW pc \in Pcs, GoTo(r, pc),
         pc \notin {"claim_task", "complete_task"},
         pc \in HoldsStation => ~StationLocked(req[r].station),
         UNCHANGED <<stationVars, kds>>
  PROVE  IInv'
<1> DEFINE w == [req[r] EXCEPT !.pc = pc]
<1>1. req[r] \in Work
  BY SessionShape DEF IInv
<1>2. /\ w \in Work /\ w.pc = pc /\ w.station = req[r].station
  BY <1>1, MovedSession
<1>3. req' = [req EXCEPT ![r] = w]
  BY DEF GoTo
<1> HIDE DEF w
<1>4. TypeOK'
  BY <1>2, <1>3 DEF IInv, TypeOK, Session, stationVars
<1>5. req'[r] = w /\ \A q \in Requests : q # r => req'[q] = req[q]
  BY <1>3 DEF IInv, TypeOK
<1>6. StationExclusive'
  BY <1>2, <1>5 DEF IInv, StationExclusive, StationLocked
<1>7. SeenCurrent'
  BY <1>2, <1>5 DEF IInv, SeenCurrent, stationVars
<1>8. QED
  BY <1>4, <1>6, <1>7 DEF IInv

\* Session r writes slot count n of station s, no one else holding that
\* station, and goes on as w without the station's lock.
SlotWrite(r, s, n, w) ==
  /\ w \in Work \union {Idle} /\ w.pc \notin HoldsStation
  /\ \A q \in Requests : q # r => ~(req[q].pc \in HoldsStation /\ req[q].station = s)
  /\ req' = [req EXCEPT ![r] = w]
  /\ busy_slots' = busy_slots \/ busy_slots' = [busy_slots EXCEPT ![s] = n]
  /\ kds' \in [Tasks -> Row]
  /\ UNCHANGED <<status, capacity>>

\* Such a write preserves the invariant.
LEMMA WriteSlotsIInv ==
  ASSUME IInv, NEW r \in Requests, NEW s \in Stations, NEW n \in 0..MaxCapacity, NEW w,
         SlotWrite(r, s, n, w)
  PROVE  IInv'
<1> USE DEF SlotWrite
<1>1. TypeOK'
  BY DEF IInv, TypeOK, Session
<1>2. req'[r] = w /\ \A q \in Requests : q # r => req'[q] = req[q]
  BY DEF IInv, TypeOK
<1>3. StationExclusive'
  BY <1>2 DEF IInv, StationExclusive
<1>4. SeenCurrent'
  <2> SUFFICES ASSUME NEW q \in Requests, req'[q].pc \in {"claim_task", "complete_task"}
               PROVE  /\ req'[q].seen_status = status'[req'[q].station]
                      /\ req'[q].seen_capacity = capacity'[req'[q].station]
                      /\ req'[q].seen_busy = busy_slots'[req'[q].station]
    BY DEF SeenCurrent
  <2>a. req'[q].pc \in HoldsStation
    BY DEF HoldsStation
  <2>b. q # r
    BY <1>2, <2>a
  <2>1. q # r /\ req'[q] = req[q] /\ req[q].station # s
    BY <1>2, <2>a, <2>b
  <2>c. req[q].station \in Stations
    BY <2>1, SessionShape DEF IInv, Work, Pcs, WaitsForTask
  <2>2. busy_slots'[req[q].station] = busy_slots[req[q].station]
    BY <2>1, <2>c DEF IInv, TypeOK
  <2>3. QED
    BY <2>1, <2>2 DEF IInv, SeenCurrent
<1>5. QED
  BY <1>1, <1>3, <1>4 DEF IInv

-----------------------------------------------------------------------------
(* Requests *)

\* What the slot arithmetic of a session writes is within bounds.
LEMMA ReleasedSlot ==
  ASSUME IInv, NEW r \in Requests, req[r] \in Work, ReleaseSlot(r)
  PROVE  \E n \in 0..MaxCapacity :
           busy_slots' = busy_slots \/ busy_slots' = [busy_slots EXCEPT ![req[r].station] = n]
<1>1. req[r].seen_busy \in 0..MaxCapacity /\ MaxCapacity \in Nat
  BY CapacitiesType DEF Work
<1>2. CASE req[r].seen_busy = 0
  BY <1>1, <1>2 DEF ReleaseSlot
<1>3. CASE req[r].seen_busy # 0
  <2>1. req[r].seen_busy - 1 \in 0..MaxCapacity
    BY <1>1, <1>3
  <2>2. QED
    BY <1>3, <2>1 DEF ReleaseSlot
<1>4. QED
  BY <1>2, <1>3

\* The rows the claim, the compensation and the completion write.
LEMMA WrittenRow ==
  ASSUME TypeOK, NEW t \in Tasks, NEW w \in Workers
  PROVE  /\ [kds EXCEPT ![t] = [@ EXCEPT !.status = "claimed", !.claimed_by = w]]
              \in [Tasks -> Row]
         /\ [kds EXCEPT ![t] = [@ EXCEPT !.status = "displayed", !.claimed_by = NULL]]
              \in [Tasks -> Row]
         /\ [kds EXCEPT ![t] = [@ EXCEPT !.status = "completed"]] \in [Tasks -> Row]
  BY DEF TypeOK, Row

\* A PATCH preserves the invariant: it waits for the lock of the station it
\* writes.
LEMMA PatchIInv == IInv /\ Patch => IInv'
<1> SUFFICES ASSUME IInv, Patch PROVE IInv'
  OBVIOUS
<1>1. ASSUME NEW s \in Stations, NEW c \in Capacities, UpdateStationCapacity(s, c)
      PROVE  IInv'
  <2> USE <1>1 DEF UpdateStationCapacity
  <2>1. TypeOK'
    BY DEF IInv, TypeOK
  <2>2. StationExclusive'
    BY DEF IInv, StationExclusive
  <2>3. SeenCurrent'
    BY DEF IInv, TypeOK, SeenCurrent, StationLocked, HoldsStation
  <2>4. QED
    BY <2>1, <2>2, <2>3 DEF IInv
<1>2. ASSUME NEW s \in Stations, NEW st \in StationStatus, UpdateStationStatus(s, st)
      PROVE  IInv'
  <2> USE <1>2 DEF UpdateStationStatus
  <2>1. TypeOK'
    BY DEF IInv, TypeOK
  <2>2. StationExclusive'
    BY DEF IInv, StationExclusive
  <2>3. SeenCurrent'
    BY DEF IInv, TypeOK, SeenCurrent, StationLocked, HoldsStation
  <2>4. QED
    BY <2>1, <2>2, <2>3 DEF IInv
<1>3. QED
  BY <1>1, <1>2 DEF Patch

\* The first step of a request preserves the invariant.
LEMMA ArriveIInv == ASSUME IInv, NEW r \in Requests, Arrive(r) PROVE IInv'
<1>1. ASSUME NEW s \in Stations, NEW t \in Tasks, DeliverCheck(r, s, t)
      PROVE  IInv'
  <2> DEFINE d == [pc |-> "deliver_station", station |-> s, task |-> t]
  <2>1. d \in Session /\ d.pc = "deliver_station"
    BY DEF Session, Delivery
  <2>2. req' = [req EXCEPT ![r] = d] /\ UNCHANGED <<stationVars, kds>>
    BY <1>1 DEF DeliverCheck
  <2> HIDE DEF d
  <2>3. TypeOK'
    BY <2>1, <2>2 DEF IInv, TypeOK, stationVars
  <2>4. req'[r] = d /\ \A q \in Requests : q # r => req'[q] = req[q]
    BY <2>2 DEF IInv, TypeOK
  <2>5. StationExclusive'
    BY <2>1, <2>4 DEF IInv, StationExclusive, HoldsStation
  <2>6. SeenCurrent'
    BY <2>1, <2>2, <2>4 DEF IInv, SeenCurrent, stationVars
  <2>7. QED
    BY <2>3, <2>5, <2>6 DEF IInv
<1>2. ASSUME NEW s \in Stations, NEW t \in Tasks, NEW w \in Workers,
             ClaimLockStation(r, s, t, w) \/ CompleteLockStation(r, s, t, w)
      PROVE  IInv'
  <2>1. PICK pc \in {"claim_task", "complete_task"} :
          req' = [req EXCEPT ![r] = Open(pc, s, t, w)] /\ ~StationLocked(s)
    BY <1>2 DEF ClaimLockStation, CompleteLockStation
  <2>2. UNCHANGED <<stationVars, kds>>
    BY <1>2 DEF ClaimLockStation, CompleteLockStation
  <2>3. PICK v \in Work : v = Open(pc, s, t, w)
    BY OpenedSession DEF IInv
  <2>4. /\ v.station = s
        /\ v.seen_status = status[s]
        /\ v.seen_capacity = capacity[s]
        /\ v.seen_busy = busy_slots[s]
    BY <2>3, OpenedSession DEF IInv
  <2>5. req' = [req EXCEPT ![r] = v]
    BY <2>1, <2>3
  <2>6. QED
    BY <2>1, <2>2, <2>4, <2>5, SetSessionIInv
<1>3. QED
  BY <1>1, <1>2 DEF Arrive

\* A delivery that found room holds its station and keeps the rest.
LEMMA CountedSession ==
  ASSUME TypeOK, NEW r \in Requests, req[r].pc = "deliver_station", GoTo(r, "deliver_insert")
  PROVE  /\ req' \in [Requests -> Session]
         /\ req'[r].pc = "deliver_insert"
         /\ req'[r].station = req[r].station /\ req'[r].task = req[r].task
         /\ \A q \in Requests \ {r} : req'[q] = req[q]
<1>1. req[r] \in Delivery
  BY SessionShape DEF DeliverPcs
<1>2. PICK d : d = [req[r] EXCEPT !.pc = "deliver_insert"]
  OBVIOUS
<1>3. /\ d \in Delivery /\ d.pc = "deliver_insert"
      /\ d.station = req[r].station /\ d.task = req[r].task
  BY <1>1, <1>2 DEF Delivery
<1>4. req' = [req EXCEPT ![r] = d]
  BY <1>2 DEF GoTo
<1>5. QED
  BY <1>3, <1>4 DEF TypeOK, Session

\* Locking the station and counting its backlog preserves the invariant.
LEMMA DeliverCountIInv == ASSUME IInv, NEW r \in Requests, DeliverCount(r) PROVE IInv'
<1>1. CASE End(r)
  BY <1>1, JustEndIInv DEF DeliverCount
<1>2. CASE GoTo(r, "deliver_insert")
  <2>1. /\ UNCHANGED <<stationVars, kds>> /\ ~StationLocked(req[r].station)
        /\ req' \in [Requests -> Session]
        /\ req'[r].pc = "deliver_insert" /\ req'[r].station = req[r].station
        /\ \A q \in Requests \ {r} : req'[q] = req[q]
    BY <1>2, CountedSession DEF DeliverCount, IInv
  <2>2. TypeOK'
    BY <2>1 DEF IInv, TypeOK, stationVars
  <2>3. StationExclusive'
    BY <2>1 DEF IInv, StationExclusive, StationLocked
  <2>4. SeenCurrent'
    BY <2>1 DEF IInv, SeenCurrent, stationVars
  <2>5. QED
    BY <2>2, <2>3, <2>4 DEF IInv
<1>3. QED
  BY <1>1, <1>2 DEF DeliverCount

\* The insertion of deliver_task preserves the invariant.
LEMMA DeliverIInv == ASSUME IInv, NEW r \in Requests, DeliverInsert(r) PROVE IInv'
<1>1. req[r].station \in Stations /\ req[r].task \in Tasks
  BY SessionShape DEF IInv, DeliverInsert, Delivery, DeliverPcs
<1>2. kds' \in [Tasks -> Row]
  BY <1>1 DEF IInv, TypeOK, Row, DeliverInsert
<1>3. QED
  BY <1>2, EndIInv DEF DeliverInsert

\* The commit of claim_task preserves the invariant: what it read of the
\* station is current.
LEMMA ClaimCommitIInv == ASSUME IInv, NEW r \in Requests, ClaimCommit(r) PROVE IInv'
<1>0. req[r] \in Work
  BY SessionShape DEF IInv, ClaimCommit, Pcs, WaitsForTask
<1>1. CASE MayClaim(r) /\ GoTo(r, "refresh_task")
           /\ kds' = [kds EXCEPT ![req[r].task] =
                        [@ EXCEPT !.status = "claimed", !.claimed_by = req[r].worker]]
           /\ busy_slots' = [busy_slots EXCEPT ![req[r].station] = req[r].seen_busy + 1]
           /\ UNCHANGED <<status, capacity>>
  <2>1. PICK s \in Stations : s = req[r].station
    BY <1>0 DEF Work
  <2>2. PICK n \in 0..MaxCapacity : n = req[r].seen_busy + 1
    BY <1>0, <1>1, CapacitiesType DEF Work, MayClaim
  <2>3. PICK w \in Work : w = [req[r] EXCEPT !.pc = "refresh_task"] /\ w.pc = "refresh_task"
    BY <1>0, MovedSession DEF Pcs, HoldsNothing
  <2>4. req' = [req EXCEPT ![r] = w]
    BY <1>1, <2>3 DEF GoTo
  <2>5. kds' \in [Tasks -> Row]
    BY <1>0, <1>1, WrittenRow DEF IInv, Work
  <2>6. \A q \in Requests : q # r => ~(req[q].pc \in HoldsStation /\ req[q].station = s)
    BY <2>1 DEF IInv, StationExclusive, ClaimCommit, HoldsStation
  <2>7. w.pc \notin HoldsStation
    BY <2>3 DEF HoldsStation
  <2>8. busy_slots' = [busy_slots EXCEPT ![s] = n]
    BY <1>1, <2>1, <2>2
  <2>9. SlotWrite(r, s, n, w)
    BY <1>1, <2>4, <2>5, <2>6, <2>7, <2>8 DEF SlotWrite
  <2>10. QED
    BY <2>9, WriteSlotsIInv
<1>2. CASE End(r) /\ UNCHANGED <<stationVars, kds>>
  <2>1. kds' \in [Tasks -> Row]
    BY <1>2 DEF IInv, TypeOK
  <2>2. QED
    BY <1>2, <2>1, EndIInv
<1>3. QED
  BY <1>1, <1>2 DEF ClaimCommit

\* CompensateCommit and CompleteCommit end a session that may write its slot.
LEMMA EndWithSlotIInv ==
  ASSUME IInv, NEW r \in Requests, req[r] \in Work, End(r), UNCHANGED <<status, capacity>>,
         kds' \in [Tasks -> Row], ReleaseSlot(r) \/ UNCHANGED busy_slots,
         \A q \in Requests :
           q # r => ~(req[q].pc \in HoldsStation /\ req[q].station = req[r].station)
  PROVE  IInv'
<1>1. PICK s \in Stations : s = req[r].station
  BY DEF Work
<1>2. PICK n \in 0..MaxCapacity :
        busy_slots' = busy_slots \/ busy_slots' = [busy_slots EXCEPT ![s] = n]
  BY <1>1, ReleasedSlot, CapacitiesType
<1>3. Idle \in Work \union {Idle} /\ Idle.pc \notin HoldsStation
  BY DEF Idle, HoldsStation
<1>4. \A q \in Requests : q # r => ~(req[q].pc \in HoldsStation /\ req[q].station = s)
  BY <1>1
<1>5. SlotWrite(r, s, n, Idle)
  BY <1>2, <1>3, <1>4 DEF End, SlotWrite
<1>6. QED
  BY <1>5, WriteSlotsIInv

\* A session that reads rows again, or remembers one, stays well-formed.
LEMMA RefreshedSession ==
  ASSUME TypeOK, NEW v \in Work, NEW row \in Row
  PROVE  /\ [v EXCEPT !.pc = "start_call", !.seen_status = status[v.station],
                      !.seen_capacity = capacity[v.station],
                      !.seen_busy = busy_slots[v.station]] \in Work
         /\ [v EXCEPT !.pc = "start_call", !.seen_status = status[v.station],
                      !.seen_capacity = capacity[v.station],
                      !.seen_busy = busy_slots[v.station]].pc = "start_call"
         /\ [v EXCEPT !.pc = "refresh_station", !.seen_row = row] \in Work
         /\ [v EXCEPT !.pc = "refresh_station", !.seen_row = row].pc = "refresh_station"
         /\ [v EXCEPT !.pc = "complete_call", !.seen_row = row] \in Work
         /\ [v EXCEPT !.pc = "complete_call", !.seen_row = row].pc = "complete_call"
<1>1. v.station \in Stations
  BY DEF Work
<1>2. capacity[v.station] \in 1..MaxCapacity
  BY <1>1, CapacitiesType DEF TypeOK
<1>3. QED
  BY <1>1, <1>2 DEF TypeOK, Work, HoldsNothing

\* Every step of claim_task preserves the invariant.
LEMMA ClaimingIInv == ASSUME IInv, NEW r \in Requests, Claiming(r) PROVE IInv'
<1>0. CASE ClaimRefreshTask(r)
  <2>1. req[r] \in Work /\ kds[req[r].task] \in Row
    BY <1>0, SessionShape DEF IInv, TypeOK, ClaimRefreshTask, Pcs, HoldsNothing, Work
  <2>2. PICK w \in Work :
          w.pc = "refresh_station" /\ req' = [req EXCEPT ![r] = w]
    BY <1>0, <2>1, RefreshedSession DEF IInv, ClaimRefreshTask
  <2>3. QED
    BY <1>0, <2>2, SetSessionIInv DEF ClaimRefreshTask, HoldsStation
<1>1. CASE ClaimRefreshStation(r)
  <2>1. req[r] \in Work
    BY <1>1, SessionShape DEF IInv, ClaimRefreshStation, Pcs, HoldsNothing
  <2>2. PICK w \in Work :
          w.pc = "start_call" /\ req' = [req EXCEPT ![r] = w]
    <3>1. req[r].seen_row \in Row
      BY <2>1 DEF Work
    <3>2. QED
      BY <1>1, <2>1, <3>1, RefreshedSession DEF IInv, ClaimRefreshStation
  <2>3. QED
    BY <1>1, <2>2, SetSessionIInv DEF ClaimRefreshStation, HoldsStation
<1>2. ASSUME NEW ok \in BOOLEAN, StartAnswer(r, ok) PROVE IInv'
  <2>1. "comp_task" \in Pcs /\ req[r].pc \in Pcs /\ "comp_task" \notin HoldsStation
    BY <1>2 DEF StartAnswer, Pcs, HoldsNothing, HoldsStation
  <2>2. QED
    BY <1>2, <2>1, GoToIInv, JustEndIInv DEF StartAnswer
<1>3. QED
  BY <1>0, <1>1, <1>2, ClaimCommitIInv DEF Claiming

\* Every step of _compensate_claim preserves the invariant.
LEMMA CompensatingIInv == ASSUME IInv, NEW r \in Requests, Compensating(r) PROVE IInv'
<1>1. CASE CompensateLockTask(r)
  <2>1. "comp_station" \in Pcs /\ req[r].pc \in Pcs /\ "comp_station" \notin HoldsStation
    BY <1>1 DEF CompensateLockTask, Pcs, HoldsNothing, HoldsTask, HoldsStation
  <2>2. QED
    BY <1>1, <2>1, GoToIInv DEF CompensateLockTask
<1>2. CASE CompensateCommit(r)
  <2>1. req[r] \in Work
    BY <1>2, SessionShape DEF IInv, CompensateCommit, Pcs, HoldsTask
  <2>2. req[r].task \in Tasks /\ req[r].worker \in Workers
    BY <2>1 DEF Work
  <2>3. kds' \in [Tasks -> Row]
    BY <1>2, <2>2, WrittenRow DEF IInv, TypeOK, CompensateCommit
  <2>4. ReleaseSlot(r) \/ UNCHANGED busy_slots
    BY <1>2 DEF CompensateCommit
  <2>5. \A q \in Requests :
          q # r => ~(req[q].pc \in HoldsStation /\ req[q].station = req[r].station)
    BY <1>2 DEF CompensateCommit, StationLocked
  <2>6. QED
    BY <1>2, <2>1, <2>3, <2>4, <2>5, EndWithSlotIInv DEF CompensateCommit
<1>3. QED
  BY <1>1, <1>2 DEF Compensating

\* Every step of complete_task preserves the invariant.
LEMMA CompletingIInv == ASSUME IInv, NEW r \in Requests, Completing(r) PROVE IInv'
<1>1. CASE CompleteValidate(r)
  <2>1. req[r] \in Work /\ kds[req[r].task] \in Row
    BY <1>1, SessionShape DEF IInv, TypeOK, CompleteValidate, Pcs, WaitsForTask, Work
  <2>2. CASE End(r)
    BY <1>1, <2>2, JustEndIInv DEF CompleteValidate
  <2>3. CASE ~End(r)
    <3>1. PICK w \in Work :
            w.pc = "complete_call" /\ req' = [req EXCEPT ![r] = w]
      BY <1>1, <2>1, <2>3, RefreshedSession DEF IInv, CompleteValidate
    <3>2. QED
      BY <1>1, <3>1, SetSessionIInv DEF CompleteValidate, HoldsStation
  <2>4. QED
    BY <2>2, <2>3
<1>2. ASSUME NEW ok \in BOOLEAN, CompleteAnswer(r, ok) PROVE IInv'
  <2>1. "final_station" \in Pcs /\ req[r].pc \in Pcs /\ "final_station" \notin HoldsStation
    BY <1>2 DEF CompleteAnswer, Pcs, HoldsNothing, HoldsStation
  <2>2. QED
    BY <1>2, <2>1, GoToIInv, JustEndIInv DEF CompleteAnswer
<1>3. CASE FinalLockStation(r)
  <2>1. "final_task" \in Pcs /\ req[r].pc \in Pcs
    BY <1>3 DEF FinalLockStation, Pcs, HoldsNothing, WaitsForTask
  <2>2. QED
    BY <1>3, <2>1, GoToIInv DEF FinalLockStation
<1>4. CASE CompleteCommit(r)
  <2>1. req[r] \in Work /\ req[r].pc \in HoldsStation
    BY <1>4, SessionShape DEF IInv, CompleteCommit, Pcs, WaitsForTask, HoldsStation
  <2>2. req[r].task \in Tasks /\ req[r].worker \in Workers
    BY <2>1 DEF Work
  <2>3. kds' \in [Tasks -> Row]
    BY <1>4, <2>2, WrittenRow DEF IInv, TypeOK, CompleteCommit
  <2>4. ReleaseSlot(r) \/ UNCHANGED busy_slots
    BY <1>4 DEF CompleteCommit
  <2>5. \A q \in Requests :
          q # r => ~(req[q].pc \in HoldsStation /\ req[q].station = req[r].station)
    BY <2>1 DEF IInv, StationExclusive
  <2>6. QED
    BY <1>4, <2>1, <2>3, <2>4, <2>5, EndWithSlotIInv DEF CompleteCommit
<1>5. QED
  BY <1>1, <1>2, <1>3, <1>4 DEF Completing

-----------------------------------------------------------------------------
(* The invariant and what follows from it *)

\* Every step of the service preserves the inductive invariant.
THEOREM NextIInv == IInv /\ [Next]_vars => IInv'
<1> SUFFICES ASSUME IInv, [Next]_vars PROVE IInv'
  OBVIOUS
<1>1. CASE Patch
  BY <1>1, PatchIInv
<1>2. ASSUME NEW r \in Requests, Arrive(r) \/ Proceed(r) PROVE IInv'
  BY <1>2, ArriveIInv, DeliverCountIInv, DeliverIInv, ClaimingIInv, CompensatingIInv, CompletingIInv
  DEF Proceed
<1>3. ASSUME NEW r \in Requests, DeadlockAbort(r) \/ Crash(r) PROVE IInv'
  BY <1>3, JustEndIInv DEF DeadlockAbort, Crash
<1>4. CASE UNCHANGED vars
  BY <1>4 DEF IInv, TypeOK, StationExclusive, SeenCurrent, vars
<1>5. QED
  BY <1>1, <1>2, <1>3, <1>4 DEF Next

\* The inductive invariant holds in every reachable state.
THEOREM Invariance == Spec => []IInv
  BY InitIInv, NextIInv, PTL DEF Spec

\* Type correctness of kitchen-service; in particular busy_slots stays within
\* the largest capacity.
THEOREM TypeCorrect == Spec => []TypeOK
  BY Invariance, PTL DEF IInv

\* A row becomes claimed only by the commit of a claim that passed
\* _validate_claim while it held the station's lock.
LEMMA OnlyClaimClaims ==
  ASSUME IInv, [Next]_vars, NEW t \in Tasks, kds'[t].status = "claimed", kds'[t] # kds[t]
  PROVE  \E r \in Requests :
           /\ req[r].pc = "claim_task" /\ req[r] \in Work
           /\ req[r].task = t
           /\ MayClaim(r)
           /\ busy_slots' = [busy_slots EXCEPT ![req[r].station] = req[r].seen_busy + 1]
<1> USE DEF IInv, TypeOK, Row
<1>1. CASE UNCHANGED kds
  BY <1>1
<1>2. ASSUME NEW r \in Requests, DeliverInsert(r) PROVE FALSE
  BY <1>2 DEF DeliverInsert
<1>3. ASSUME NEW r \in Requests, CompensateCommit(r) PROVE FALSE
  BY <1>3 DEF CompensateCommit
<1>4. ASSUME NEW r \in Requests, CompleteCommit(r) PROVE FALSE
  BY <1>4 DEF CompleteCommit
<1>5. ASSUME NEW r \in Requests, ClaimCommit(r)
      PROVE  /\ req[r].pc = "claim_task" /\ req[r] \in Work
             /\ req[r].task = t
             /\ MayClaim(r)
             /\ busy_slots' = [busy_slots EXCEPT ![req[r].station] = req[r].seen_busy + 1]
  <2>1. req[r].pc = "claim_task" /\ req[r] \in Work
    BY <1>5, SessionShape DEF ClaimCommit, Pcs, WaitsForTask
  <2>2. MayClaim(r) /\ req[r].task = t
    BY <1>5 DEF ClaimCommit
  <2>3. QED
    BY <1>5, <2>1, <2>2 DEF ClaimCommit
<1>6. QED
  BY <1>1, <1>2, <1>3, <1>4, <1>5
  DEF Next, vars, Patch, UpdateStationCapacity, UpdateStationStatus, Arrive, DeliverCheck,
      ClaimLockStation, CompleteLockStation, Proceed, DeliverCount, Claiming, ClaimRefreshTask,
      ClaimRefreshStation, StartAnswer,
      Compensating, CompensateLockTask, Completing, CompleteValidate, CompleteAnswer,
      FinalLockStation, DeadlockAbort, Crash

\* A claim respects the capacity and the status its station has when the claim
\* commits: the station's lock keeps what the claim read of it current.
THEOREM ClaimsRespectStation == Spec => ClaimRespectsStation
<1>1. ASSUME IInv, [Next]_vars PROVE [ClaimStep]_vars
  <2> SUFFICES ASSUME NEW t \in Tasks, kds[t].status = "displayed", kds'[t].status = "claimed"
               PROVE  /\ busy_slots'[kds[t].station_id] <= capacity[kds[t].station_id]
                      /\ status[kds[t].station_id] = "available"
    BY DEF ClaimStep
  <2>1. PICK r \in Requests :
          /\ req[r].pc = "claim_task" /\ req[r] \in Work
          /\ req[r].task = t
          /\ MayClaim(r)
          /\ busy_slots' = [busy_slots EXCEPT ![req[r].station] = req[r].seen_busy + 1]
    BY <1>1, OnlyClaimClaims
  <2>2. PICK s \in Stations : s = req[r].station
    BY <2>1 DEF Work
  <2>3. kds[t].station_id = s /\ status[s] = "available"
    BY <1>1, <2>1, <2>2 DEF MayClaim, IInv, SeenCurrent
  <2>4. busy_slots'[s] = req[r].seen_busy + 1
    BY <1>1, <2>1, <2>2 DEF IInv, TypeOK
  <2>5. req[r].seen_busy + 1 <= capacity[s]
    <3>1. req[r].seen_busy < capacity[s]
      BY <1>1, <2>1, <2>2 DEF MayClaim, IInv, SeenCurrent
    <3>2. req[r].seen_busy \in Int /\ capacity[s] \in Int
      BY <1>1, <2>1, <2>2, CapacitiesType DEF IInv, TypeOK, Work
    <3>3. QED
      BY <3>1, <3>2
  <2>6. QED
    BY <2>3, <2>4, <2>5
<1>2. QED
  BY <1>1, Invariance, PTL DEF Spec, ClaimRespectsStation

-----------------------------------------------------------------------------
(* What a step of a request does, for the modules that extend Kds *)

Others(r) == \A q \in Requests \ {r} : req'[q] = req[q]
Ends(r) == req'[r] = Idle /\ Others(r)
Onward(r, pc) ==
  /\ req'[r].pc = pc /\ Others(r)
  /\ req'[r].task = req[r].task /\ req'[r].worker = req[r].worker
  /\ req'[r].station = req[r].station

\* The row a request writes.
Writes(r, row) == kds' = [kds EXCEPT ![req[r].task] = row]

Counts(r) ==
  /\ req[r].pc = "deliver_station" /\ MayDeliver(req[r].station, req[r].task)
  /\ req'[r].pc = "deliver_insert" /\ Others(r)
  /\ req'[r].task = req[r].task /\ req'[r].station = req[r].station
  /\ kds' = kds

Shows(r) ==
  /\ req[r].pc = "deliver_insert" /\ Ends(r)
  /\ kds[req[r].task].status = "absent"
  /\ Writes(r, [status |-> "displayed", station_id |-> req[r].station, claimed_by |-> NULL])

Claims(r) ==
  /\ req[r].pc = "claim_task" /\ Onward(r, "refresh_task")
  /\ kds[req[r].task].status = "displayed" /\ kds[req[r].task].station_id = req[r].station
  /\ Writes(r, [kds[req[r].task] EXCEPT !.status = "claimed", !.claimed_by = req[r].worker])

Moves == [refresh_task |-> "refresh_station", refresh_station |-> "start_call",
          start_call |-> "comp_task", comp_task |-> "comp_station",
          complete_task |-> "complete_call", complete_call |-> "final_station",
          final_station |-> "final_task"]

Advances(r) ==
  /\ req[r].pc \in DOMAIN Moves /\ Onward(r, Moves[req[r].pc])
  /\ req[r].pc = "refresh_task" => req'[r].seen_row = kds[req[r].task]
  /\ req[r].pc = "complete_task" => kds[req[r].task].status = "claimed"
  /\ req[r].pc \in {"refresh_station", "start_call", "comp_task"} =>
       req'[r].seen_row = req[r].seen_row
  /\ kds' = kds

\* The session saw the row claimed in the name of its worker.
SawOwnClaim(r) == req[r].seen_row.status = "claimed" /\ req[r].seen_row.claimed_by = req[r].worker

Undoes(r) ==
  /\ req[r].pc = "comp_station" /\ SawOwnClaim(r) /\ Ends(r)
  /\ ~StationLocked(req[r].station)
  /\ Writes(r, [kds[req[r].task] EXCEPT !.status = "displayed", !.claimed_by = NULL])

Finishes(r) ==
  /\ req[r].pc = "final_task" /\ Ends(r)
  /\ Writes(r, [kds[req[r].task] EXCEPT !.status = "completed"])

\* A request ends without writing: refused, answered, aborted or dead.
Stops(r) ==
  /\ req[r].pc # "idle" /\ Ends(r) /\ kds' = kds
  /\ req[r].pc = "comp_station" => ~SawOwnClaim(r) \/ DeadlockAbort(r) \/ Crash(r)

\* Every step of request r is one of these.
Kind(r) ==
  Counts(r) \/ Shows(r) \/ Claims(r) \/ Advances(r) \/ Undoes(r) \/ Finishes(r) \/ Stops(r)

\* A session that moves on keeps the rest.
LEMMA GoToOnward ==
  ASSUME TypeOK, NEW r \in Requests, req[r].pc \in Pcs, NEW pc \in Pcs, GoTo(r, pc)
  PROVE  Onward(r, pc) /\ req'[r].seen_row = req[r].seen_row
<1>1. req[r] \in Work
  BY SessionShape
<1>2. QED
  BY <1>1 DEF GoTo, Onward, Others, TypeOK, Work

\* A session that ends leaves the others alone.
LEMMA EndEnds == ASSUME TypeOK, NEW r \in Requests, End(r) PROVE Ends(r)
  BY DEF End, Ends, Others, TypeOK

\* The steps of a request in progress, sorted by what they do to it and to its row.
LEMMA RequestStep ==
  ASSUME TypeOK, NEW r \in Requests, Proceed(r) \/ DeadlockAbort(r) \/ Crash(r)
  PROVE  Kind(r)
<1> USE DEF Kind
<1>1. CASE DeadlockAbort(r) \/ Crash(r)
  <2>1. req[r].pc # "idle"
    <3>1. CASE DeadlockAbort(r)
      BY <3>1 DEF DeadlockAbort, WaitCycle, WaitsFor, WaitsForTask, HoldsTask
    <3>2. CASE Crash(r)
      <4>1. req[r] \in Delivery \/ req[r] \in Work
        BY <3>2, SessionShape DEF Crash
      <4>2. QED
        BY <4>1 DEF Delivery, Work, WaitsForTask, HoldsTask, HoldsNothing
    <3>3. QED
      BY <1>1, <3>1, <3>2
  <2>2. QED
    BY <1>1, <2>1, EndEnds DEF DeadlockAbort, Crash, Stops
<1>0. CASE DeliverCount(r)
  BY <1>0, CountedSession, EndEnds DEF DeliverCount, Counts, Stops, Others
<1>2. CASE DeliverInsert(r)
  BY <1>2, EndEnds DEF DeliverInsert, Shows, Stops, Writes
<1>3. CASE ClaimCommit(r)
  <2>1. req[r].pc \in Pcs /\ "refresh_task" \in Pcs /\ req[r] \in Work
    BY <1>3, SessionShape DEF ClaimCommit, Pcs, WaitsForTask, HoldsNothing
  <2>2. CASE MayClaim(r) /\ GoTo(r, "refresh_task")
             /\ kds' = [kds EXCEPT ![req[r].task] =
                          [@ EXCEPT !.status = "claimed", !.claimed_by = req[r].worker]]
    <3>1. Onward(r, "refresh_task")
      BY <2>1, <2>2, GoToOnward
    <3>2. QED
      BY <1>3, <2>1, <2>2, <3>1 DEF ClaimCommit, MayClaim, Claims, Writes, TypeOK, Work
  <2>3. CASE End(r) /\ UNCHANGED kds
    BY <1>3, <2>3, EndEnds DEF ClaimCommit, Stops
  <2>4. QED
    BY <1>3, <2>2, <2>3 DEF ClaimCommit
<1>4. CASE ClaimRefreshTask(r)
  <2>1. req[r] \in Work
    BY <1>4, SessionShape DEF ClaimRefreshTask, Pcs, HoldsNothing
  <2>2. QED
    BY <1>4, <2>1 DEF ClaimRefreshTask, Advances, Moves, Onward, Others, TypeOK, Work
<1>5. CASE ClaimRefreshStation(r)
  <2>1. req[r] \in Work
    BY <1>5, SessionShape DEF ClaimRefreshStation, Pcs, HoldsNothing
  <2>2. QED
    BY <1>5, <2>1 DEF ClaimRefreshStation, Advances, Moves, Onward, Others, TypeOK, Work
<1>6. ASSUME NEW ok \in BOOLEAN, StartAnswer(r, ok)
      PROVE  Advances(r) \/ Stops(r)
  <2>1. req[r].pc \in Pcs /\ "comp_task" \in Pcs
    BY <1>6 DEF StartAnswer, Pcs, HoldsNothing
  <2>2. QED
    BY <1>6, <2>1, GoToOnward, EndEnds DEF StartAnswer, Advances, Stops, Moves
<1>7. CASE CompensateLockTask(r)
  <2>1. req[r].pc \in Pcs /\ "comp_station" \in Pcs
    BY <1>7 DEF CompensateLockTask, Pcs, HoldsNothing, HoldsTask
  <2>2. QED
    BY <1>7, <2>1, GoToOnward DEF CompensateLockTask, Advances, Moves
<1>8. CASE CompensateCommit(r)
  <2>1. req[r] \in Work
    BY <1>8, SessionShape DEF CompensateCommit, Pcs, HoldsTask
  <2>2. QED
    BY <1>8, <2>1, EndEnds DEF CompensateCommit, Undoes, Stops, SawOwnClaim, Writes, TypeOK, Work
<1>9. CASE CompleteValidate(r)
  <2>1. req[r] \in Work
    BY <1>9, SessionShape DEF CompleteValidate, Pcs, WaitsForTask
  <2>2. CASE End(r)
    BY <1>9, <2>2, EndEnds DEF CompleteValidate, Stops
  <2>3. CASE ~End(r)
    <3>1. /\ req[r].pc = "complete_task" /\ kds' = kds
          /\ req' = [req EXCEPT ![r] = [req[r] EXCEPT !.pc = "complete_call",
                                                     !.seen_row = kds[req[r].task]]]
          /\ kds[req[r].task].status = "claimed"
      BY <1>9, <2>3 DEF CompleteValidate, MayComplete
    <3>2. Onward(r, "complete_call")
      BY <2>1, <3>1 DEF Onward, Others, TypeOK, Work
    <3>3. QED
      BY <3>1, <3>2 DEF Advances, Moves
  <2>4. QED
    BY <2>2, <2>3
<1>10. ASSUME NEW ok \in BOOLEAN, CompleteAnswer(r, ok)
       PROVE  Advances(r) \/ Stops(r)
  <2>1. req[r].pc \in Pcs /\ "final_station" \in Pcs
    BY <1>10 DEF CompleteAnswer, Pcs, HoldsNothing
  <2>2. QED
    BY <1>10, <2>1, GoToOnward, EndEnds DEF CompleteAnswer, Advances, Stops, Moves
<1>11. CASE FinalLockStation(r)
  <2>1. req[r].pc \in Pcs /\ "final_task" \in Pcs
    BY <1>11 DEF FinalLockStation, Pcs, HoldsNothing, WaitsForTask
  <2>2. QED
    BY <1>11, <2>1, GoToOnward DEF FinalLockStation, Advances, Moves
<1>12. CASE CompleteCommit(r)
  <2>1. req[r] \in Work
    BY <1>12, SessionShape DEF CompleteCommit, Pcs, WaitsForTask
  <2>2. QED
    BY <1>12, <2>1, EndEnds DEF CompleteCommit, Finishes, Stops, Writes, TypeOK, Work
<1>13. QED
  BY <1>0, <1>1, <1>2, <1>3, <1>4, <1>5, <1>6, <1>7, <1>8, <1>9, <1>10, <1>11, <1>12
  DEF Proceed, Claiming, Compensating, Completing

\* The first step of a request.
LEMMA ArriveStep ==
  ASSUME TypeOK, NEW r \in Requests, Arrive(r)
  PROVE  /\ req[r] = Idle /\ Others(r) /\ kds' = kds
         /\ req'[r].pc \in {"deliver_station", "claim_task", "complete_task"}
<1>1. ASSUME NEW s \in Stations, NEW t \in Tasks, DeliverCheck(r, s, t)
      PROVE  /\ req[r] = Idle /\ Others(r) /\ kds' = kds
             /\ req'[r].pc \in {"deliver_station", "claim_task", "complete_task"}
  BY <1>1 DEF DeliverCheck, Others, TypeOK
<1>2. ASSUME NEW s \in Stations, NEW t \in Tasks, NEW w \in Workers,
             ClaimLockStation(r, s, t, w) \/ CompleteLockStation(r, s, t, w)
      PROVE  /\ req[r] = Idle /\ Others(r) /\ kds' = kds
             /\ req'[r].pc \in {"deliver_station", "claim_task", "complete_task"}
  BY <1>2, OpenedSession DEF ClaimLockStation, CompleteLockStation, Others, TypeOK
<1>3. QED
  BY <1>1, <1>2 DEF Arrive

\* Rows and tasks of sessions.
LEMMA RequestTask ==
  ASSUME TypeOK, NEW r \in Requests, req[r].pc # "idle"
  PROVE  req[r].task \in Tasks /\ kds[req[r].task] \in Row
<1>1. req[r] \in Delivery \/ req[r] \in Work
  BY SessionShape
<1>2. req[r].task \in Tasks
  BY <1>1 DEF Delivery, Work
<1>3. QED
  BY <1>2 DEF TypeOK

\* A step of a request leaves the other requests and the other rows alone.
LEMMA KindBasics ==
  ASSUME TypeOK, NEW r \in Requests, Kind(r)
  PROVE  /\ req[r].pc # "idle" /\ req[r].task \in Tasks /\ kds[req[r].task] \in Row /\ Others(r)
         /\ \A t \in Tasks : t # req[r].task => kds'[t] = kds[t]
<1>1. req[r].pc # "idle"
  BY DEF Kind, Counts, Shows, Claims, Advances, Undoes, Finishes, Stops, Moves
<1>2. req[r].task \in Tasks /\ kds[req[r].task] \in Row
  BY <1>1, RequestTask
<1>3. Others(r)
  BY DEF Kind, Counts, Shows, Claims, Advances, Undoes, Finishes, Stops, Ends, Onward
<1>4. \A t \in Tasks : t # req[r].task => kds'[t] = kds[t]
  BY <1>2 DEF Kind, Counts, Shows, Claims, Advances, Undoes, Finishes, Stops, Writes, TypeOK
<1>5. QED
  BY <1>1, <1>2, <1>3, <1>4

-----------------------------------------------------------------------------
(* A claim that is committed and not answered *)

\* A task has one claim under way at most.
OneClaimant ==
  \A r, q \in Requests :
    req[r].pc \in ClaimPcs /\ req[q].pc \in ClaimPcs /\ req[r].task = req[q].task => r = q

\* While a claim is under way its row carries its name; a compensation that
\* would not take the row back has been overtaken by a completion.
ClaimStands ==
  \A r \in Requests : req[r].pc \in ClaimPcs =>
    LET row == kds[req[r].task] IN
    /\ row.status \in {"claimed", "completed"}
    /\ row.station_id = req[r].station /\ row.claimed_by = req[r].worker
    /\ req[r].pc # "refresh_task" => SawOwnClaim(r) \/ row.status = "completed"

ClaimInv == OneClaimant /\ ClaimStands

\* A session that is or becomes a claim under way was one, or commits its claim.
LEMMA KindClaims ==
  ASSUME TypeOK, NEW r \in Requests, Kind(r), req'[r].pc \in ClaimPcs
  PROVE  /\ req'[r].task = req[r].task
         /\ Claims(r) \/ (Advances(r) /\ req[r].pc \in ClaimPcs)
<1>1. Claims(r) \/ Advances(r)
  BY DEF Kind, Counts, Shows, Undoes, Finishes, Stops, Ends, Idle, ClaimPcs
<1>2. Advances(r) => req[r].pc \in ClaimPcs
  BY DEF Advances, Moves, Onward, ClaimPcs
<1>3. QED
  BY <1>1, <1>2 DEF Claims, Advances, Onward

\* A step of a request preserves ClaimInv.
LEMMA RequestClaimInv ==
  ASSUME TypeOK, ClaimInv, NEW r \in Requests, Kind(r)
  PROVE  ClaimInv'
<1> USE DEF ClaimInv, Kind
<1> DEFINE t == req[r].task
<1>1. req[r].pc # "idle" /\ t \in Tasks /\ kds[t] \in Row
  <2>1. req[r].pc # "idle"
    BY DEF Counts, Shows, Claims, Advances, Undoes, Finishes, Stops, Moves
  <2>2. QED
    BY <2>1, RequestTask
<1>2. Others(r) /\ Idle.pc \notin ClaimPcs
  BY DEF Counts, Shows, Claims, Advances, Undoes, Finishes, Stops, Ends, Onward, Idle, ClaimPcs
<1>3. ASSUME NEW q \in Requests, q # r, req[q].pc \in ClaimPcs
      PROVE  /\ req'[q] = req[q] /\ req[q].task \in Tasks
             /\ kds'[req[q].task].status \in {"claimed", "completed"}
             /\ kds'[req[q].task].station_id = kds[req[q].task].station_id
             /\ kds'[req[q].task].claimed_by = kds[req[q].task].claimed_by
             /\ kds[req[q].task].status = "completed" => kds'[req[q].task].status = "completed"
  <2>1. req'[q] = req[q]
    BY <1>2, <1>3 DEF Others
  <2>2. req[q].task \in Tasks
    BY <1>3, RequestTask DEF ClaimPcs
  <2>3. kds[req[q].task].status \in {"claimed", "completed"}
    BY <1>3 DEF ClaimStands
  <2>4. CASE kds' = kds
    BY <2>1, <2>2, <2>3, <2>4
  <2>5. CASE Shows(r) \/ Claims(r)
    BY <1>1, <2>1, <2>2, <2>3, <2>5 DEF Shows, Claims, Writes, TypeOK
  <2>6. CASE Undoes(r)
    <3>1. req[q].task # t
      BY <1>3, <2>6 DEF Undoes, OneClaimant, ClaimPcs
    <3>2. QED
      BY <2>1, <2>2, <2>3, <2>6, <3>1 DEF Undoes, Writes, TypeOK
  <2>7. CASE Finishes(r)
    <3>1. CASE req[q].task # t
      BY <2>1, <2>2, <2>3, <2>7, <3>1 DEF Finishes, Writes, TypeOK
    <3>2. CASE req[q].task = t
      <4>1. kds'[t] = [kds[t] EXCEPT !.status = "completed"]
        BY <1>1, <2>7 DEF Finishes, Writes, TypeOK
      <4>2. /\ kds'[t].status = "completed" /\ kds'[t].station_id = kds[t].station_id
            /\ kds'[t].claimed_by = kds[t].claimed_by
        BY <1>1, <4>1 DEF Row
      <4>3. QED
        BY <2>1, <2>2, <3>2, <4>2
    <3>3. QED
      BY <3>1, <3>2
  <2>8. QED
    BY <2>4, <2>5, <2>6, <2>7 DEF Counts, Advances, Stops
<1>4. ASSUME req'[r].pc \in ClaimPcs
      PROVE  /\ Claims(r) \/ (Advances(r) /\ req[r].pc \in ClaimPcs)
             /\ req'[r].task = t
  <2>1. Claims(r) \/ Advances(r)
    BY <1>2, <1>4 DEF Counts, Shows, Undoes, Finishes, Stops, Ends, ClaimPcs
  <2>2. Advances(r) => req[r].pc \in ClaimPcs
    BY <1>4 DEF Advances, Moves, Onward, ClaimPcs
  <2>3. QED
    BY <2>1, <2>2 DEF Claims, Advances, Onward
<1>5. OneClaimant'
  <2>1. ASSUME NEW q \in Requests, q # r, req[q].pc \in ClaimPcs, req'[r].pc \in ClaimPcs
        PROVE  req[q].task # t
    <3>1. CASE Claims(r)
      BY <2>1, <3>1 DEF Claims, ClaimStands
    <3>2. CASE req[r].pc \in ClaimPcs
      BY <2>1, <3>2 DEF OneClaimant
    <3>3. QED
      BY <1>4, <2>1, <3>1, <3>2
  <2>2. QED
    BY <1>2, <1>4, <2>1 DEF OneClaimant, Others
<1>6. ClaimStands'
  <2> SUFFICES ASSUME NEW q \in Requests, req'[q].pc \in ClaimPcs
               PROVE  /\ kds'[req'[q].task].status \in {"claimed", "completed"}
                      /\ kds'[req'[q].task].station_id = req'[q].station
                      /\ kds'[req'[q].task].claimed_by = req'[q].worker
                      /\ req'[q].pc # "refresh_task" =>
                           \/ /\ req'[q].seen_row.status = "claimed"
                              /\ req'[q].seen_row.claimed_by = req'[q].worker
                           \/ kds'[req'[q].task].status = "completed"
    BY DEF ClaimStands, SawOwnClaim
  <2>1. CASE q # r
    <3>1. req'[q] = req[q] /\ req[q].pc \in ClaimPcs
      BY <1>2, <2>1 DEF Others
    <3>2. QED
      BY <1>3, <2>1, <3>1 DEF ClaimStands, SawOwnClaim
  <2>2. CASE q = r /\ Claims(r)
    <3>1. kds'[t] = [kds[t] EXCEPT !.status = "claimed", !.claimed_by = req[r].worker]
      BY <1>1, <2>2 DEF Claims, Writes, TypeOK
    <3>2. /\ kds'[t].status = "claimed" /\ kds'[t].station_id = kds[t].station_id
          /\ kds'[t].claimed_by = req[r].worker
      BY <1>1, <3>1 DEF Row
    <3>3. QED
      BY <2>2, <3>2 DEF Claims, Onward
  <2>3. CASE q = r /\ Advances(r) /\ req[r].pc \in ClaimPcs
    <3>1. /\ req'[r].task = t /\ req'[r].worker = req[r].worker
          /\ req'[r].station = req[r].station /\ kds' = kds
      BY <2>3 DEF Advances, Onward
    <3>2. /\ kds[t].status \in {"claimed", "completed"}
          /\ kds[t].station_id = req[r].station /\ kds[t].claimed_by = req[r].worker
      BY <2>3 DEF ClaimStands
    <3>3. CASE req[r].pc = "refresh_task"
      BY <2>3, <3>1, <3>2, <3>3 DEF Advances
    <3>4. CASE req[r].pc # "refresh_task"
      <4>1. req'[r].seen_row = req[r].seen_row
        BY <2>3, <3>4 DEF Advances, Moves, ClaimPcs, Onward
      <4>2. QED
        BY <2>3, <3>1, <3>2, <3>4, <4>1 DEF ClaimStands, SawOwnClaim
    <3>5. QED
      BY <3>3, <3>4
  <2>4. QED
    BY <1>4, <2>1, <2>2, <2>3
<1>7. QED
  BY <1>5, <1>6

\* Steps that leave the rows and the claims under way alone preserve ClaimInv.
LEMMA QuietClaimInv ==
  ASSUME ClaimInv, kds' = kds,
         \A q \in Requests : req'[q].pc \in ClaimPcs => req'[q] = req[q]
  PROVE  ClaimInv'
  BY DEF ClaimInv, OneClaimant, ClaimStands, SawOwnClaim

\* Every step of the service preserves ClaimInv.
LEMMA NextClaimInv == IInv /\ ClaimInv /\ [Next]_vars => ClaimInv'
<1> SUFFICES ASSUME IInv, ClaimInv, [Next]_vars PROVE ClaimInv'
  OBVIOUS
<1> USE DEF IInv
<1>1. CASE Patch
  BY <1>1, QuietClaimInv DEF Patch, UpdateStationCapacity, UpdateStationStatus
<1>2. CASE UNCHANGED vars
  BY <1>2, QuietClaimInv DEF vars
<1>3. ASSUME NEW r \in Requests, Arrive(r) PROVE ClaimInv'
  BY <1>3, ArriveStep, QuietClaimInv DEF Others, ClaimPcs
<1>4. ASSUME NEW r \in Requests, Proceed(r) \/ DeadlockAbort(r) \/ Crash(r) PROVE ClaimInv'
  BY <1>4, RequestStep, RequestClaimInv
<1>5. QED
  BY <1>1, <1>2, <1>3, <1>4 DEF Next

\* Without any claim there is nothing to show.
LEMMA InitClaimInv == Init => ClaimInv
  BY DEF Init, Idle, ClaimInv, OneClaimant, ClaimStands, ClaimPcs

\* At any time a task has one claim under way at most, and its row is that of
\* the claim: no other claim, delivery or compensation touches it meanwhile.
THEOREM ClaimsUnderWay == Spec => []ClaimInv
  BY InitClaimInv, NextClaimInv, Invariance, PTL DEF Spec

\* A claim keeps its task from its commit to its answer, however claims,
\* completions and compensations of other requests interleave with its steps.
THEOREM ClaimsAreKept == Spec => []ClaimKept
<1>1. ClaimInv => ClaimKept
  BY DEF ClaimInv, OneClaimant, ClaimStands, ClaimKept
<1>2. QED
  BY <1>1, ClaimsUnderWay, PTL

-----------------------------------------------------------------------------
(* The backlog between its count and the insert *)

\* A delivery that has counted the backlog still finds what it counted: nobody
\* adds to the display of a station that is locked.
BacklogCounted ==
  \A r \in Requests : req[r].pc = "deliver_insert" =>
    /\ req[r].station \in Suitable[req[r].task]
    /\ Cardinality(Displayed(req[r].station)) < BacklogLimit[req[r].station]

BacklogInv == BacklogCounted /\ \A s \in Stations : IsFiniteSet(Displayed(s))

\* Where a step of a request leaves the rows alone there is nothing to show.
LEMMA QuietBacklog ==
  ASSUME BacklogInv, kds' = kds,
         \A q \in Requests : req'[q].pc = "deliver_insert" =>
           \/ req'[q] = req[q]
           \/ /\ req'[q].task = req[q].task /\ req'[q].station = req[q].station
              /\ MayDeliver(req[q].station, req[q].task)
  PROVE  BacklogInv'
<1>1. \A s : Displayed(s)' = Displayed(s)
  BY DEF Displayed
<1>2. BacklogCounted'
  BY <1>1 DEF BacklogInv, BacklogCounted, MayDeliver
<1>3. QED
  BY <1>1, <1>2 DEF BacklogInv

\* A request that writes a row adds to the display of no station another locked.
LEMMA LockedDisplay ==
  ASSUME IInv, ClaimInv, NEW r \in Requests, Kind(r), NEW q \in Requests, q # r,
         req[q].pc = "deliver_insert", NEW s \in Stations, req[q].station = s
  PROVE  Displayed(s)' \subseteq Displayed(s)
<1> DEFINE t == req[r].task
<1>0. TypeOK /\ t \in Tasks /\ kds[t] \in Row /\ \A u \in Tasks : u # t => kds'[u] = kds[u]
  BY KindBasics DEF IInv
<1>1. CASE kds' = kds
  BY <1>1 DEF Displayed
<1>2. CASE Shows(r)
  <2>1. req[r].station # s
    BY <1>2 DEF Shows, IInv, StationExclusive, HoldsStation
  <2>2. kds'[t].station_id = req[r].station
    BY <1>0, <1>2 DEF Shows, Writes, TypeOK
  <2>3. QED
    BY <1>0, <2>1, <2>2 DEF Displayed
<1>3. CASE Claims(r)
  <2>1. kds'[t] = [kds[t] EXCEPT !.status = "claimed", !.claimed_by = req[r].worker]
    BY <1>0, <1>3 DEF Claims, Writes, TypeOK
  <2>2. kds'[t].status = "claimed"
    BY <1>0, <2>1 DEF Row
  <2>3. QED
    BY <1>0, <2>2 DEF Displayed
<1>4. CASE Undoes(r)
  <2>1. req[r].station # s
    BY <1>4 DEF Undoes, StationLocked, HoldsStation
  <2>2. kds'[t] = [kds[t] EXCEPT !.status = "displayed", !.claimed_by = NULL]
    BY <1>0, <1>4 DEF Undoes, Writes, TypeOK
  <2>3. kds'[t].station_id = kds[t].station_id
    BY <1>0, <2>2 DEF Row
  <2>4. kds[t].station_id = req[r].station
    BY <1>4 DEF Undoes, ClaimInv, ClaimStands, ClaimPcs
  <2>5. QED
    BY <1>0, <2>1, <2>3, <2>4 DEF Displayed
<1>5. CASE Finishes(r)
  <2>1. kds'[t] = [kds[t] EXCEPT !.status = "completed"]
    BY <1>0, <1>5 DEF Finishes, Writes, TypeOK
  <2>2. kds'[t].status = "completed"
    BY <1>0, <2>1 DEF Row
  <2>3. QED
    BY <1>0, <2>2 DEF Displayed
<1>6. QED
  BY <1>1, <1>2, <1>3, <1>4, <1>5 DEF Kind, Counts, Advances, Stops

\* A request that writes a row is not a delivery afterwards.
LEMMA WriterEnds ==
  ASSUME NEW r \in Requests, Kind(r), kds' # kds
  PROVE  req'[r].pc # "deliver_insert"
  BY DEF Kind, Counts, Shows, Claims, Advances, Undoes, Finishes, Stops, Ends, Onward, Idle

\* Every step of the service preserves BacklogInv.
LEMMA NextBacklog == IInv /\ ClaimInv /\ BacklogInv /\ [Next]_vars => BacklogInv'
<1> SUFFICES ASSUME IInv, ClaimInv, BacklogInv, [Next]_vars PROVE BacklogInv'
  OBVIOUS
<1>0. TypeOK
  BY DEF IInv
<1>1. CASE Patch \/ UNCHANGED vars
  BY <1>1, QuietBacklog DEF vars, Patch, UpdateStationCapacity, UpdateStationStatus
<1>2. ASSUME NEW r \in Requests, Arrive(r) PROVE BacklogInv'
  BY <1>0, <1>2, ArriveStep, QuietBacklog DEF Others
<1>3. ASSUME NEW r \in Requests, Proceed(r) \/ DeadlockAbort(r) \/ Crash(r) PROVE BacklogInv'
  <2>1. Kind(r) /\ Others(r)
    BY <1>0, <1>3, RequestStep, KindBasics
  <2>2. CASE kds' = kds
    <3>1. req'[r].pc = "deliver_insert" => Counts(r)
      BY <2>1
      DEF Kind, Shows, Claims, Advances, Moves, Undoes, Finishes, Stops, Ends, Onward, Idle
    <3>2. QED
      BY <2>1, <2>2, <3>1, QuietBacklog DEF Others, Counts
  <2>3. CASE kds' # kds
    <3>1. /\ req[r].task \in Tasks
          /\ \A u \in Tasks : u # req[r].task => kds'[u] = kds[u]
      BY <1>0, <2>1, KindBasics
    <3>2. ASSUME NEW s \in Stations PROVE IsFiniteSet(Displayed(s)')
      <4>1. Displayed(s)' \subseteq Displayed(s) \union {req[r].task}
        BY <3>1 DEF Displayed
      <4>2. IsFiniteSet(Displayed(s) \union {req[r].task})
        BY FS_AddElement DEF BacklogInv
      <4>3. QED
        BY <4>1, <4>2, FS_Subset
    <3>3. BacklogCounted'
      <4> SUFFICES ASSUME NEW q \in Requests, req'[q].pc = "deliver_insert"
                   PROVE  \E s \in Stations :
                            /\ s = req'[q].station /\ s \in Suitable[req'[q].task]
                            /\ Cardinality(Displayed(s)') < BacklogLimit[s]
        BY DEF BacklogCounted, Displayed
      <4>1. q # r /\ req'[q] = req[q]
        BY <2>1, <2>3, WriterEnds DEF Others
      <4>2. PICK s \in Stations : s = req[q].station
        BY <1>0, <4>1, SessionShape DEF DeliverPcs, Delivery
      <4>3. Displayed(s)' \subseteq Displayed(s) /\ IsFiniteSet(Displayed(s))
        BY <2>1, <4>1, <4>2, LockedDisplay DEF BacklogInv
      <4>4. /\ Cardinality(Displayed(s)') <= Cardinality(Displayed(s))
            /\ Cardinality(Displayed(s)') \in Nat /\ Cardinality(Displayed(s)) \in Nat
        BY <4>3, FS_Subset, FS_CardinalityType
      <4>5. /\ s \in Suitable[req[q].task]
            /\ Cardinality(Displayed(s)) < BacklogLimit[s] /\ BacklogLimit[s] \in Nat
        BY <4>1, <4>2, BacklogLimitType DEF BacklogInv, BacklogCounted
      <4>6. QED
        BY <4>1, <4>2, <4>4, <4>5
    <3>4. QED
      BY <3>2, <3>3 DEF BacklogInv
  <2>4. QED
    BY <2>2, <2>3
<1>4. QED
  BY <1>1, <1>2, <1>3 DEF Next

\* What a delivery counted holds until it inserts its row.
THEOREM BacklogStaysCounted == Spec => []BacklogInv
<1>1. Init => BacklogInv
  <2> SUFFICES ASSUME Init PROVE BacklogInv
    OBVIOUS
  <2>1. \A s \in Stations : Displayed(s) = {}
    BY DEF Init, Displayed, Absent
  <2>2. QED
    BY <2>1, FS_EmptySet DEF Init, Idle, BacklogInv, BacklogCounted
<1>2. QED
  BY <1>1, NextBacklog, Invariance, ClaimsUnderWay, PTL DEF Spec

\* A task is shown for the first time only where there is room for it when it is
\* inserted, although the backlog was counted one step before: a delivery holds
\* its station meanwhile, and a compensation, which waits for the station too,
\* shows only what was shown before.
THEOREM DeliveriesFindRoom == Spec => DeliveryWithinBacklog
<1>1. ASSUME IInv, ClaimInv, BacklogInv, [Next]_vars PROVE [DeliveryStep]_vars
  <2> SUFFICES ASSUME NEW t \in Tasks, kds[t].status = "absent", kds'[t].status = "displayed"
               PROVE  \E s \in Stations :
                        /\ s = kds'[t].station_id
                        /\ s \in Suitable[t] /\ Cardinality(Displayed(s)) < BacklogLimit[s]
    BY DEF DeliveryStep
  <2>1. TypeOK /\ kds' # kds
    BY <1>1 DEF IInv
  <2>2. PICK r \in Requests : Proceed(r) \/ DeadlockAbort(r) \/ Crash(r)
    BY <1>1, <2>1, ArriveStep
    DEF Next, vars, Patch, UpdateStationCapacity, UpdateStationStatus
  <2>3. Kind(r)
    BY <2>1, <2>2, RequestStep
  <2>4. req[r].task = t /\ kds[t] \in Row
    BY <2>1, <2>3, KindBasics
  <2>5. ~Claims(r) /\ ~Undoes(r) /\ ~Finishes(r)
    <3>1. ~Claims(r)
      BY <2>4 DEF Claims
    <3>2. ~Undoes(r)
      BY <1>1, <2>4 DEF Undoes, ClaimInv, ClaimStands, ClaimPcs
    <3>3. ASSUME Finishes(r) PROVE FALSE
      <4>1. kds'[t] = [kds[t] EXCEPT !.status = "completed"]
        BY <2>1, <2>4, <3>3 DEF Finishes, Writes, TypeOK
      <4>2. QED
        BY <2>4, <4>1 DEF Row
    <3>4. QED
      BY <3>1, <3>2, <3>3
  <2>6. Shows(r)
    BY <2>1, <2>3, <2>5 DEF Kind, Counts, Advances, Stops
  <2>7. req[r].station \in Stations
    BY <2>1, <2>6, SessionShape DEF Shows, Delivery, DeliverPcs
  <2>8. kds'[t].station_id = req[r].station
    BY <2>1, <2>4, <2>6 DEF Shows, Writes, TypeOK
  <2>9. QED
    BY <1>1, <2>4, <2>6, <2>7, <2>8 DEF Shows, BacklogInv, BacklogCounted
<1>2. QED
  BY <1>1, Invariance, ClaimsUnderWay, BacklogStaysCounted, PTL DEF Spec, DeliveryWithinBacklog

-----------------------------------------------------------------------------
(* The display beyond its limit *)

\* Tasks a claim under way may put back on the display of station s.
MayReturn(s) == {req[r].task : r \in {q \in Requests : req[q].pc \in ClaimPcs /\ req[q].station = s}}

\* What station s shows or may be made to show without another delivery.
MayBeShown(s) == Displayed(s) \union MayReturn(s)

OverrunInv ==
  \A s \in Stations :
    /\ IsFiniteSet(MayBeShown(s))
    /\ Cardinality(MayBeShown(s)) <= BacklogLimit[s] + Cardinality(Requests) - 1

\* Only a delivery adds to what may be shown.
LEMMA OnlyShowsAdds ==
  ASSUME TypeOK, ClaimInv, NEW r \in Requests, Kind(r), ~Shows(r), NEW s \in Stations
  PROVE  MayBeShown(s)' \subseteq MayBeShown(s)
<1> DEFINE t == req[r].task
<1>1. /\ t \in Tasks /\ kds[t] \in Row /\ Others(r)
      /\ \A u \in Tasks : u # t => kds'[u] = kds[u]
  BY KindBasics
<1>2. ASSUME NEW u \in Displayed(s)' PROVE u \in MayBeShown(s)
  <2>1. u \in Tasks /\ kds'[u].status = "displayed" /\ kds'[u].station_id = s
    BY DEF Displayed
  <2>2. CASE kds'[u] = kds[u]
    BY <2>1, <2>2 DEF MayBeShown, Displayed
  <2>3. CASE kds'[u] # kds[u]
    <3>1. u = t /\ kds' # kds
      BY <1>1, <2>1, <2>3
    <3>2. CASE Claims(r)
      <4>1. kds'[t] = [kds[t] EXCEPT !.status = "claimed", !.claimed_by = req[r].worker]
        BY <1>1, <3>2 DEF Claims, Writes, TypeOK
      <4>2. QED
        BY <1>1, <2>1, <3>1, <4>1 DEF Row
    <3>3. CASE Finishes(r)
      <4>1. kds'[t] = [kds[t] EXCEPT !.status = "completed"]
        BY <1>1, <3>3 DEF Finishes, Writes, TypeOK
      <4>2. QED
        BY <1>1, <2>1, <3>1, <4>1 DEF Row
    <3>4. CASE Undoes(r)
      <4>1. kds'[t] = [kds[t] EXCEPT !.status = "displayed", !.claimed_by = NULL]
        BY <1>1, <3>4 DEF Undoes, Writes, TypeOK
      <4>2. kds'[t].station_id = kds[t].station_id
        BY <1>1, <4>1 DEF Row
      <4>3. req[r].pc \in ClaimPcs /\ kds[t].station_id = req[r].station
        BY <3>4 DEF Undoes, ClaimPcs, ClaimInv, ClaimStands
      <4>4. QED
        BY <2>1, <3>1, <4>2, <4>3 DEF MayBeShown, MayReturn
    <3>5. QED
      BY <3>1, <3>2, <3>3, <3>4 DEF Kind, Counts, Advances, Stops
  <2>4. QED
    BY <2>2, <2>3
<1>3. ASSUME NEW u \in MayReturn(s)' PROVE u \in MayBeShown(s)
  <2>1. PICK q \in Requests : req'[q].pc \in ClaimPcs /\ req'[q].station = s /\ u = req'[q].task
    BY DEF MayReturn
  <2>2. CASE q # r
    BY <1>1, <2>1, <2>2 DEF Others, MayBeShown, MayReturn
  <2>3. CASE q = r
    <3>1. req'[r].task = t /\ (Claims(r) \/ (Advances(r) /\ req[r].pc \in ClaimPcs))
      BY <2>1, <2>3, KindClaims
    <3>2. req'[r].station = req[r].station
      BY <3>1 DEF Claims, Advances, Onward
    <3>3. CASE Claims(r)
      BY <1>1, <2>1, <2>3, <3>1, <3>2, <3>3 DEF Claims, MayBeShown, Displayed
    <3>4. CASE req[r].pc \in ClaimPcs
      BY <2>1, <2>3, <3>1, <3>2, <3>4 DEF MayBeShown, MayReturn
    <3>5. QED
      BY <3>1, <3>3, <3>4
  <2>4. QED
    BY <2>2, <2>3
<1>4. QED
  BY <1>2, <1>3 DEF MayBeShown

\* The delivery leaves one request fewer to claim, and there is room for it.
LEMMA ShowsOverrun ==
  ASSUME IInv, BacklogInv, OverrunInv, IsFiniteSet(Requests), NEW r \in Requests, Kind(r),
         Shows(r), NEW s \in Stations
  PROVE  /\ IsFiniteSet(MayBeShown(s)')
         /\ Cardinality(MayBeShown(s)') <= BacklogLimit[s] + Cardinality(Requests) - 1
<1> DEFINE t == req[r].task
           L == BacklogLimit[s]
           R == Cardinality(Requests)
<1>0. /\ t \in Tasks /\ Others(r) /\ TypeOK
      /\ \A u \in Tasks : u # t => kds'[u] = kds[u]
  BY KindBasics DEF IInv
<1>1. MayReturn(s)' \subseteq MayReturn(s)
  <2>1. req'[r].pc \notin ClaimPcs
    BY DEF Shows, Ends, Idle, ClaimPcs
  <2>2. QED
    BY <1>0, <2>1 DEF MayReturn, Others
<1>2. kds'[t] = [status |-> "displayed", station_id |-> req[r].station, claimed_by |-> NULL]
  BY <1>0 DEF Shows, Writes, TypeOK
<1>3. CASE req[r].station # s
  <2>1. Displayed(s)' \subseteq Displayed(s)
    BY <1>0, <1>2, <1>3 DEF Displayed
  <2>2. MayBeShown(s)' \subseteq MayBeShown(s)
    BY <1>1, <2>1 DEF MayBeShown
  <2>3. /\ IsFiniteSet(MayBeShown(s)') /\ Cardinality(MayBeShown(s)') <= Cardinality(MayBeShown(s))
        /\ IsFiniteSet(MayBeShown(s))
    BY <2>2, FS_Subset DEF OverrunInv
  <2>4. Cardinality(MayBeShown(s)') \in Nat /\ Cardinality(MayBeShown(s)) \in Nat /\ R \in Nat /\ L \in Nat
    BY <2>3, FS_CardinalityType, BacklogLimitType
  <2>5. QED
    BY <2>3, <2>4 DEF OverrunInv
<1>4. CASE req[r].station = s
  <2>1. Cardinality(Displayed(s)) < L
    BY <1>4 DEF Shows, BacklogInv, BacklogCounted
  <2>2. IsFiniteSet(Displayed(s))
    <3>1. IsFiniteSet(MayBeShown(s)) /\ Displayed(s) \in SUBSET MayBeShown(s)
      BY DEF OverrunInv, MayBeShown
    <3>2. QED
      BY <3>1, FS_Subset
  <2>3. Displayed(s)' \subseteq Displayed(s) \union {t}
    BY <1>0 DEF Displayed
  <2> DEFINE Claimants == {q \in Requests : req[q].pc \in ClaimPcs /\ req[q].station = s}
             f == [q \in Claimants |-> req[q].task]
  <2>4. IsFiniteSet(Requests \ {r}) /\ Cardinality(Requests \ {r}) = R - 1 /\ R \in Nat
    BY FS_RemoveElement, FS_CardinalityType
  <2>5. Claimants \subseteq Requests \ {r}
    BY DEF Shows, ClaimPcs
  <2>6. IsFiniteSet(Claimants) /\ Cardinality(Claimants) <= R - 1 /\ Cardinality(Claimants) \in Nat
    BY <2>4, <2>5, FS_Subset, FS_CardinalityType
  <2>7. f \in Surjection(Claimants, MayReturn(s))
    BY DEF Surjection, MayReturn
  <2>8. IsFiniteSet(MayReturn(s)) /\ Cardinality(MayReturn(s)) <= R - 1 /\ Cardinality(MayReturn(s)) \in Nat
    <3> HIDE DEF f, Claimants
    <3>1. IsFiniteSet(MayReturn(s)) /\ Cardinality(MayReturn(s)) <= Cardinality(Claimants)
      BY <2>6, <2>7, FS_Surjection
    <3>2. Cardinality(MayReturn(s)) \in Nat
      BY <3>1, FS_CardinalityType
    <3>3. QED
      BY <2>4, <2>6, <3>1, <3>2
  <2> DEFINE D == Displayed(s) \union {t}
  <2>9. IsFiniteSet(D) /\ Cardinality(D) <= L /\ Cardinality(D) \in Nat
    <3>1. Cardinality(Displayed(s)) \in Nat /\ L \in Nat
      BY <2>2, FS_CardinalityType, BacklogLimitType
    <3>2. IsFiniteSet(D) /\ (Cardinality(D) = Cardinality(Displayed(s)) + 1
                             \/ Cardinality(D) = Cardinality(Displayed(s)))
      BY <2>2, FS_AddElement
    <3>3. QED
      BY <2>1, <3>1, <3>2
  <2> HIDE DEF D
  <2>10. /\ IsFiniteSet(D \union MayReturn(s)) /\ Cardinality(D \union MayReturn(s)) \in Nat
         /\ Cardinality(D \union MayReturn(s)) <= Cardinality(D) + Cardinality(MayReturn(s))
    <3>1. /\ IsFiniteSet(D \union MayReturn(s))
          /\ Cardinality(D \union MayReturn(s)) =
               Cardinality(D) + Cardinality(MayReturn(s)) - Cardinality(D \intersect MayReturn(s))
      BY <2>8, <2>9, FS_Union
    <3>2. IsFiniteSet(D \intersect MayReturn(s))
      BY <2>9, FS_Subset
    <3>3. Cardinality(D \intersect MayReturn(s)) \in Nat /\ Cardinality(D \union MayReturn(s)) \in Nat
      BY <3>1, <3>2, FS_CardinalityType
    <3>4. QED
      BY <2>8, <2>9, <3>1, <3>3
  <2>11. MayBeShown(s)' \subseteq D \union MayReturn(s)
    BY <1>1, <2>3 DEF MayBeShown, D
  <2>12. /\ IsFiniteSet(MayBeShown(s)')
         /\ Cardinality(MayBeShown(s)') <= Cardinality(D \union MayReturn(s))
    BY <2>10, <2>11, FS_Subset
  <2>13. Cardinality(MayBeShown(s)') \in Nat /\ L \in Nat
    BY <2>12, FS_CardinalityType, BacklogLimitType
  <2>14. QED
    BY <2>4, <2>8, <2>9, <2>10, <2>12, <2>13
<1>5. QED
  BY <1>3, <1>4

\* Steps after which no more may be shown than before.
LEMMA ShrinkingOverrun ==
  ASSUME OverrunInv, IsFiniteSet(Requests), \A s \in Stations : MayBeShown(s)' \subseteq MayBeShown(s)
  PROVE  OverrunInv'
<1> SUFFICES ASSUME NEW s \in Stations
             PROVE  /\ IsFiniteSet(MayBeShown(s)')
                    /\ Cardinality(MayBeShown(s)') <= BacklogLimit[s] + Cardinality(Requests) - 1
  BY DEF OverrunInv
<1>1. /\ IsFiniteSet(MayBeShown(s)) /\ IsFiniteSet(MayBeShown(s)')
      /\ Cardinality(MayBeShown(s)') <= Cardinality(MayBeShown(s))
  BY FS_Subset DEF OverrunInv
<1>2. /\ Cardinality(MayBeShown(s)) \in Nat /\ Cardinality(MayBeShown(s)') \in Nat
      /\ Cardinality(Requests) \in Nat /\ BacklogLimit[s] \in Nat
  BY <1>1, FS_CardinalityType, BacklogLimitType
<1>3. QED
  BY <1>1, <1>2 DEF OverrunInv

LEMMA NextOverrun ==
  ASSUME IsFiniteSet(Requests), IInv, ClaimInv, BacklogInv, OverrunInv, [Next]_vars
  PROVE  OverrunInv'
<1>1. TypeOK
  BY DEF IInv
<1>2. CASE kds' = kds /\ \A q \in Requests : req'[q].pc \in ClaimPcs => req'[q] = req[q]
  <2>1. \A s \in Stations : MayBeShown(s)' \subseteq MayBeShown(s)
    BY <1>2 DEF MayBeShown, Displayed, MayReturn
  <2>2. QED
    BY <2>1, ShrinkingOverrun
<1>3. ASSUME NEW r \in Requests, Arrive(r)
      PROVE  kds' = kds /\ \A q \in Requests : req'[q].pc \in ClaimPcs => req'[q] = req[q]
  BY <1>1, <1>3, ArriveStep DEF Others, ClaimPcs
<1>4. ASSUME NEW r \in Requests, Proceed(r) \/ DeadlockAbort(r) \/ Crash(r)
      PROVE  OverrunInv'
  <2>1. Kind(r)
    BY <1>1, <1>4, RequestStep
  <2>2. CASE ~Shows(r)
    BY <1>1, <2>1, <2>2, OnlyShowsAdds, ShrinkingOverrun
  <2>3. CASE Shows(r)
    BY <2>1, <2>3, ShowsOverrun DEF OverrunInv
  <2>4. QED
    BY <2>2, <2>3
<1>5. CASE Patch \/ UNCHANGED vars
  BY <1>2, <1>5 DEF Patch, UpdateStationCapacity, UpdateStationStatus, vars
<1>6. QED
  BY <1>2, <1>3, <1>4, <1>5 DEF Next

\* However claims, their compensations and deliveries interleave, a display
\* exceeds its visible_backlog_limit by fewer tasks than there are requests in
\* progress; with one request at a time it never does.
THEOREM OverrunStaysBounded ==
  ASSUME IsFiniteSet(Requests), Requests # {}
  PROVE  Spec => []OverrunIsBounded
<1>1. Cardinality(Requests) \in Nat \ {0}
  BY FS_CardinalityType, FS_EmptySet
<1>2. Init => OverrunInv
  <2> SUFFICES ASSUME Init, NEW s \in Stations
               PROVE  /\ IsFiniteSet(MayBeShown(s))
                      /\ Cardinality(MayBeShown(s)) <= BacklogLimit[s] + Cardinality(Requests) - 1
    BY DEF OverrunInv
  <2>1. MayBeShown(s) = {}
    BY DEF Init, MayBeShown, Displayed, MayReturn, Absent, Idle, ClaimPcs
  <2>2. QED
    BY <1>1, <2>1, FS_EmptySet, BacklogLimitType
<1>3. IInv /\ ClaimInv /\ BacklogInv /\ OverrunInv /\ [Next]_vars => OverrunInv'
  BY NextOverrun
<1>4. OverrunInv => OverrunIsBounded
  <2> SUFFICES ASSUME OverrunInv, NEW s \in Stations
               PROVE  Cardinality(Displayed(s)) <= BacklogLimit[s] + Cardinality(Requests) - 1
    BY DEF OverrunIsBounded
  <2>1. /\ IsFiniteSet(MayBeShown(s)) /\ IsFiniteSet(Displayed(s))
        /\ Cardinality(Displayed(s)) <= Cardinality(MayBeShown(s))
    BY FS_Subset DEF OverrunInv, MayBeShown
  <2>2. /\ Cardinality(MayBeShown(s)) \in Nat /\ Cardinality(Displayed(s)) \in Nat
        /\ BacklogLimit[s] \in Nat
    BY <2>1, FS_CardinalityType, BacklogLimitType
  <2>3. QED
    BY <1>1, <2>1, <2>2 DEF OverrunInv
<1>5. QED
  BY <1>2, <1>3, <1>4, Invariance, ClaimsUnderWay, BacklogStaysCounted, PTL DEF Spec

-----------------------------------------------------------------------------
(* Slots when requests come one at a time *)

CompletePcs == {"complete_call", "final_station", "final_task"}

\* A request that is to release a slot holds a claimed task of its station ...
HoldsClaim(r) ==
  req[r].pc \in ClaimPcs \union CompletePcs =>
    kds[req[r].task].status = "claimed" /\ kds[req[r].task].station_id = req[r].station

\* ... and what it read of busy_slots is current when it writes it back.
BusyCurrent(r) ==
  req[r].pc \in {"start_call", "comp_task", "comp_station"} \union CompletePcs =>
    req[r].seen_busy = busy_slots[req[r].station]

SerialInv == SlotAccounting /\ \A r \in Requests : HoldsClaim(r) /\ BusyCurrent(r)

\* Claimed tasks, counted before and after a row is written.
LEMMA ClaimedCount ==
  ASSUME TypeOK, IsFiniteSet(Tasks), NEW t \in Tasks, NEW s \in Stations, NEW row,
         kds' = [kds EXCEPT ![t] = row], row.station_id = s, kds[t].station_id = s
  PROVE  /\ Cardinality(Claimed(s)) \in Nat
         /\ row.status = "claimed" /\ kds[t].status # "claimed" =>
              Cardinality(Claimed(s)') = Cardinality(Claimed(s)) + 1
         /\ row.status # "claimed" /\ kds[t].status = "claimed" =>
              Cardinality(Claimed(s)') = Cardinality(Claimed(s)) - 1 /\ Cardinality(Claimed(s)) # 0
         /\ \A u \in Stations \ {s} : Claimed(u)' = Claimed(u)
<1>1. kds'[t] = row /\ \A x \in Tasks \ {t} : kds'[x] = kds[x]
  BY DEF TypeOK
<1>2. \A u \in Stations \ {s} : Claimed(u)' = Claimed(u)
  BY <1>1 DEF Claimed
<1>3. IsFiniteSet(Claimed(s)) /\ Cardinality(Claimed(s)) \in Nat
  BY FS_Subset, FS_CardinalityType DEF Claimed
<1>4. ASSUME row.status = "claimed", kds[t].status # "claimed"
      PROVE  Cardinality(Claimed(s)') = Cardinality(Claimed(s)) + 1
  <2>1. Claimed(s)' = Claimed(s) \union {t} /\ t \notin Claimed(s)
    BY <1>1, <1>4 DEF Claimed
  <2>2. QED
    BY <1>3, <2>1, FS_AddElement
<1>5. ASSUME row.status # "claimed", kds[t].status = "claimed"
      PROVE  Cardinality(Claimed(s)') = Cardinality(Claimed(s)) - 1 /\ Cardinality(Claimed(s)) # 0
  <2>1. Claimed(s)' = Claimed(s) \ {t} /\ t \in Claimed(s)
    BY <1>1, <1>5 DEF Claimed
  <2>2. Cardinality(Claimed(s)') = Cardinality(Claimed(s)) - 1
    BY <1>3, <2>1, FS_RemoveElement
  <2>3. Cardinality(Claimed(s)) # 0
    BY <1>3, <2>1, FS_EmptySet
  <2>4. QED
    BY <2>2, <2>3
<1>6. QED
  BY <1>2, <1>3, <1>4, <1>5

\* Steps that leave claimed rows and busy_slots alone.
LEMMA QuietSerial ==
  ASSUME SerialInv, busy_slots' = busy_slots, \A s \in Stations : Claimed(s)' = Claimed(s),
         \A r \in Requests : HoldsClaim(r)' /\ BusyCurrent(r)'
  PROVE  SerialInv'
  BY DEF SerialInv, SlotAccounting

\* A request that ends, or has not yet claimed, relies on nothing.
LEMMA NoClaimHeld ==
  ASSUME NEW r, req'[r].pc \notin ClaimPcs \union CompletePcs
  PROVE  HoldsClaim(r)' /\ BusyCurrent(r)'
  BY DEF HoldsClaim, BusyCurrent, ClaimPcs, CompletePcs

\* A request releases the slot of the task it takes off its station's claimed ones.
LEMMA ReleasedSerial ==
  ASSUME IInv, SerialInv, \A q, p \in Requests : q = p, IsFiniteSet(Tasks),
         NEW r \in Requests, req[r] \in Work, req[r].pc \in {"comp_station", "final_task"},
         End(r), ReleaseSlot(r), NEW row, row.status # "claimed", row.station_id = req[r].station,
         kds' = [kds EXCEPT ![req[r].task] = row]
  PROVE  SerialInv'
<1> PICK s \in Stations, t \in Tasks : s = req[r].station /\ t = req[r].task
  BY DEF Work
<1>1. HoldsClaim(r) /\ BusyCurrent(r) /\ busy_slots \in [Stations -> 0..MaxCapacity]
  BY DEF SerialInv, IInv, TypeOK
<1>2. /\ kds[t].status = "claimed" /\ kds[t].station_id = s /\ req[r].seen_busy = busy_slots[s]
  BY <1>1 DEF HoldsClaim, BusyCurrent, ClaimPcs, CompletePcs
<1>3. /\ Cardinality(Claimed(s)') = Cardinality(Claimed(s)) - 1 /\ Cardinality(Claimed(s)) # 0
      /\ \A u \in Stations \ {s} : Claimed(u)' = Claimed(u)
  BY <1>2, ClaimedCount DEF IInv
<1>4. busy_slots[s] = Cardinality(Claimed(s))
  BY DEF SerialInv, SlotAccounting
<1>5. busy_slots' = [busy_slots EXCEPT ![s] = busy_slots[s] - 1]
  BY <1>2, <1>3, <1>4 DEF ReleaseSlot
<1>6. SlotAccounting'
  BY <1>1, <1>3, <1>4, <1>5 DEF SerialInv, SlotAccounting
<1>7. req'[r].pc \notin ClaimPcs \union CompletePcs
  BY DEF End, IInv, TypeOK, Idle, ClaimPcs, CompletePcs
<1>8. QED
  BY <1>6, <1>7, NoClaimHeld DEF SerialInv

\* A request ends without a write.
LEMMA EndSerial ==
  ASSUME IInv, SerialInv, \A q, p \in Requests : q = p, NEW r \in Requests, End(r),
         busy_slots' = busy_slots, \A s \in Stations : Claimed(s)' = Claimed(s)
  PROVE  SerialInv'
<1>1. req'[r].pc \notin ClaimPcs \union CompletePcs
  BY DEF End, IInv, TypeOK, Idle, ClaimPcs, CompletePcs
<1>2. QED
  BY <1>1, NoClaimHeld, QuietSerial

\* A request goes on with what it holds and knows.
LEMMA MoveSerial ==
  ASSUME IInv, SerialInv, \A q, p \in Requests : q = p, NEW r \in Requests, req[r] \in Work,
         UNCHANGED <<busy_slots, kds>>, NEW w \in Work, req' = [req EXCEPT ![r] = w],
         w.task = req[r].task, w.station = req[r].station,
         \/ w.pc \notin ClaimPcs \union CompletePcs
         \/ /\ \/ req[r].pc \in ClaimPcs \union CompletePcs
               \/ kds[w.task].status = "claimed" /\ kds[w.task].station_id = w.station
            /\ \/ w.pc \in {"refresh_task", "refresh_station"}
               \/ w.seen_busy = busy_slots[w.station]
  PROVE  SerialInv'
<1>1. req'[r] = w /\ \A s \in Stations : Claimed(s)' = Claimed(s)
  BY DEF IInv, TypeOK, Claimed
<1>2. CASE w.pc \notin ClaimPcs \union CompletePcs
  BY <1>1, <1>2, NoClaimHeld, QuietSerial
<1>3. CASE w.pc \in ClaimPcs \union CompletePcs
  <2>1. kds[w.task].status = "claimed" /\ kds[w.task].station_id = w.station
    BY <1>3 DEF SerialInv, HoldsClaim
  <2>2. w.pc \in {"refresh_task", "refresh_station"} \/ w.seen_busy = busy_slots[w.station]
    BY <1>3
  <2>3. HoldsClaim(r)' /\ BusyCurrent(r)'
    BY <1>1, <2>1, <2>2 DEF HoldsClaim, BusyCurrent, CompletePcs
  <2>4. QED
    BY <1>1, <2>3, QuietSerial
<1>4. QED
  BY <1>2, <1>3

\* A request moves on and keeps the rest.
LEMMA GoToSerial ==
  ASSUME IInv, SerialInv, \A q, p \in Requests : q = p, NEW r \in Requests,
         NEW pc \in {"comp_task", "comp_station", "final_station", "final_task"}, GoTo(r, pc),
         req[r].pc \in {"start_call", "comp_task", "complete_call", "final_station"},
         UNCHANGED <<busy_slots, kds>>
  PROVE  SerialInv'
<1>1. req[r] \in Work /\ pc \in Pcs
  BY SessionShape DEF IInv, Pcs, WaitsForTask, HoldsTask, HoldsNothing
<1> PICK w : w = [req[r] EXCEPT !.pc = pc]
  OBVIOUS
<1>2. /\ w \in Work /\ w.task = req[r].task /\ w.station = req[r].station
      /\ w.seen_busy = req[r].seen_busy
  BY <1>1 DEF Work, Pcs
<1>3. req' = [req EXCEPT ![r] = w]
  BY DEF GoTo
<1>4. req[r].pc \in ClaimPcs \union CompletePcs /\ w.seen_busy = busy_slots[w.station]
  BY <1>2 DEF SerialInv, BusyCurrent, ClaimPcs, CompletePcs
<1>5. QED
  BY <1>1, <1>2, <1>3, <1>4, MoveSerial

\* A claim takes one slot when it claims the task.
LEMMA ClaimingSerial ==
  ASSUME IInv, SerialInv, \A q, p \in Requests : q = p, IsFiniteSet(Tasks),
         NEW r \in Requests, Claiming(r)
  PROVE  SerialInv'
<1>1. CASE ClaimCommit(r)
  <2>1. req[r] \in Work /\ req[r].pc = "claim_task"
    BY <1>1, SessionShape DEF IInv, ClaimCommit, Pcs, WaitsForTask
  <2>2. CASE End(r) /\ UNCHANGED <<stationVars, kds>>
    BY <2>2, EndSerial DEF stationVars, Claimed
  <2>3. CASE ~(End(r) /\ UNCHANGED <<stationVars, kds>>)
    <3> PICK s \in Stations, t \in Tasks : s = req[r].station /\ t = req[r].task
      BY <2>1 DEF Work
    <3> DEFINE row == [kds[t] EXCEPT !.status = "claimed", !.claimed_by = req[r].worker]
    <3>1. /\ kds[t].status = "displayed" /\ kds[t].station_id = s
          /\ kds' = [kds EXCEPT ![t] = row]
          /\ busy_slots' = [busy_slots EXCEPT ![s] = req[r].seen_busy + 1]
          /\ GoTo(r, "refresh_task")
      BY <1>1, <2>3 DEF ClaimCommit, MayClaim
    <3>2. row.status = "claimed" /\ row.station_id = s
      BY <3>1 DEF IInv, TypeOK, Row
    <3> HIDE DEF row
    <3>3. /\ Cardinality(Claimed(s)') = Cardinality(Claimed(s)) + 1
          /\ \A u \in Stations \ {s} : Claimed(u)' = Claimed(u)
      BY <3>1, <3>2, ClaimedCount DEF IInv
    <3>4. req[r].seen_busy = Cardinality(Claimed(s)) /\ busy_slots \in [Stations -> 0..MaxCapacity]
      BY <2>1 DEF IInv, TypeOK, SeenCurrent, SerialInv, SlotAccounting
    <3>5. SlotAccounting'
      BY <3>1, <3>3, <3>4 DEF SerialInv, SlotAccounting
    <3>6. Onward(r, "refresh_task")
      BY <2>1, <3>1, GoToOnward DEF IInv, Pcs, WaitsForTask, HoldsNothing
    <3>7. HoldsClaim(r)' /\ BusyCurrent(r)'
      BY <3>1, <3>2, <3>6 DEF Onward, HoldsClaim, BusyCurrent, CompletePcs, IInv, TypeOK
    <3>8. QED
      BY <3>5, <3>7 DEF SerialInv
  <2>4. QED
    BY <2>2, <2>3
<1>2. CASE ClaimRefreshTask(r)
  <2>1. req[r] \in Work /\ kds[req[r].task] \in Row /\ req[r].pc = "refresh_task"
    BY <1>2, SessionShape DEF IInv, TypeOK, ClaimRefreshTask, Pcs, HoldsNothing, Work
  <2>2. PICK w \in Work :
          /\ w.pc = "refresh_station" /\ req' = [req EXCEPT ![r] = w]
          /\ w.task = req[r].task /\ w.station = req[r].station
    <3>1. PICK row \in Row : row = kds[req[r].task]
      BY <2>1
    <3>2. PICK w : w = [req[r] EXCEPT !.pc = "refresh_station", !.seen_row = row]
      OBVIOUS
    <3>3. /\ w \in Work /\ w.pc = "refresh_station"
          /\ w.task = req[r].task /\ w.station = req[r].station
      BY <2>1, <3>2 DEF Work, HoldsNothing
    <3>4. QED
      BY <1>2, <3>1, <3>2, <3>3 DEF ClaimRefreshTask
  <2>3. QED
    BY <1>2, <2>1, <2>2, MoveSerial DEF ClaimRefreshTask, stationVars, ClaimPcs
<1>3. CASE ClaimRefreshStation(r)
  <2>1. req[r] \in Work /\ req[r].pc = "refresh_station"
    BY <1>3, SessionShape DEF IInv, ClaimRefreshStation, Pcs, HoldsNothing
  <2>2. PICK w \in Work :
          /\ w.pc = "start_call" /\ req' = [req EXCEPT ![r] = w]
          /\ w.task = req[r].task /\ w.station = req[r].station
          /\ w.seen_busy = busy_slots[w.station]
    <3> PICK s \in Stations : s = req[r].station
      BY <2>1 DEF Work
    <3>1. PICK w : w = [req[r] EXCEPT !.pc = "start_call", !.seen_status = status[s],
                                      !.seen_capacity = capacity[s], !.seen_busy = busy_slots[s]]
      OBVIOUS
    <3>2. /\ status[s] \in StationStatus /\ capacity[s] \in 1..MaxCapacity
          /\ busy_slots[s] \in 0..MaxCapacity
      BY CapacitiesType DEF IInv, TypeOK
    <3>3. /\ w \in Work /\ w.pc = "start_call" /\ w.seen_busy = busy_slots[s]
          /\ w.task = req[r].task /\ w.station = req[r].station
      BY <2>1, <3>1, <3>2 DEF Work, HoldsNothing
    <3>4. QED
      BY <1>3, <3>1, <3>3 DEF ClaimRefreshStation
  <2>3. QED
    BY <1>3, <2>1, <2>2, MoveSerial DEF ClaimRefreshStation, stationVars, ClaimPcs
<1>4. ASSUME NEW ok \in BOOLEAN, StartAnswer(r, ok) PROVE SerialInv'
  BY <1>4, EndSerial, GoToSerial DEF StartAnswer, stationVars, Claimed
<1>5. QED
  BY <1>1, <1>2, <1>3, <1>4 DEF Claiming

\* A compensation gives back the one slot its claim took.
LEMMA CompensatingSerial ==
  ASSUME IInv, SerialInv, \A q, p \in Requests : q = p, IsFiniteSet(Tasks),
         NEW r \in Requests, Compensating(r)
  PROVE  SerialInv'
<1>1. CASE CompensateLockTask(r)
  BY <1>1, GoToSerial DEF CompensateLockTask, stationVars
<1>2. CASE CompensateCommit(r)
  <2>1. req[r] \in Work /\ End(r) /\ req[r].pc = "comp_station" /\ kds[req[r].task] \in Row
    BY <1>2, SessionShape DEF IInv, TypeOK, CompensateCommit, Pcs, HoldsTask, Work
  <2>2. CASE UNCHANGED <<kds, busy_slots>>
    BY <2>1, <2>2, EndSerial DEF Claimed
  <2>3. CASE ~UNCHANGED <<kds, busy_slots>>
    <3> DEFINE row == [kds[req[r].task] EXCEPT !.status = "displayed", !.claimed_by = NULL]
    <3>1. kds' = [kds EXCEPT ![req[r].task] = row] /\ ReleaseSlot(r)
      BY <1>2, <2>3 DEF CompensateCommit
    <3>2. row.status = "displayed" /\ row.station_id = kds[req[r].task].station_id
      BY <2>1 DEF Row
    <3>3. kds[req[r].task].station_id = req[r].station
      BY <2>1 DEF SerialInv, HoldsClaim, ClaimPcs
    <3> HIDE DEF row
    <3>4. QED
      BY <2>1, <3>1, <3>2, <3>3, ReleasedSerial
  <2>4. QED
    BY <2>2, <2>3
<1>3. QED
  BY <1>1, <1>2 DEF Compensating

\* A completion gives back one slot when it completes the task.
LEMMA CompletingSerial ==
  ASSUME IInv, SerialInv, \A q, p \in Requests : q = p, IsFiniteSet(Tasks),
         NEW r \in Requests, Completing(r)
  PROVE  SerialInv'
<1>1. CASE CompleteValidate(r)
  <2>1. req[r] \in Work /\ kds[req[r].task] \in Row /\ req[r].pc = "complete_task"
    BY <1>1, SessionShape DEF IInv, TypeOK, CompleteValidate, Pcs, WaitsForTask, Work
  <2>2. UNCHANGED <<busy_slots, kds>>
    BY <1>1 DEF CompleteValidate, stationVars
  <2>3. CASE End(r)
    BY <2>2, <2>3, EndSerial DEF Claimed
  <2>4. CASE ~End(r)
    <3>1. PICK row \in Row : row = kds[req[r].task]
      BY <2>1
    <3>2. /\ row.status = "claimed" /\ row.station_id = req[r].station
          /\ req' = [req EXCEPT ![r] = [req[r] EXCEPT !.pc = "complete_call", !.seen_row = row]]
      BY <1>1, <2>4, <3>1 DEF CompleteValidate, MayComplete
    <3>3. PICK w : w = [req[r] EXCEPT !.pc = "complete_call", !.seen_row = row]
      OBVIOUS
    <3>4. /\ w \in Work /\ w.pc = "complete_call" /\ w.seen_busy = req[r].seen_busy
          /\ w.task = req[r].task /\ w.station = req[r].station
      BY <2>1, <3>3 DEF Work, HoldsNothing
    <3>5. w.seen_busy = busy_slots[w.station]
      BY <2>1, <3>4 DEF IInv, SeenCurrent
    <3>6. QED
      BY <2>1, <2>2, <3>1, <3>2, <3>3, <3>4, <3>5, MoveSerial
  <2>5. QED
    BY <2>3, <2>4
<1>2. ASSUME NEW ok \in BOOLEAN, CompleteAnswer(r, ok) PROVE SerialInv'
  BY <1>2, EndSerial, GoToSerial DEF CompleteAnswer, stationVars, Claimed
<1>3. CASE FinalLockStation(r)
  BY <1>3, GoToSerial DEF FinalLockStation, stationVars
<1>4. CASE CompleteCommit(r)
  <2>1. req[r] \in Work /\ End(r) /\ req[r].pc = "final_task" /\ kds[req[r].task] \in Row
    BY <1>4, SessionShape DEF IInv, TypeOK, CompleteCommit, Pcs, WaitsForTask, Work
  <2>2. CASE UNCHANGED <<kds, busy_slots>>
    BY <2>1, <2>2, EndSerial DEF Claimed
  <2>3. CASE ~UNCHANGED <<kds, busy_slots>>
    <3> DEFINE row == [kds[req[r].task] EXCEPT !.status = "completed"]
    <3>1. kds' = [kds EXCEPT ![req[r].task] = row] /\ ReleaseSlot(r)
      BY <1>4, <2>3 DEF CompleteCommit
    <3>2. row.status = "completed" /\ row.station_id = kds[req[r].task].station_id
      BY <2>1 DEF Row
    <3>3. kds[req[r].task].station_id = req[r].station
      BY <2>1 DEF SerialInv, HoldsClaim, CompletePcs
    <3> HIDE DEF row
    <3>4. QED
      BY <2>1, <3>1, <3>2, <3>3, ReleasedSerial
  <2>4. QED
    BY <2>2, <2>3
<1>5. QED
  BY <1>1, <1>2, <1>3, <1>4 DEF Completing

\* Every step of the service, its requests one at a time.
LEMMA NextSerial ==
  ASSUME IInv, SerialInv, \A q, p \in Requests : q = p, IsFiniteSet(Tasks), [Next]_vars
  PROVE  SerialInv'
<1>1. CASE UNCHANGED <<kds, req, busy_slots>>
  BY <1>1 DEF SerialInv, SlotAccounting, Claimed, HoldsClaim, BusyCurrent
<1>2. CASE UNCHANGED vars \/ Patch
  BY <1>1, <1>2 DEF vars, Patch, UpdateStationCapacity, UpdateStationStatus
<1>3. ASSUME NEW r \in Requests, Arrive(r) PROVE SerialInv'
  <2>1. kds' = kds /\ req'[r].pc \in {"deliver_station", "claim_task", "complete_task"}
    BY <1>3, ArriveStep DEF IInv
  <2>2. busy_slots' = busy_slots
    BY <1>3 DEF Arrive, DeliverCheck, ClaimLockStation, CompleteLockStation, stationVars
  <2>3. req'[r].pc \notin ClaimPcs \union CompletePcs
    BY <2>1 DEF ClaimPcs, CompletePcs
  <2>4. QED
    BY <2>1, <2>2, <2>3, NoClaimHeld, QuietSerial DEF Claimed
<1>a. ASSUME NEW r \in Requests, DeliverCount(r) PROVE SerialInv'
  <2>1. kds' = kds /\ busy_slots' = busy_slots /\ \A s \in Stations : Claimed(s)' = Claimed(s)
    BY <1>a DEF DeliverCount, stationVars, Claimed
  <2>2. CASE End(r)
    BY <2>1, <2>2, EndSerial
  <2>3. CASE GoTo(r, "deliver_insert")
    <3>1. req'[r].pc = "deliver_insert"
      BY <1>a, <2>3, CountedSession DEF DeliverCount, IInv
    <3>2. req'[r].pc \notin ClaimPcs \union CompletePcs
      BY <3>1 DEF ClaimPcs, CompletePcs
    <3>3. QED
      BY <2>1, <3>2, NoClaimHeld, QuietSerial
  <2>4. QED
    BY <1>a, <2>2, <2>3 DEF DeliverCount
<1>4. ASSUME NEW r \in Requests, DeliverInsert(r) PROVE SerialInv'
  <2>1. /\ End(r) /\ busy_slots' = busy_slots /\ req[r].task \in Tasks
    BY <1>4, SessionShape DEF IInv, DeliverInsert, stationVars, Delivery, DeliverPcs
  <2>2. \A s \in Stations : Claimed(s)' = Claimed(s)
    BY <1>4, <2>1 DEF DeliverInsert, Claimed, IInv, TypeOK
  <2>3. QED
    BY <2>1, <2>2, EndSerial
<1>5. ASSUME NEW r \in Requests, DeadlockAbort(r) \/ Crash(r) PROVE SerialInv'
  BY <1>5, EndSerial DEF DeadlockAbort, Crash, stationVars, Claimed
<1>6. QED
  BY <1>2, <1>3, <1>a, <1>4, <1>5, ClaimingSerial, CompensatingSerial, CompletingSerial DEF Next, Proceed

\* When requests come one at a time, busy_slots counts the claimed tasks of every
\* station, however requests crash between their commits and stations are
\* patched.  (With two requests at once it may not; see SlotAccounting.)
THEOREM SerialSlotsCount ==
  ASSUME \A q, p \in Requests : q = p, IsFiniteSet(Tasks)
  PROVE  Spec => []SlotAccounting
<1>1. Init => SerialInv
  <2> SUFFICES ASSUME Init PROVE SerialInv
    OBVIOUS
  <2>1. \A s \in Stations : Claimed(s) = {}
    BY DEF Init, Claimed, Absent
  <2>2. SlotAccounting
    BY <2>1, FS_EmptySet DEF Init, SlotAccounting
  <2>3. QED
    BY <2>2 DEF Init, Idle, SerialInv, HoldsClaim, BusyCurrent, ClaimPcs, CompletePcs
<1>2. IInv /\ SerialInv /\ [Next]_vars => SerialInv'
  BY NextSerial
<1>3. SerialInv => SlotAccounting
  BY DEF SerialInv
<1>4. QED
  BY Invariance, <1>1, <1>2, <1>3, PTL DEF Spec
=============================================================================
