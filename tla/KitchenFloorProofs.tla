-------------------------- MODULE KitchenFloorProofs --------------------------
(***************************************************************************)
(* Proofs about KitchenFloor for any stations, tasks, workers and request  *)
(* slots.                                                                  *)
(*                                                                         *)
(* A worker that cooks has its task in hand: the row is claimed in its     *)
(* name and no claim of the task is under way any more, so that nothing    *)
(* can put it back on the display.  The completions the worker has sent,   *)
(* the ones it gave up on included, speak of a task in its hand, too; this *)
(* is what makes them harmless however late they arrive.                   *)
(*                                                                         *)
(* The slot counter is wrong at times, but a station that is full has a    *)
(* claimed task, because nobody can have seen the station empty since that *)
(* task was claimed.                                                       *)
(***************************************************************************)
EXTENDS KitchenFloor, KdsProofs

ClaimWork == ClaimPcs \union {"claim_task"}
CompleteWork == {"complete_task", "complete_call", "final_station", "final_task"}

\* Slot r holds the request of worker w to claim or complete t, under way to
\* kitchen-service or served by it.
IsJob(r, op, t, w) ==
  \/ sent[r] = [op |-> op, task |-> t, worker |-> w]
  \/ /\ \/ op = "claim" /\ req[r].pc \in ClaimWork
        \/ op = "complete" /\ req[r].pc \in CompleteWork
     /\ req[r].task = t /\ req[r].worker = w

\* No claim can take task t away from worker w.
InHand(t, w) ==
  /\ kds[t].status \in {"claimed", "completed"}
  /\ kds[t].claimed_by = w /\ kds[t].station_id = Home[w]
  /\ \A r \in Requests : req[r].pc \in ClaimPcs => req[r].task # t

\* A slot is used by one request at a time.
SlotFree == \A r \in Requests : sent[r] # NoCall => req[r] = Idle

\* Workers work at their station.
AtHome == \A r \in Requests : req[r].pc \in Pcs => req[r].station = Home[req[r].worker]

\* A task is not completed while its claim is under way.
ClaimsOpen ==
  \A r \in Requests : req[r].pc \in ClaimPcs => kds[req[r].task].status # "completed"

\* Completions speak of tasks in the hand of their worker.
JobsInHand ==
  \A r \in Requests, t \in Tasks, w \in Workers : IsJob(r, "complete", t, w) => InHand(t, w)

WorkerOK(w) ==
  LET c == cook[w] IN
  /\ c.pc \in {"polling", "cooking"} => c.on = NULL
  /\ c.pc # "polling" => c.task \in Tasks
  /\ c.pc = "claiming" =>
       c.attempt = 0 /\ c.on \in Requests /\ IsJob(c.on, "claim", c.task, w)
  /\ c.pc = "completing" =>
       c.attempt > 0 /\ c.on \in Requests /\ IsJob(c.on, "complete", c.task, w)
  /\ c.pc = "cooking" => c.attempt < CompleteAttempts
  /\ c.pc \in {"cooking", "completing"} =>
       /\ InHand(c.task, w)
       /\ kds[c.task].status = "completed" => c.attempt > 0
       /\ \A r \in Requests : IsJob(r, "complete", c.task, w) => c.attempt > 0

FloorInv ==
  /\ SlotFree /\ AtHome /\ ClaimsOpen /\ JobsInHand
  /\ \A w \in Workers : WorkerOK(w)

\* The inductive invariant.
FInv == IInv /\ ClaimInv /\ FloorTypeOK /\ FloorInv

-----------------------------------------------------------------------------
(* Every step of the floor is a step of kitchen-service, or none *)

\* Shapes of calls, workers and sessions.
LEMMA Shapes ==
  /\ NoCall \in Sent /\ NoCall.op = "none" /\ Polling \in Cook
  /\ Polling.pc = "polling" /\ Polling.on = NULL
  /\ Idle.pc = "idle" /\ Idle.pc \notin Pcs
  /\ ClaimWork \subseteq Pcs /\ CompleteWork \subseteq Pcs /\ ClaimPcs \subseteq ClaimWork
  /\ DeliverPcs \intersect Pcs = {}
  /\ \A x \in Sent :
       x # NoCall => x.op \in {"claim", "complete"} /\ x.task \in Tasks /\ x.worker \in Workers
<1>1. NoCall \in Sent /\ NoCall.op = "none"
  BY DEF NoCall, Sent
<1>2. Polling \in Cook /\ Polling.pc = "polling" /\ Polling.on = NULL
  BY CompleteAttemptsType DEF Polling, Cook
<1>3. /\ Idle.pc = "idle" /\ Idle.pc \notin Pcs /\ DeliverPcs \intersect Pcs = {}
      /\ ClaimWork \subseteq Pcs /\ CompleteWork \subseteq Pcs /\ ClaimPcs \subseteq ClaimWork
  BY DEF Idle, Pcs, ClaimWork, CompleteWork, ClaimPcs, DeliverPcs, WaitsForTask, HoldsTask, HoldsNothing
<1>4. \A x \in Sent :
        x # NoCall => x.op \in {"claim", "complete"} /\ x.task \in Tasks /\ x.worker \in Workers
  BY DEF Sent
<1>5. QED
  BY <1>1, <1>2, <1>3, <1>4

\* The steps a request takes on the floor.
LEMMA FloorProceeds ==
  ASSUME NEW r \in Requests, GoesOn(r) \/ EndsWell(r) \/ EndsBadly(r)
  PROVE  Proceed(r) \/ DeadlockAbort(r) \/ Crash(r)
  BY DEF GoesOn, EndsWell, EndsBadly, Proceed, Claiming, Compensating, Completing

\* A request arrives at kitchen-service with the task and the worker it was sent with.
LEMMA FloorArrives ==
  ASSUME FloorTypeOK, NEW r \in Requests, Arrives(r) \/ Deliver(r)
  PROVE  Arrive(r)
<1>1. CASE Arrives(r)
  <2>1. sent[r].worker \in Workers /\ sent[r].task \in Tasks
    BY <1>1, Shapes DEF Arrives, FloorTypeOK
  <2>2. Home[sent[r].worker] \in Stations
    BY <2>1, HomeType
  <2>3. QED
    BY <1>1, <2>1, <2>2 DEF Arrives, Arrive
<1>2. QED
  BY <1>1 DEF Deliver, Arrive

\* The floor only restricts who calls kitchen-service.
LEMMA FloorImplements ==
  ASSUME FloorTypeOK, [FloorNext]_floorVars
  PROVE  [Next]_vars
<1>1. CASE UNCHANGED floorVars
  BY <1>1 DEF floorVars
<1>2. ASSUME NEW w \in Workers, Poll(w) \/ SendComplete(w) \/ TimesOut(w)
      PROVE  UNCHANGED vars
  BY <1>2 DEF Poll, SendComplete, TimesOut
<1>3. ASSUME NEW r \in Requests, Lost(r) PROVE UNCHANGED vars
  BY <1>3 DEF Lost
<1>4. CASE Restart
  BY <1>4 DEF Restart
<1>5. QED
  BY <1>1, <1>2, <1>3, <1>4, FloorProceeds, FloorArrives DEF FloorNext, Next

-----------------------------------------------------------------------------
(* What the steps of requests do to tasks in hand *)

\* A task in hand stays in hand.
LEMMA InHandKept ==
  ASSUME TypeOK, NEW r \in Requests, Kind(r), NEW t \in Tasks, NEW w, InHand(t, w)
  PROVE  /\ InHand(t, w)'
         /\ kds'[t].status = "completed" =>
              kds[t].status = "completed" \/ (Finishes(r) /\ req[r].task = t)
<1>1. req[r].task \in Tasks /\ Others(r) /\ kds[t] \in Row
  BY KindBasics DEF TypeOK
<1>2. /\ kds'[t].status \in {"claimed", "completed"}
      /\ kds'[t].claimed_by = w /\ kds'[t].station_id = Home[w]
      /\ kds'[t].status = "completed" =>
           kds[t].status = "completed" \/ (Finishes(r) /\ req[r].task = t)
  <2>1. CASE req[r].task # t
    BY <2>1, KindBasics DEF InHand
  <2>2. CASE req[r].task = t
    <3>1. ~Shows(r) /\ ~Claims(r)
      BY <2>2 DEF Shows, Claims, InHand
    <3>2. ~Undoes(r)
      BY <2>2 DEF Undoes, InHand, ClaimPcs
    <3>3. CASE Finishes(r)
      <4>1. kds'[t] = [kds[t] EXCEPT !.status = "completed"]
        BY <2>2, <3>3 DEF Finishes, Writes, TypeOK
      <4>2. QED
        BY <1>1, <2>2, <3>3, <4>1 DEF Row, InHand
    <3>4. QED
      BY <3>1, <3>2, <3>3 DEF Kind, Counts, Advances, Stops, InHand
  <2>3. QED
    BY <2>1, <2>2
<1>3. \A q \in Requests : req'[q].pc \in ClaimPcs => req'[q].task # t
  <2>1. ASSUME NEW q \in Requests, req'[q].pc \in ClaimPcs, q # r PROVE req'[q].task # t
    BY <1>1, <2>1 DEF Others, InHand
  <2>2. ASSUME req'[r].pc \in ClaimPcs PROVE req'[r].task # t
    <3>1. req'[r].task = req[r].task /\ (Claims(r) \/ req[r].pc \in ClaimPcs)
      BY <2>2, KindClaims
    <3>2. QED
      BY <3>1 DEF Claims, InHand
  <2>3. QED
    BY <2>1, <2>2
<1>4. QED
  BY <1>2, <1>3 DEF InHand

\* A request keeps its job while it goes on, and no step makes up a job.
LEMMA JobsKept ==
  ASSUME TypeOK, NEW r \in Requests, Kind(r), sent' = sent,
         NEW q \in Requests, NEW op, NEW t, NEW w
  PROVE  /\ IsJob(q, op, t, w)' => IsJob(q, op, t, w)
         /\ q # r /\ IsJob(q, op, t, w) => IsJob(q, op, t, w)'
         /\ req'[r] # Idle /\ IsJob(q, op, t, w) => IsJob(q, op, t, w)'
<1>1. Others(r)
  BY KindBasics
<1>2. CASE q # r
  BY <1>1, <1>2 DEF Others, IsJob
<1>3. CASE q = r /\ req'[r] = Idle
  BY <1>3, Shapes DEF IsJob
<1>a. CASE q = r /\ Counts(r)
  BY <1>a DEF Counts, IsJob, ClaimWork, ClaimPcs, CompleteWork
<1>4. CASE q = r /\ req'[r] # Idle /\ ~Counts(r)
  <2>1. Claims(r) \/ Advances(r)
    BY <1>4 DEF Kind, Shows, Undoes, Finishes, Stops, Ends
  <2>2. req'[r].task = req[r].task /\ req'[r].worker = req[r].worker
    BY <2>1 DEF Claims, Advances, Onward
  <2>3. /\ req'[r].pc \in ClaimWork <=> req[r].pc \in ClaimWork
        /\ req'[r].pc \in CompleteWork <=> req[r].pc \in CompleteWork
    BY <2>1 DEF Claims, Advances, Onward, Moves, ClaimWork, ClaimPcs, CompleteWork
  <2>4. QED
    BY <1>4, <2>2, <2>3 DEF IsJob
<1>5. QED
  BY <1>2, <1>3, <1>a, <1>4

-----------------------------------------------------------------------------
(* What a step does to a worker *)

\* No completion of worker w is made up, and tasks in its hand stay there.
HandKept(w) ==
  /\ \A q \in Requests, t \in Tasks :
       IsJob(q, "complete", t, w)' => IsJob(q, "complete", t, w)
  /\ \A t \in Tasks : InHand(t, w) =>
       /\ InHand(t, w)'
       /\ kds'[t].status = "completed" =>
            kds[t].status = "completed" \/ \E q \in Requests : IsJob(q, "complete", t, w)

HandsKept == \A w \in Workers : HandKept(w)

\* What a worker becomes when its call fails or succeeds.
LEMMA NextCook ==
  ASSUME NEW c \in Cook
  PROVE  /\ Failed(c) \in Cook /\ Succeeded(c) \in Cook
         /\ [c EXCEPT !.pc = "cooking", !.on = NULL] \in Cook
         /\ [c EXCEPT !.pc = "cooking", !.on = NULL].pc = "cooking"
         /\ [c EXCEPT !.pc = "cooking", !.on = NULL].on = NULL
         /\ [c EXCEPT !.pc = "cooking", !.on = NULL].task = c.task
         /\ [c EXCEPT !.pc = "cooking", !.on = NULL].attempt = c.attempt
<1>1. /\ [c EXCEPT !.pc = "cooking", !.on = NULL] \in Cook
      /\ [c EXCEPT !.pc = "cooking", !.on = NULL].pc = "cooking"
      /\ [c EXCEPT !.pc = "cooking", !.on = NULL].on = NULL
      /\ [c EXCEPT !.pc = "cooking", !.on = NULL].task = c.task
      /\ [c EXCEPT !.pc = "cooking", !.on = NULL].attempt = c.attempt
  BY DEF Cook
<1>2. QED
  BY <1>1, Shapes DEF Failed, Succeeded

\* A worker that has sent a call waits for it.
LEMMA WaitingCook ==
  ASSUME NEW c \in Cook, NEW r \in Requests
  PROVE  /\ [c EXCEPT !.on = r] \in Cook /\ [c EXCEPT !.on = r].on = r
         /\ [c EXCEPT !.on = r].task = c.task /\ [c EXCEPT !.on = r].pc = c.pc
         /\ [c EXCEPT !.on = r].attempt = c.attempt
  BY DEF Cook

\* A worker that goes on, its call still there.
LEMMA WorkerStays ==
  ASSUME FInv, NEW w \in Workers, HandKept(w), cook'[w] = cook[w],
         \A op \in {"claim", "complete"}, t \in Tasks :
           cook[w].on \in Requests /\ IsJob(cook[w].on, op, t, w) => IsJob(cook[w].on, op, t, w)'
  PROVE  WorkerOK(w)'
<1> DEFINE c == cook[w]
<1>1. WorkerOK(w) /\ c \in Cook
  BY DEF FInv, FloorInv, FloorTypeOK
<1>2. CASE c.pc \in {"cooking", "completing"}
  <2>1. c.task \in Tasks /\ InHand(c.task, w)
    BY <1>1, <1>2 DEF WorkerOK
  <2>2. /\ InHand(c.task, w)'
        /\ kds'[c.task].status = "completed" => c.attempt > 0
        /\ \A r \in Requests : IsJob(r, "complete", c.task, w)' => c.attempt > 0
    BY <1>1, <1>2, <2>1 DEF WorkerOK, HandKept
  <2>3. QED
    BY <1>1, <1>2, <2>1, <2>2 DEF WorkerOK
<1>3. CASE c.pc \in {"polling", "claiming"}
  BY <1>1, <1>3 DEF WorkerOK
<1>4. QED
  BY <1>1, <1>2, <1>3 DEF Cook

\* A worker that polls relies on nothing.
LEMMA WorkerPolls == ASSUME NEW w \in Workers, cook'[w] = Polling PROVE WorkerOK(w)'
  BY Shapes DEF WorkerOK

\* A worker whose call has failed.
LEMMA WorkerFails ==
  ASSUME FInv, NEW w \in Workers, HandKept(w), cook'[w] = Failed(cook[w])
  PROVE  WorkerOK(w)'
<1> DEFINE c == cook[w]
<1>1. WorkerOK(w) /\ c \in Cook
  BY DEF FInv, FloorInv, FloorTypeOK
<1>2. CASE c.pc = "completing" /\ c.attempt < CompleteAttempts
  <2>1. /\ cook'[w].pc = "cooking" /\ cook'[w].on = NULL /\ cook'[w].task = c.task
        /\ cook'[w].attempt = c.attempt
    <3>1. cook'[w] = [c EXCEPT !.pc = "cooking", !.on = NULL]
      BY <1>2 DEF Failed
    <3> HIDE DEF c
    <3>2. QED
      BY <1>1, <3>1, NextCook
  <2>2. PICK t \in Tasks : t = c.task /\ InHand(t, w) /\ c.attempt > 0
    BY <1>1, <1>2 DEF WorkerOK
  <2>3. InHand(t, w)'
    BY <2>2 DEF HandKept
  <2>4. QED
    BY <1>2, <2>1, <2>2, <2>3 DEF WorkerOK
<1>3. CASE ~(c.pc = "completing" /\ c.attempt < CompleteAttempts)
  <2>1. cook'[w] = Polling
    BY <1>3 DEF Failed
  <2>2. QED
    BY <2>1, WorkerPolls
<1>4. QED
  BY <1>2, <1>3

\* Such steps preserve the invariant of the floor.
LEMMA FloorKept ==
  ASSUME FInv, HandsKept, SlotFree', AtHome', ClaimsOpen', \A w \in Workers : WorkerOK(w)'
  PROVE  FloorInv'
<1>1. JobsInHand'
  <2> SUFFICES ASSUME NEW r \in Requests, NEW t \in Tasks, NEW w \in Workers,
                      IsJob(r, "complete", t, w)'
               PROVE  InHand(t, w)'
    BY DEF JobsInHand
  <2>1. IsJob(r, "complete", t, w)
    BY DEF HandsKept, HandKept
  <2>2. InHand(t, w)
    BY <2>1 DEF FInv, FloorInv, JobsInHand
  <2>3. QED
    BY <2>2 DEF HandsKept, HandKept
<1>2. QED
  BY <1>1 DEF FloorInv

\* Steps of workers and the network that leave kitchen-service alone keep hands.
LEMMA QuietHands ==
  ASSUME UNCHANGED <<kds, req>>, \A q \in Requests : sent'[q] = sent[q] \/ sent'[q] = NoCall
  PROVE  HandsKept
<1>1. \A t \in Tasks, w \in Workers : NoCall # [op |-> "complete", task |-> t, worker |-> w]
  BY DEF NoCall
<1>2. QED
  BY <1>1 DEF HandsKept, HandKept, IsJob, InHand

\* The steps of a request keep hands: only the completion of a task completes it.
LEMMA KindHands ==
  ASSUME FInv, NEW r \in Requests, Kind(r), sent' = sent PROVE HandsKept
<1> USE DEF FInv
<1>1. TypeOK
  BY DEF IInv
<1>2. \A q \in Requests, t \in Tasks, w \in Workers :
        IsJob(q, "complete", t, w)' => IsJob(q, "complete", t, w)
  BY <1>1, JobsKept
<1>3. ASSUME NEW t \in Tasks, NEW w \in Workers, InHand(t, w)
      PROVE  /\ InHand(t, w)'
             /\ kds'[t].status = "completed" =>
                  kds[t].status = "completed" \/ \E q \in Requests : IsJob(q, "complete", t, w)
  <2>1. InHand(t, w)'
    BY <1>1, <1>3, InHandKept
  <2>2. ASSUME kds'[t].status = "completed", kds[t].status # "completed"
        PROVE  IsJob(r, "complete", t, w)
    <3>1. Finishes(r) /\ req[r].task = t
      BY <1>1, <1>3, <2>2, InHandKept
    <3>2. req[r].worker \in Workers /\ req[r].pc = "final_task"
      BY <1>1, <3>1, SessionShape DEF Finishes, Pcs, WaitsForTask, Work
    <3>3. IsJob(r, "complete", t, req[r].worker)
      BY <3>1, <3>2 DEF IsJob, CompleteWork
    <3>4. req[r].worker = w
      BY <1>3, <3>2, <3>3 DEF FloorInv, JobsInHand, InHand
    <3>5. QED
      BY <3>3, <3>4
  <2>3. QED
    BY <2>1, <2>2
<1>4. QED
  BY <1>2, <1>3 DEF HandsKept, HandKept

\* Sessions keep to their slot and their station.
LEMMA KindSlots ==
  ASSUME FInv, NEW r \in Requests, Kind(r), sent' = sent PROVE SlotFree' /\ AtHome' /\ ClaimsOpen'
<1> USE DEF FInv
<1>1. TypeOK
  BY DEF IInv
<1>2. Others(r) /\ req[r].pc # "idle"
  BY <1>1, KindBasics
<1>3. SlotFree'
  BY <1>2, Shapes DEF FloorInv, SlotFree, Others
<1>4. req'[r].pc \in Pcs => /\ req[r].pc \in Pcs /\ req'[r].station = req[r].station
                            /\ req'[r].worker = req[r].worker
  <2>1. CASE req'[r] = Idle
    BY <2>1, Shapes
  <2>a. CASE Counts(r)
    BY <2>a, Shapes DEF Counts, DeliverPcs
  <2>2. CASE req'[r] # Idle /\ ~Counts(r)
    <3>1. Claims(r) \/ Advances(r)
      BY <2>2 DEF Kind, Shows, Undoes, Finishes, Stops, Ends
    <3>2. QED
      BY <3>1 DEF Claims, Advances, Onward, Moves, Pcs, WaitsForTask, HoldsTask, HoldsNothing
  <2>3. QED
    BY <2>1, <2>a, <2>2
<1>5. AtHome'
  BY <1>2, <1>4 DEF FloorInv, AtHome, Others
<1>6. ClaimsOpen'
  <2> SUFFICES ASSUME NEW q \in Requests, req'[q].pc \in ClaimPcs
               PROVE  kds'[req'[q].task].status # "completed"
    BY DEF ClaimsOpen
  <2>1. CASE q = r
    <3>1. req'[r].task = req[r].task /\ (Claims(r) \/ (Advances(r) /\ req[r].pc \in ClaimPcs))
      BY <1>1, <2>1, KindClaims
    <3>2. CASE Claims(r)
      <4>1. req[r].task \in Tasks /\ kds[req[r].task] \in Row
        BY <1>1, KindBasics
      <4>2. kds'[req[r].task].status = "claimed"
        BY <1>1, <3>2, <4>1 DEF Claims, Writes, TypeOK, Row
      <4>3. QED
        BY <2>1, <3>1, <4>2
    <3>3. CASE Advances(r) /\ req[r].pc \in ClaimPcs
      BY <2>1, <3>1, <3>3 DEF Advances, FloorInv, ClaimsOpen
    <3>4. QED
      BY <3>1, <3>2, <3>3
  <2>2. CASE q # r
    <3>1. req'[q] = req[q] /\ req[q].pc \in ClaimPcs /\ req[q].task \in Tasks
      BY <1>1, <1>2, <2>2, RequestTask DEF Others, ClaimPcs
    <3>2. kds[req[q].task].status # "completed"
      BY <3>1 DEF FloorInv, ClaimsOpen
    <3>3. CASE req[q].task # req[r].task
      BY <1>1, <3>1, <3>2, <3>3, KindBasics
    <3>4. CASE req[q].task = req[r].task
      <4>1. ~Finishes(r)
        <5> SUFFICES ASSUME Finishes(r) PROVE FALSE
          OBVIOUS
        <5>1. req[r].worker \in Workers /\ req[r].pc = "final_task"
          BY <1>1, SessionShape DEF Finishes, Pcs, WaitsForTask, Work
        <5>2. IsJob(r, "complete", req[q].task, req[r].worker)
          BY <3>4, <5>1 DEF IsJob, CompleteWork
        <5>3. InHand(req[q].task, req[r].worker)
          BY <3>1, <5>1, <5>2 DEF FloorInv, JobsInHand
        <5>4. QED
          BY <3>1, <5>3 DEF InHand
      <4>2. kds[req[r].task] \in Row /\ req[r].task \in Tasks
        BY <1>1, KindBasics
      <4>3. kds'[req[r].task].status # "completed"
        <5>1. CASE Shows(r)
          BY <1>1, <4>2, <5>1 DEF Shows, Writes, TypeOK
        <5>2. CASE Claims(r)
          <6>1. kds'[req[r].task] = [kds[req[r].task] EXCEPT !.status = "claimed",
                                                            !.claimed_by = req[r].worker]
            BY <1>1, <4>2, <5>2 DEF Claims, Writes, TypeOK
          <6>2. QED
            BY <4>2, <6>1 DEF Row
        <5>3. CASE Undoes(r)
          <6>1. kds'[req[r].task] = [kds[req[r].task] EXCEPT !.status = "displayed",
                                                            !.claimed_by = NULL]
            BY <1>1, <4>2, <5>3 DEF Undoes, Writes, TypeOK
          <6>2. QED
            BY <4>2, <6>1 DEF Row
        <5>4. CASE Counts(r) \/ Advances(r) \/ Stops(r)
          BY <3>2, <3>4, <5>4 DEF Counts, Advances, Stops
        <5>5. QED
          BY <4>1, <5>1, <5>2, <5>3, <5>4 DEF Kind
      <4>4. QED
        BY <3>1, <3>4, <4>3
    <3>5. QED
      BY <3>3, <3>4
  <2>3. QED
    BY <2>1, <2>2
<1>7. QED
  BY <1>3, <1>5, <1>6

-----------------------------------------------------------------------------
(* Steps of the floor *)

FloorOK == FloorInv' /\ sent' \in [Requests -> Sent] /\ cook' \in [Workers -> Cook]

\* The failure of request r reaches the worker that waits for it, and nobody else.
LEMMA FailureAnswered ==
  ASSUME FInv, HandsKept, NEW r \in Requests, Answer(r, FALSE),
         \A q \in Requests \ {r}, op \in {"claim", "complete"}, t \in Tasks, w \in Workers :
           IsJob(q, op, t, w) => IsJob(q, op, t, w)'
  PROVE  cook' \in [Workers -> Cook] /\ \A w \in Workers : WorkerOK(w)'
<1>1. ASSUME NEW w \in Workers PROVE cook'[w] \in Cook /\ WorkerOK(w)'
  <2>1. cook[w] \in Cook
    BY DEF FInv, FloorTypeOK
  <2>2. CASE cook[w].on # r
    <3>1. cook'[w] = cook[w]
      BY <2>2 DEF Answer
    <3>2. WorkerOK(w)'
      BY <2>2, <3>1, WorkerStays DEF HandsKept
    <3>3. QED
      BY <2>1, <3>1, <3>2
  <2>3. CASE cook[w].on = r
    <3>1. cook'[w] = Failed(cook[w])
      BY <2>3 DEF Answer
    <3>2. WorkerOK(w)'
      BY <3>1, WorkerFails DEF HandsKept
    <3>3. QED
      BY <2>1, <3>1, <3>2, NextCook
  <2>4. QED
    BY <2>2, <2>3
<1>2. cook' = [w \in Workers |-> cook'[w]]
  BY DEF Answer
<1>3. QED
  BY <1>1, <1>2

\* A timeout, a restart, a lost request, a patch.
LEMMA QuietFloor ==
  ASSUME FInv,
         \/ \E w \in Workers : TimesOut(w)
         \/ \E r \in Requests : Lost(r)
         \/ Restart
         \/ Patch /\ UNCHANGED <<sent, cook>>
  PROVE  FloorOK
<1> USE DEF FInv
<1>1. UNCHANGED <<kds, req>>
  BY DEF TimesOut, Lost, Restart, Patch, UpdateStationCapacity, UpdateStationStatus, vars
<1>2. /\ \A q \in Requests : sent'[q] = sent[q] \/ sent'[q] = NoCall
      /\ sent' \in [Requests -> Sent]
  BY Shapes DEF TimesOut, Lost, Restart, FloorTypeOK
<1>3. HandsKept
  BY <1>1, <1>2, QuietHands
<1>4. SlotFree' /\ AtHome' /\ ClaimsOpen'
  BY <1>1, <1>2 DEF FloorInv, SlotFree, AtHome, ClaimsOpen
<1>5. \A w \in Workers : cook[w] \in Cook
  BY DEF FloorTypeOK
<1>6. cook' \in [Workers -> Cook] /\ \A w \in Workers : WorkerOK(w)'
  <2>1. CASE sent' = sent /\ cook' \in [Workers -> Cook]
              /\ \A w \in Workers : cook'[w] \in {cook[w], Failed(cook[w]), Polling}
    <3>1. \A q \in Requests, op \in {"claim", "complete"}, t \in Tasks, w \in Workers :
            IsJob(q, op, t, w) => IsJob(q, op, t, w)'
      BY <1>1, <2>1 DEF IsJob
    <3>2. ASSUME NEW w \in Workers PROVE WorkerOK(w)'
      BY <1>3, <2>1, <3>1, WorkerStays, WorkerFails, WorkerPolls DEF HandsKept
    <3>3. QED
      BY <2>1, <3>2
  <2>2. ASSUME NEW w \in Workers, TimesOut(w)
        PROVE  /\ sent' = sent /\ cook' \in [Workers -> Cook]
               /\ \A v \in Workers : cook'[v] \in {cook[v], Failed(cook[v]), Polling}
    BY <1>5, <2>2, NextCook DEF TimesOut, FloorTypeOK
  <2>3. CASE Restart \/ UNCHANGED <<sent, cook>>
    BY <2>1, <2>3, Shapes DEF Restart, FloorTypeOK
  <2>4. ASSUME NEW r \in Requests, Lost(r)
        PROVE  cook' \in [Workers -> Cook] /\ \A w \in Workers : WorkerOK(w)'
    <3>1. Answer(r, FALSE) /\ \A q \in Requests \ {r} : sent'[q] = sent[q]
      BY <2>4 DEF Lost, FloorTypeOK
    <3>2. \A q \in Requests \ {r}, op \in {"claim", "complete"}, t \in Tasks, w \in Workers :
            IsJob(q, op, t, w) => IsJob(q, op, t, w)'
      BY <1>1, <3>1 DEF IsJob
    <3>3. QED
      BY <1>3, <3>1, <3>2, FailureAnswered
  <2>5. QED
    BY <2>1, <2>2, <2>3, <2>4
<1>7. QED
  BY <1>2, <1>3, <1>4, <1>6, FloorKept DEF FloorOK

\* A request that goes on.
LEMMA GoesOnFloor == ASSUME FInv, NEW r \in Requests, GoesOn(r) PROVE FloorOK
<1> USE DEF FInv
<1>1. sent' = sent /\ cook' = cook /\ req'[r] # Idle /\ TypeOK
  BY DEF GoesOn, IInv
<1>2. Kind(r)
  BY <1>1, FloorProceeds, RequestStep DEF Kind
<1>3. HandsKept /\ SlotFree' /\ AtHome' /\ ClaimsOpen'
  BY <1>1, <1>2, KindHands, KindSlots
<1>4. \A w \in Workers : WorkerOK(w)'
  BY <1>1, <1>2, <1>3, JobsKept, WorkerStays DEF HandsKept
<1>5. QED
  BY <1>1, <1>3, <1>4, FloorKept DEF FloorOK, FloorTypeOK

\* A request that is refused, undone, aborted or dies.
LEMMA EndsBadlyFloor == ASSUME FInv, NEW r \in Requests, EndsBadly(r) PROVE FloorOK
<1> USE DEF FInv
<1>1. sent' = sent /\ Answer(r, FALSE) /\ TypeOK
  BY DEF EndsBadly, IInv
<1>2. Kind(r)
  BY <1>1, FloorProceeds, RequestStep DEF Kind
<1>3. HandsKept /\ SlotFree' /\ AtHome' /\ ClaimsOpen'
  BY <1>1, <1>2, KindHands, KindSlots
<1>4. \A q \in Requests \ {r}, op \in {"claim", "complete"}, t \in Tasks, w \in Workers :
        IsJob(q, op, t, w) => IsJob(q, op, t, w)'
  BY <1>1, <1>2, JobsKept
<1>5. cook' \in [Workers -> Cook] /\ \A w \in Workers : WorkerOK(w)'
  BY <1>1, <1>3, <1>4, FailureAnswered
<1>6. QED
  BY <1>1, <1>3, <1>5, FloorKept DEF FloorOK, FloorTypeOK

\* A claim that is confirmed puts its task into the hand of its worker.
LEMMA ConfirmedClaim ==
  ASSUME FInv, NEW r \in Requests, StartAnswer(r, TRUE), Ends(r)
  PROVE  \E t \in Tasks, w \in Workers :
           /\ t = req[r].task /\ w = req[r].worker
           /\ InHand(t, w)' /\ kds'[t].status # "completed"
           /\ \A q \in Requests : ~IsJob(q, "complete", t, w)
<1> USE DEF FInv
<1>1. PICK t \in Tasks, w \in Workers : t = req[r].task /\ w = req[r].worker
  <2>1. req[r] \in Work
    BY SessionShape DEF IInv, StartAnswer, Pcs, HoldsNothing
  <2>2. QED
    BY <2>1 DEF Work
<1>2. req[r].pc \in ClaimPcs /\ req[r].pc \in Pcs /\ kds' = kds /\ Others(r) /\ req'[r] = Idle
  BY DEF StartAnswer, ClaimPcs, Pcs, HoldsNothing, Ends
<1>3. /\ kds[t].status = "claimed" /\ kds[t].claimed_by = w /\ kds[t].station_id = Home[w]
  BY <1>1, <1>2 DEF ClaimInv, ClaimStands, FloorInv, ClaimsOpen, AtHome
<1>4. \A q \in Requests : req'[q].pc \in ClaimPcs => req'[q].task # t
  <2>1. "idle" \notin ClaimPcs /\ Idle.pc = "idle"
    BY DEF ClaimPcs, Idle
  <2>2. QED
    BY <1>1, <1>2, <2>1 DEF ClaimInv, OneClaimant, Others
<1>5. InHand(t, w)'
  BY <1>2, <1>3, <1>4 DEF InHand
<1>6. \A q \in Requests : ~IsJob(q, "complete", t, w)
  BY <1>1, <1>2 DEF FloorInv, JobsInHand, InHand
<1>7. QED
  BY <1>1, <1>2, <1>3, <1>5, <1>6

\* The worker that waits for a request in progress is the one that sent it.
LEMMA WaiterOf ==
  ASSUME FInv, NEW r \in Requests, req[r].pc \in {"start_call", "final_task"},
         NEW w \in Workers, cook[w].on = r
  PROVE  /\ cook[w].pc \in {"claiming", "completing"}
         /\ cook[w].pc = "claiming" => /\ req[r].pc = "start_call" /\ cook[w].attempt = 0
                                       /\ req[r].task = cook[w].task /\ req[r].worker = w
<1> USE DEF FInv
<1>1. WorkerOK(w) /\ cook[w] \in Cook
  BY DEF FloorInv, FloorTypeOK
<1>2. cook[w].pc \in {"claiming", "completing"}
  BY <1>1, NullIsNoRequest DEF WorkerOK, Cook
<1>3. sent[r] = NoCall
  BY Shapes DEF FloorInv, SlotFree
<1>4. ASSUME cook[w].pc = "claiming"
      PROVE  /\ req[r].pc = "start_call" /\ cook[w].attempt = 0
             /\ req[r].task = cook[w].task /\ req[r].worker = w
  <2>1. IsJob(r, "claim", cook[w].task, w) /\ cook[w].attempt = 0
    BY <1>1, <1>4 DEF WorkerOK
  <2>2. sent[r] # [op |-> "claim", task |-> cook[w].task, worker |-> w]
    BY <1>3 DEF NoCall
  <2>3. QED
    BY <2>1, <2>2 DEF IsJob, ClaimWork, ClaimPcs
<1>5. QED
  BY <1>2, <1>4

\* A request that succeeds.
LEMMA EndsWellFloor == ASSUME FInv, NEW r \in Requests, EndsWell(r) PROVE FloorOK
<1> USE DEF FInv
<1>1. sent' = sent /\ Answer(r, TRUE) /\ TypeOK /\ req[r].pc \in {"start_call", "final_task"}
  BY DEF EndsWell, IInv, StartAnswer, CompleteCommit
<1>2. Kind(r)
  BY <1>1, FloorProceeds, RequestStep DEF Kind
<1>3. HandsKept /\ SlotFree' /\ AtHome' /\ ClaimsOpen'
  BY <1>1, <1>2, KindHands, KindSlots
<1>4. ASSUME NEW w \in Workers PROVE cook'[w] \in Cook /\ WorkerOK(w)'
  <2>1. cook[w] \in Cook
    BY DEF FloorTypeOK
  <2>2. CASE cook[w].on # r
    <3>1. cook'[w] = cook[w]
      BY <1>1, <2>2 DEF Answer
    <3>2. WorkerOK(w)'
      BY <1>1, <1>2, <1>3, <2>2, <3>1, WorkerStays, JobsKept DEF HandsKept
    <3>3. QED
      BY <2>1, <3>1, <3>2
  <2>3. CASE cook[w].on = r /\ cook[w].pc # "claiming"
    <3>1. cook'[w] = Polling
      BY <1>1, <2>3 DEF Answer, Succeeded
    <3>2. QED
      BY <3>1, Shapes, WorkerPolls
  <2>4. CASE cook[w].on = r /\ cook[w].pc = "claiming"
    <3>1. /\ req[r].pc = "start_call" /\ cook[w].attempt = 0
          /\ req[r].task = cook[w].task /\ req[r].worker = w
      BY <1>1, <2>4, WaiterOf
    <3>2. StartAnswer(r, TRUE) /\ Ends(r)
      BY <1>1, <3>1, EndEnds DEF EndsWell, StartAnswer, CompleteCommit
    <3>3. PICK t \in Tasks :
            /\ t = cook[w].task /\ InHand(t, w)' /\ kds'[t].status # "completed"
            /\ \A q \in Requests : ~IsJob(q, "complete", t, w)
      BY <3>1, <3>2, ConfirmedClaim
    <3>4. /\ cook'[w] \in Cook /\ cook'[w].pc = "cooking" /\ cook'[w].on = NULL
          /\ cook'[w].task = t /\ cook'[w].attempt = 0
      <4>1. cook'[w] = [cook[w] EXCEPT !.pc = "cooking", !.on = NULL]
        BY <1>1, <2>4 DEF Answer, Succeeded
      <4>2. QED
        BY <2>1, <3>1, <3>3, <4>1, NextCook
    <3>5. \A q \in Requests : ~IsJob(q, "complete", t, w)'
      BY <1>3, <3>3 DEF HandsKept, HandKept
    <3>6. WorkerOK(w)'
      BY <3>3, <3>4, <3>5, CompleteAttemptsType DEF WorkerOK
    <3>7. QED
      BY <3>4, <3>6
  <2>5. QED
    BY <2>2, <2>3, <2>4
<1>5. cook' \in [Workers -> Cook]
  <2>1. cook' = [w \in Workers |-> cook'[w]]
    BY <1>1 DEF Answer
  <2>2. QED
    BY <1>4, <2>1
<1>6. QED
  BY <1>1, <1>3, <1>4, <1>5, FloorKept DEF FloorOK, FloorTypeOK

\* A request arrives: its job passes from the network to kitchen-service.
LEMMA ArrivesFloor == ASSUME FInv, NEW r \in Requests, Arrives(r) PROVE FloorOK
<1> USE DEF FInv
<1>1. PICK t \in Tasks, w \in Workers, op \in {"claim", "complete"} :
        sent[r] = [op |-> op, task |-> t, worker |-> w]
  BY DEF Arrives, FloorTypeOK, Sent
<1>2. TypeOK /\ Home[w] \in Stations /\ kds' = kds /\ cook' = cook /\ req[r] = Idle
  BY HomeType DEF IInv, Arrives, ClaimLockStation, CompleteLockStation
<1>3. PICK pc \in {"claim_task", "complete_task"} :
        /\ req' = [req EXCEPT ![r] = Open(pc, Home[w], t, w)]
        /\ pc = "claim_task" <=> op = "claim"
  BY <1>1 DEF Arrives, ClaimLockStation, CompleteLockStation
<1>4. /\ req'[r].pc = pc /\ req'[r].station = Home[w] /\ req'[r].task = t /\ req'[r].worker = w
      /\ Others(r)
  BY <1>2, <1>3 DEF Open, Others, TypeOK
<1>5. /\ sent' \in [Requests -> Sent] /\ sent'[r] = NoCall
      /\ \A q \in Requests \ {r} : sent'[q] = sent[q]
  BY Shapes DEF Arrives, FloorTypeOK
<1>6. \A q \in Requests, o \in {"claim", "complete"}, x \in Tasks, v \in Workers :
        IsJob(q, o, x, v)' <=> IsJob(q, o, x, v)
  <2> SUFFICES ASSUME NEW q \in Requests, NEW o \in {"claim", "complete"},
                      NEW x \in Tasks, NEW v \in Workers
               PROVE  IsJob(q, o, x, v)' <=> IsJob(q, o, x, v)
    OBVIOUS
  <2>1. CASE q # r
    BY <1>4, <1>5, <2>1 DEF IsJob, Others
  <2>2. CASE q = r
    <3>1. IsJob(r, o, x, v)' <=> o = op /\ x = t /\ v = w
      <4>1. sent'[r] # [op |-> o, task |-> x, worker |-> v]
        BY <1>5 DEF NoCall
      <4>2. QED
        BY <1>3, <1>4, <4>1 DEF IsJob, ClaimWork, ClaimPcs, CompleteWork
    <3>2. IsJob(r, o, x, v) <=> o = op /\ x = t /\ v = w
      BY <1>1, <1>2, Shapes DEF IsJob
    <3>3. QED
      BY <2>2, <3>1, <3>2
  <2>3. QED
    BY <2>1, <2>2
<1>7. "claim_task" \notin ClaimPcs /\ "complete_task" \notin ClaimPcs
  BY DEF ClaimPcs
<1>8. \A q \in Requests : req'[q].pc \in ClaimPcs => req'[q] = req[q]
  BY <1>4, <1>7 DEF Others
<1>9. HandsKept
  <2>1. \A x \in Tasks, v \in Workers : InHand(x, v) => InHand(x, v)'
    BY <1>2, <1>8 DEF InHand
  <2>2. QED
    BY <1>2, <1>6, <2>1 DEF HandsKept, HandKept
<1>10. SlotFree' /\ AtHome' /\ ClaimsOpen'
  <2>1. SlotFree'
    BY <1>4, <1>5 DEF FloorInv, SlotFree, Others
  <2>2. AtHome'
    BY <1>4 DEF FloorInv, AtHome, Others
  <2>3. ClaimsOpen'
    BY <1>2, <1>8 DEF FloorInv, ClaimsOpen
  <2>4. QED
    BY <2>1, <2>2, <2>3
<1>11. \A v \in Workers : WorkerOK(v)'
  BY <1>2, <1>6, <1>9, WorkerStays DEF HandsKept
<1>12. QED
  BY <1>2, <1>5, <1>9, <1>10, <1>11, FloorKept DEF FloorOK, FloorTypeOK

\* A delivery is nobody's job.
LEMMA DeliverFloor == ASSUME FInv, NEW r \in Requests, Deliver(r) PROVE FloorOK
<1> USE DEF FInv
<1>1. /\ TypeOK /\ UNCHANGED <<kds, sent, cook>> /\ req[r] = Idle /\ Others(r)
      /\ req'[r].pc = "deliver_station" /\ sent[r] = NoCall
  BY DEF IInv, Deliver, DeliverCheck, Others, TypeOK
<1>2. "deliver_station" \notin Pcs /\ ClaimPcs \subseteq ClaimWork /\ ClaimWork \subseteq Pcs
      /\ CompleteWork \subseteq Pcs /\ Idle.pc \notin Pcs
  BY Shapes DEF DeliverPcs
<1>3. \A q \in Requests : req'[q].pc \in Pcs => req'[q] = req[q]
  BY <1>1, <1>2 DEF Others
<1>4. \A q \in Requests, o \in {"claim", "complete"}, x \in Tasks, v \in Workers :
        IsJob(q, o, x, v)' <=> IsJob(q, o, x, v)
  BY <1>1, <1>2 DEF IsJob, Others
<1>5. HandsKept
  <2>1. \A x \in Tasks, v \in Workers : InHand(x, v) => InHand(x, v)'
    BY <1>1, <1>2, <1>3 DEF InHand
  <2>2. QED
    BY <1>1, <1>4, <2>1 DEF HandsKept, HandKept
<1>6. SlotFree' /\ AtHome' /\ ClaimsOpen'
  <2>1. SlotFree'
    BY <1>1 DEF FloorInv, SlotFree, Others
  <2>2. AtHome'
    BY <1>3 DEF FloorInv, AtHome
  <2>3. ClaimsOpen'
    BY <1>1, <1>2, <1>3 DEF FloorInv, ClaimsOpen
  <2>4. QED
    BY <2>1, <2>2, <2>3
<1>7. \A v \in Workers : WorkerOK(v)'
  BY <1>1, <1>4, <1>5, WorkerStays DEF HandsKept
<1>8. QED
  BY <1>1, <1>5, <1>6, <1>7, FloorKept DEF FloorOK, FloorTypeOK

\* A call of worker w takes a slot that no other worker waits for.
LEMMA SendFloor ==
  ASSUME FInv, NEW w \in Workers, NEW r \in Requests, NEW op \in {"claim", "complete"},
         NEW t \in Tasks, NEW c \in Cook,
         req[r] = Idle, sent[r] = NoCall, UNCHANGED vars,
         sent' = [sent EXCEPT ![r] = [op |-> op, task |-> t, worker |-> w]],
         cook' = [cook EXCEPT ![w] = c], c.on = r, c.task = t,
         \/ op = "claim" /\ c.pc = "claiming" /\ c.attempt = 0
         \/ op = "complete" /\ c.pc = "completing" /\ c.attempt > 0 /\ InHand(t, w)
  PROVE  FloorOK
<1> USE DEF FInv
<1>1. UNCHANGED <<kds, req>>
  BY DEF vars
<1>2. /\ sent'[r] = [op |-> op, task |-> t, worker |-> w] /\ sent' \in [Requests -> Sent]
      /\ \A q \in Requests \ {r} : sent'[q] = sent[q]
      /\ cook'[w] = c /\ cook' \in [Workers -> Cook]
      /\ \A v \in Workers \ {w} : cook'[v] = cook[v]
  BY DEF FloorTypeOK, Sent
<1>3. \A o \in {"claim", "complete"}, x \in Tasks, v \in Workers :
        /\ ~IsJob(r, o, x, v)
        /\ IsJob(r, o, x, v)' <=> o = op /\ x = t /\ v = w
  <2>1. \A o \in {"claim", "complete"}, x \in Tasks, v \in Workers :
          NoCall # [op |-> o, task |-> x, worker |-> v]
    BY DEF NoCall
  <2>2. QED
    BY <1>1, <1>2, <2>1, Shapes DEF IsJob
<1>4. \A q \in Requests \ {r}, o \in {"claim", "complete"}, x \in Tasks, v \in Workers :
        IsJob(q, o, x, v)' <=> IsJob(q, o, x, v)
  BY <1>1, <1>2 DEF IsJob
<1>5. \A x \in Tasks, v \in Workers : InHand(x, v)' <=> InHand(x, v)
  BY <1>1 DEF InHand
<1>6. SlotFree' /\ AtHome' /\ ClaimsOpen'
  BY <1>1, <1>2 DEF FloorInv, SlotFree, AtHome, ClaimsOpen
<1>7. JobsInHand'
  BY <1>3, <1>4, <1>5 DEF FloorInv, JobsInHand
<1>8. ASSUME NEW v \in Workers \ {w} PROVE WorkerOK(v)'
  <2>1. HandKept(v)
    BY <1>1, <1>3, <1>4, <1>5 DEF HandKept
  <2>2. QED
    BY <1>2, <1>3, <1>4, <2>1, WorkerStays
<1>9. WorkerOK(w)'
  BY <1>2, <1>3, <1>5 DEF WorkerOK
<1>10. QED
  BY <1>2, <1>6, <1>7, <1>8, <1>9 DEF FloorOK, FloorInv

\* A worker claims what it saw on the display.
LEMMA PollFloor == ASSUME FInv, NEW w \in Workers, Poll(w) PROVE FloorOK
<1>1. PICK t \in Tasks, r \in Requests :
        /\ req[r] = Idle /\ sent[r] = NoCall /\ UNCHANGED vars
        /\ sent' = [sent EXCEPT ![r] = [op |-> "claim", task |-> t, worker |-> w]]
        /\ cook' = [cook EXCEPT ![w] =
             [[Polling EXCEPT !.pc = "claiming", !.task = t] EXCEPT !.on = r]]
  BY DEF Poll, Send, SelectDisplayedTask, Displayed
<1> DEFINE c == [[Polling EXCEPT !.pc = "claiming", !.task = t] EXCEPT !.on = r]
<1>2. c \in Cook /\ c.on = r /\ c.task = t /\ c.pc = "claiming" /\ c.attempt = 0
  <2> DEFINE p == [Polling EXCEPT !.pc = "claiming", !.task = t]
  <2>1. p \in Cook /\ p.task = t /\ p.pc = "claiming" /\ p.attempt = 0
    <3>1. Polling \in Cook /\ Polling.attempt = 0
      BY Shapes DEF Polling
    <3>2. QED
      BY <3>1 DEF Cook
  <2> HIDE DEF p
  <2>2. c = [p EXCEPT !.on = r]
    BY DEF p
  <2> HIDE DEF c
  <2>3. QED
    BY <2>1, <2>2, WaitingCook
<1> HIDE DEF c
<1>3. cook' = [cook EXCEPT ![w] = c]
  BY <1>1 DEF c
<1>4. QED
  BY <1>1, <1>2, <1>3, SendFloor

\* A worker completes what it has in hand.
LEMMA SendCompleteFloor == ASSUME FInv, NEW w \in Workers, SendComplete(w) PROVE FloorOK
<1>1. /\ cook[w] \in Cook /\ cook[w].pc = "cooking" /\ cook[w].attempt < CompleteAttempts
      /\ cook[w].task \in Tasks /\ InHand(cook[w].task, w)
  BY DEF FInv, FloorTypeOK, FloorInv, WorkerOK, SendComplete
<1> DEFINE c(r) == [[cook[w] EXCEPT !.pc = "completing", !.attempt = cook[w].attempt + 1]
                     EXCEPT !.on = r]
<1>2. PICK t \in Tasks, r \in Requests :
        /\ t = cook[w].task
        /\ req[r] = Idle /\ sent[r] = NoCall /\ UNCHANGED vars
        /\ sent' = [sent EXCEPT ![r] = [op |-> "complete", task |-> t, worker |-> w]]
        /\ cook' = [cook EXCEPT ![w] = c(r)]
  BY <1>1 DEF SendComplete, Send
<1>3. /\ c(r) \in Cook /\ c(r).on = r /\ c(r).task = t /\ c(r).pc = "completing"
      /\ c(r).attempt > 0
  <2>1. cook[w].attempt + 1 \in 0..CompleteAttempts /\ cook[w].attempt + 1 > 0
    BY <1>1, CompleteAttemptsType DEF Cook
  <2> DEFINE p == [cook[w] EXCEPT !.pc = "completing", !.attempt = cook[w].attempt + 1]
  <2>2. p \in Cook /\ p.task = t /\ p.pc = "completing" /\ p.attempt > 0
    BY <1>1, <1>2, <2>1 DEF Cook
  <2>3. c(r) = [p EXCEPT !.on = r]
    BY DEF p
  <2> HIDE DEF c, p
  <2>4. QED
    BY <2>2, <2>3, WaitingCook
<1>4. InHand(t, w)
  BY <1>1, <1>2
<1> HIDE DEF c
<1>5. QED
  BY <1>2, <1>3, <1>4, SendFloor

-----------------------------------------------------------------------------
(* The invariant and what follows from it *)

\* An empty floor.
LEMMA InitFInv == FloorInit => FInv
<1> SUFFICES ASSUME FloorInit PROVE FInv
  OBVIOUS
<1>1. IInv /\ ClaimInv
  BY InitIInv, InitClaimInv DEF FloorInit
<1>2. FloorTypeOK
  BY <1>1, Shapes DEF FloorInit, FloorTypeOK, IInv
<1>3. /\ \A r \in Requests : req[r] = Idle /\ sent[r] = NoCall /\ req[r].pc \notin Pcs
      /\ \A w \in Workers : cook[w] = Polling
  BY Shapes DEF FloorInit, Init
<1>4. \A r \in Requests, t \in Tasks, w \in Workers : ~IsJob(r, "complete", t, w)
  <2>1. \A t \in Tasks, w \in Workers : NoCall # [op |-> "complete", task |-> t, worker |-> w]
    BY DEF NoCall
  <2>2. QED
    BY <1>3, <2>1, Shapes DEF IsJob
<1>5. SlotFree /\ AtHome /\ ClaimsOpen /\ JobsInHand
  BY <1>3, <1>4, Shapes DEF SlotFree, AtHome, ClaimsOpen, JobsInHand
<1>6. \A w \in Workers : WorkerOK(w)
  BY <1>3, Shapes DEF WorkerOK
<1>7. QED
  BY <1>1, <1>2, <1>5, <1>6 DEF FInv, FloorInv

\* Every step of the floor preserves the invariant.
LEMMA NextFInv == FInv /\ [FloorNext]_floorVars => FInv'
<1> SUFFICES ASSUME FInv, [FloorNext]_floorVars PROVE FInv'
  OBVIOUS
<1>1. IInv' /\ ClaimInv'
  BY FloorImplements, NextIInv, NextClaimInv DEF FInv
<1>2. FloorOK
  <2>1. CASE UNCHANGED floorVars
    <3>1. UNCHANGED <<kds, req, sent, cook>>
      BY <2>1 DEF floorVars, vars
    <3>2. QED
      BY <3>1 DEF FInv, FloorOK, FloorTypeOK, FloorInv, SlotFree, AtHome, ClaimsOpen, JobsInHand,
         WorkerOK, InHand, IsJob
  <2>2. CASE FloorNext
    BY <2>2, PollFloor, SendCompleteFloor, ArrivesFloor, DeliverFloor, GoesOnFloor,
       EndsWellFloor, EndsBadlyFloor, QuietFloor DEF FloorNext
  <2>3. QED
    BY <2>1, <2>2
<1>3. QED
  BY <1>1, <1>2 DEF FInv, FloorOK, FloorTypeOK, IInv

\* The inductive invariant of workers, calls and kitchen-service together.
THEOREM FloorInvariance == FloorSpec => []FInv
  BY InitFInv, NextFInv, PTL DEF FloorSpec

\* Calls and workers keep their shape; a worker never sends a completion beyond
\* complete_retry_attempts, however answers, timeouts and restarts interleave.
THEOREM FloorTypeCorrect == FloorSpec => []FloorTypeOK
  BY FloorInvariance, PTL DEF FInv

\* kitchen-service keeps what it promises to any clients when station-simulator's
\* workers are its clients: the theorems of KdsProofs hold on the floor.
THEOREM FloorImplementsKds == FloorSpec => Spec
<1>1. FloorInit => Init
  BY DEF FloorInit
<1>2. FInv /\ [FloorNext]_floorVars => [Next]_vars
  BY FloorImplements DEF FInv
<1>3. QED
  BY <1>1, <1>2, FloorInvariance, PTL DEF FloorSpec, Spec

\* No worker cooks a task that is not its own: not after a timeout of its claim,
\* a compensation, or a completion that arrives late.
THEOREM NobodyCooksInVain == FloorSpec => []CookingIsClaimed
<1>1. FInv => CookingIsClaimed
  <2> SUFFICES ASSUME FInv, NEW w \in Workers, cook[w].pc \in {"cooking", "completing"}
               PROVE  LET row == kds[cook[w].task] IN
                      /\ row.claimed_by = w /\ row.station_id = Home[w]
                      /\ row.status = "claimed" \/ (row.status = "completed" /\ cook[w].attempt > 0)
    BY DEF CookingIsClaimed
  <2>1. WorkerOK(w)
    BY DEF FInv, FloorInv
  <2>2. QED
    BY <2>1 DEF WorkerOK, InHand
<1>2. QED
  BY <1>1, FloorInvariance, PTL

\* A task that is completed stays as it is, although compensations and
\* completions write to rows they read before a call.
THEOREM CompletedStaysCompleted == FloorSpec => CompletedIsFinal
<1>1. ASSUME FInv, [FloorNext]_floorVars PROVE [FinalStep]_floorVars
  <2> SUFFICES ASSUME NEW t \in Tasks, kds[t].status = "completed" PROVE kds'[t] = kds[t]
    BY DEF FinalStep
  <2>1. TypeOK /\ [Next]_vars
    BY <1>1, FloorImplements DEF FInv, IInv
  <2>2. CASE kds' = kds
    BY <2>2
  <2>3. ASSUME NEW r \in Requests, Kind(r) PROVE kds'[t] = kds[t]
    <3>1. CASE req[r].task # t
      BY <2>1, <2>3, <3>1, KindBasics
    <3>2. CASE req[r].task = t
      <4>1. ~Shows(r) /\ ~Claims(r)
        BY <3>2 DEF Shows, Claims
      <4>2. ~Undoes(r)
        BY <1>1, <3>2 DEF FInv, FloorInv, ClaimsOpen, Undoes, ClaimPcs
      <4>3. CASE Finishes(r)
        <5>1. kds'[t] = [kds[t] EXCEPT !.status = "completed"] /\ kds[t] \in Row
          BY <2>1, <3>2, <4>3 DEF Finishes, Writes, TypeOK
        <5>2. QED
          BY <5>1 DEF Row
      <4>4. QED
        BY <2>3, <4>1, <4>2, <4>3 DEF Kind, Counts, Advances, Stops
    <3>3. QED
      BY <3>1, <3>2
  <2>4. ASSUME NEW r \in Requests, Proceed(r) \/ DeadlockAbort(r) \/ Crash(r)
        PROVE  kds'[t] = kds[t]
    BY <2>1, <2>3, <2>4, RequestStep DEF Kind
  <2>5. ASSUME NEW r \in Requests, Arrive(r) PROVE kds'[t] = kds[t]
    BY <2>1, <2>5, ArriveStep
  <2>6. CASE Patch
    BY <2>6 DEF Patch, UpdateStationCapacity, UpdateStationStatus
  <2>7. CASE UNCHANGED vars
    BY <2>7 DEF vars
  <2>8. QED
    BY <2>1, <2>4, <2>5, <2>6, <2>7 DEF Next
<1>2. QED
  BY <1>1, FloorInvariance, PTL DEF FloorSpec, CompletedIsFinal

-----------------------------------------------------------------------------
(* A full station has a claimed task *)

\* Sessions that may still release the slot of their task.
Releasing == {"start_call", "comp_task", "comp_station"} \union CompleteWork

\* Whoever releases the slot of t writes a value below the capacity.
Releasable(t) ==
  \A q \in Requests : req[q].pc \in Releasing /\ req[q].task = t => req[q].seen_busy # 0

\* The inductive strengthening: one of the claimed tasks of a full station was
\* claimed when the station was last filled, and no session under way about it
\* saw the station empty.
FullInv ==
  \A s \in Stations : busy_slots[s] >= capacity[s] => \E t \in Claimed(s) : Releasable(t)

\* A session that may release a slot is about a task in use at its station.
LEMMA ReleasingRow ==
  ASSUME FInv, NEW q \in Requests, req[q].pc \in Releasing
  PROVE  /\ req[q].task \in Tasks /\ req[q].station = kds[req[q].task].station_id
         /\ kds[req[q].task].status \in {"claimed", "completed"}
<1>1. req[q].pc \in Pcs
  BY Shapes DEF Releasing, ClaimPcs, ClaimWork
<1>2. req[q] \in Work
  BY <1>1, SessionShape DEF FInv, IInv
<1>3. req[q].task \in Tasks /\ req[q].worker \in Workers
  BY <1>2 DEF Work
<1>4. CASE req[q].pc \in CompleteWork
  <2>1. IsJob(q, "complete", req[q].task, req[q].worker)
    BY <1>4 DEF IsJob
  <2>2. InHand(req[q].task, req[q].worker)
    BY <1>3, <2>1 DEF FInv, FloorInv, JobsInHand
  <2>3. req[q].station = Home[req[q].worker]
    BY <1>1 DEF FInv, FloorInv, AtHome
  <2>4. QED
    BY <1>3, <2>2, <2>3 DEF InHand
<1>5. CASE req[q].pc \notin CompleteWork
  BY <1>3, <1>5 DEF Releasing, ClaimPcs, FInv, ClaimInv, ClaimStands
<1>6. QED
  BY <1>4, <1>5

\* Session q got its place among the releasing ones with what it saw before, or
\* has just read its station.
Seen(q) ==
  req'[q].pc \in Releasing =>
    \/ /\ req[q].pc \in Releasing /\ req'[q].task = req[q].task
       /\ req'[q].seen_busy = req[q].seen_busy
    \/ req'[q].seen_busy = busy_slots[req'[q].station]

\* Sessions keep what they saw of their station until they read it again.
LEMMA SeenStays == ASSUME IInv, [Next]_vars, NEW q \in Requests PROVE Seen(q)
<1> USE DEF IInv
<1>1. CASE req'[q] = req[q]
  BY <1>1 DEF Seen
<1>2. CASE req'[q] = Idle
  BY <1>2, Shapes DEF Seen, Releasing, CompleteWork, Idle
<1>3. ASSUME NEW r \in Requests, NEW pc \in Pcs, req[r].pc \in Releasing, GoTo(r, pc)
      PROVE  Seen(q)
  <2>1. req[r] \in Work
    BY <1>3, SessionShape, Shapes DEF Releasing, ClaimPcs, ClaimWork
  <2>2. req'[r] = [req[r] EXCEPT !.pc = pc]
    BY <1>3 DEF GoTo, TypeOK
  <2>3. req'[r].task = req[r].task /\ req'[r].seen_busy = req[r].seen_busy
    BY <2>1, <2>2 DEF Work
  <2>4. q # r => req'[q] = req[q]
    BY <1>3 DEF GoTo, TypeOK
  <2>5. QED
    BY <1>1, <1>3, <2>3, <2>4 DEF Seen
<1>4. ASSUME NEW r \in Requests, End(r) PROVE Seen(q)
  BY <1>1, <1>2, <1>4 DEF End, TypeOK
<1>5. ASSUME NEW r \in Requests, NEW v, req' = [req EXCEPT ![r] = v], v.pc \notin Releasing
      PROVE  Seen(q)
  BY <1>1, <1>5 DEF Seen, TypeOK
<1>6. ASSUME NEW r \in Requests, NEW v, req' = [req EXCEPT ![r] = v],
             v.seen_busy = busy_slots[v.station]
      PROVE  Seen(q)
  BY <1>1, <1>6 DEF Seen, TypeOK
<1>7. CASE Patch \/ UNCHANGED vars
  BY <1>1, <1>7 DEF Patch, UpdateStationCapacity, UpdateStationStatus, vars
<1>8. ASSUME NEW r \in Requests, Arrive(r) PROVE Seen(q)
  <2>1. ASSUME NEW s \in Stations, NEW t \in Tasks, DeliverCheck(r, s, t) PROVE Seen(q)
    <3>1. [pc |-> "deliver_station", station |-> s, task |-> t].pc \notin Releasing
      BY DEF Releasing, CompleteWork
    <3>2. QED
      BY <1>5, <2>1, <3>1 DEF DeliverCheck
  <2>2. ASSUME NEW s \in Stations, NEW t \in Tasks, NEW w \in Workers,
               ClaimLockStation(r, s, t, w) \/ CompleteLockStation(r, s, t, w)
        PROVE  Seen(q)
    BY <1>6, <2>2, OpenedSession DEF ClaimLockStation, CompleteLockStation
  <2>3. QED
    BY <1>8, <2>1, <2>2 DEF Arrive
<1>9. ASSUME NEW r \in Requests, Proceed(r) \/ DeadlockAbort(r) \/ Crash(r) PROVE Seen(q)
  <2>1. CASE DeliverCount(r)
    <3>1. CASE GoTo(r, "deliver_insert")
      <4>1. req[r] \in Delivery
        BY <2>1, SessionShape DEF DeliverCount, DeliverPcs
      <4>2. [req[r] EXCEPT !.pc = "deliver_insert"].pc \notin Releasing
        BY <4>1 DEF Delivery, Releasing, CompleteWork
      <4>3. QED
        BY <1>5, <3>1, <4>2 DEF GoTo
    <3>2. QED
      BY <1>4, <2>1, <3>1 DEF DeliverCount
  <2>2. CASE ClaimCommit(r)
    <3>1. CASE GoTo(r, "refresh_task")
      <4>1. req[r] \in Work
        BY <2>2, SessionShape DEF ClaimCommit, Pcs, WaitsForTask
      <4>2. [req[r] EXCEPT !.pc = "refresh_task"].pc \notin Releasing
        BY <4>1 DEF Work, Releasing, CompleteWork
      <4>3. QED
        BY <1>5, <3>1, <4>2 DEF GoTo
    <3>2. QED
      BY <1>4, <2>2, <3>1 DEF ClaimCommit
  <2>3. CASE ClaimRefreshTask(r)
    <3>1. req[r] \in Work
      BY <2>3, SessionShape DEF ClaimRefreshTask, Pcs, HoldsNothing
    <3>2. [req[r] EXCEPT !.pc = "refresh_station", !.seen_row = kds[req[r].task]].pc \notin Releasing
      BY <3>1 DEF Work, Releasing, CompleteWork
    <3>3. QED
      BY <1>5, <2>3, <3>2 DEF ClaimRefreshTask
  <2>4. CASE ClaimRefreshStation(r)
    <3>1. req[r] \in Work
      BY <2>4, SessionShape DEF ClaimRefreshStation, Pcs, HoldsNothing
    <3> DEFINE v == [req[r] EXCEPT !.pc = "start_call", !.seen_status = status[req[r].station],
                                   !.seen_capacity = capacity[req[r].station],
                                   !.seen_busy = busy_slots[req[r].station]]
    <3>2. v.seen_busy = busy_slots[v.station]
      BY <3>1 DEF Work
    <3>3. req' = [req EXCEPT ![r] = v]
      BY <2>4 DEF ClaimRefreshStation
    <3> HIDE DEF v
    <3>4. QED
      BY <1>6, <3>2, <3>3
  <2>5. CASE \E ok \in BOOLEAN : StartAnswer(r, ok)
    BY <1>3, <1>4, <2>5 DEF StartAnswer, Releasing, Pcs, HoldsNothing
  <2>6. CASE CompensateLockTask(r)
    BY <1>3, <2>6 DEF CompensateLockTask, Releasing, Pcs, HoldsTask
  <2>7. CASE CompleteValidate(r)
    <3>1. req[r] \in Work /\ req[r].pc \in Releasing
      BY <2>7, SessionShape DEF CompleteValidate, Pcs, WaitsForTask, Releasing, CompleteWork
    <3>2. CASE ~End(r)
      <4>1. req'[r] = [req[r] EXCEPT !.pc = "complete_call", !.seen_row = kds[req[r].task]]
        BY <2>7, <3>2 DEF CompleteValidate, TypeOK
      <4>2. req'[r].task = req[r].task /\ req'[r].seen_busy = req[r].seen_busy
        BY <3>1, <4>1 DEF Work
      <4>3. q # r => req'[q] = req[q]
        BY <2>7, <3>2 DEF CompleteValidate, TypeOK
      <4>4. QED
        BY <1>1, <3>1, <4>2, <4>3 DEF Seen
    <3>3. QED
      BY <1>4, <3>2
  <2>8. CASE \E ok \in BOOLEAN : CompleteAnswer(r, ok)
    BY <1>3, <1>4, <2>8 DEF CompleteAnswer, Releasing, CompleteWork, Pcs, HoldsNothing
  <2>9. CASE FinalLockStation(r)
    BY <1>3, <2>9 DEF FinalLockStation, Releasing, CompleteWork, Pcs, WaitsForTask
  <2>10. CASE \/ DeliverInsert(r) \/ CompensateCommit(r) \/ CompleteCommit(r)
              \/ DeadlockAbort(r) \/ Crash(r)
    BY <1>4, <2>10 DEF DeliverInsert, CompensateCommit, CompleteCommit, DeadlockAbort, Crash
  <2>11. QED
    BY <1>9, <2>1, <2>2, <2>3, <2>4, <2>5, <2>6, <2>7, <2>8, <2>9, <2>10
       DEF Proceed, Claiming, Compensating, Completing
<1>10. QED
  BY <1>7, <1>8, <1>9 DEF Next

\* A station that is full was full before, and keeps its claimed tasks but for
\* one whose session saw the station empty; or a claim has just filled it.
StillFull(s) ==
  /\ busy_slots[s] >= capacity[s]
  /\ \A t \in Claimed(s) :
       \/ kds'[t] = kds[t]
       \/ \E r \in Requests : req[r].pc \in Releasing /\ req[r].task = t /\ req[r].seen_busy = 0
JustFilled(s) ==
  \E r \in Requests :
    /\ Claims(r) /\ req[r].task \in Tasks /\ req[r].station = s
    /\ kds'[req[r].task].status = "claimed" /\ kds'[req[r].task].station_id = s

\* A session that releases its slot leaves its station below its capacity, unless
\* it saw the station empty.
LEMMA ReleaseFull ==
  ASSUME IInv, Capacities = {MaxCapacity}, NEW r \in Requests, ReleaseSlot(r), capacity' = capacity,
         req[r].pc \in Releasing, req[r].task \in Tasks,
         kds[req[r].task].station_id = req[r].station,
         \A t \in Tasks : t # req[r].task => kds'[t] = kds[t],
         NEW s \in Stations, busy_slots'[s] >= capacity'[s]
  PROVE  StillFull(s)
<1> USE DEF IInv
<1>1. req[r] \in Work
  BY SessionShape, Shapes DEF Releasing, ClaimPcs, ClaimWork
<1>2. req[r].station \in Stations /\ req[r].seen_busy \in 0..MaxCapacity
  BY <1>1 DEF Work
<1>3. capacity[s] = MaxCapacity /\ MaxCapacity \in Nat
  BY CapacitiesType DEF TypeOK
<1>4. CASE req[r].seen_busy = 0
  <2>1. busy_slots[s] >= capacity[s]
    BY <1>4 DEF ReleaseSlot
  <2>2. QED
    BY <1>4, <2>1 DEF StillFull, Claimed
<1>5. CASE req[r].seen_busy # 0
  <2>1. busy_slots' = [busy_slots EXCEPT ![req[r].station] = req[r].seen_busy - 1]
    BY <1>5 DEF ReleaseSlot
  <2>2. s # req[r].station
    BY <1>2, <1>3, <2>1 DEF TypeOK
  <2>3. busy_slots[s] >= capacity[s]
    BY <1>2, <2>1, <2>2 DEF TypeOK
  <2>4. \A t \in Claimed(s) : kds'[t] = kds[t]
    BY <2>2 DEF Claimed
  <2>5. QED
    BY <2>3, <2>4 DEF StillFull
<1>6. QED
  BY <1>4, <1>5

\* How a station comes to be full.
LEMMA FullAfter ==
  ASSUME FInv, Capacities = {MaxCapacity}, [Next]_vars,
         NEW s \in Stations, busy_slots'[s] >= capacity'[s]
  PROVE  StillFull(s) \/ JustFilled(s)
<1> USE DEF FInv, IInv
<1>1. CASE UNCHANGED <<busy_slots, capacity>> /\ \A t \in Claimed(s) : kds'[t] = kds[t]
  BY <1>1 DEF StillFull
<1>2. CASE UNCHANGED vars
  BY <1>1, <1>2 DEF vars
<1>3. CASE Patch
  <2>1. busy_slots' = busy_slots /\ kds' = kds
    BY <1>3 DEF Patch, UpdateStationCapacity, UpdateStationStatus
  <2>2. \/ capacity' = capacity
        \/ \E x \in Stations, c \in Capacities : capacity' = [capacity EXCEPT ![x] = c]
    BY <1>3 DEF Patch, UpdateStationCapacity, UpdateStationStatus
  <2>3. capacity'[s] = capacity[s]
    BY <2>2 DEF TypeOK
  <2>4. QED
    BY <2>1, <2>3 DEF StillFull
<1>4. ASSUME NEW r \in Requests, Arrive(r) PROVE StillFull(s) \/ JustFilled(s)
  <2>1. UNCHANGED <<stationVars, kds>>
    BY <1>4 DEF Arrive, DeliverCheck, ClaimLockStation, CompleteLockStation
  <2>2. QED
    BY <1>1, <2>1 DEF stationVars
<1>5. ASSUME NEW r \in Requests, Proceed(r) \/ DeadlockAbort(r) \/ Crash(r)
      PROVE  StillFull(s) \/ JustFilled(s)
  <2>0. Kind(r)
    BY <1>5, RequestStep
  <2>1. /\ req[r].pc # "idle" /\ req[r].task \in Tasks /\ kds[req[r].task] \in Row
        /\ \A t \in Tasks : t # req[r].task => kds'[t] = kds[t]
    BY <2>0, KindBasics
  <2>2. CASE UNCHANGED <<stationVars, kds>>
    BY <1>1, <2>2 DEF stationVars
  <2>3. CASE DeliverInsert(r)
    <3>1. \A t \in Claimed(s) : kds'[t] = kds[t]
      BY <2>1, <2>3 DEF DeliverInsert, Claimed
    <3>2. QED
      BY <1>1, <2>3, <3>1 DEF DeliverInsert, stationVars
  <2>4. CASE ClaimCommit(r)
    <3>1. CASE UNCHANGED <<stationVars, kds>>
      BY <2>2, <3>1
    <3>2. CASE MayClaim(r) /\ ~UNCHANGED <<stationVars, kds>>
      <4>1. /\ kds' = [kds EXCEPT ![req[r].task] =
                         [@ EXCEPT !.status = "claimed", !.claimed_by = req[r].worker]]
            /\ busy_slots' = [busy_slots EXCEPT ![req[r].station] = req[r].seen_busy + 1]
            /\ GoTo(r, "refresh_task") /\ capacity' = capacity
        BY <2>4, <3>2 DEF ClaimCommit
      <4>2. /\ kds'[req[r].task].status = "claimed"
            /\ kds'[req[r].task].station_id = req[r].station
            /\ kds[req[r].task].status = "displayed"
        BY <2>1, <3>2, <4>1 DEF TypeOK, Row, MayClaim
      <4>3. CASE req[r].station = s
        <5>1. Claims(r)
          BY <2>0, <2>4, <4>2 DEF Kind, ClaimCommit, Counts, Shows, Claims, Advances, Undoes,
             Finishes, Stops, Moves
        <5>2. QED
          BY <2>1, <4>2, <4>3, <5>1 DEF JustFilled
      <4>4. CASE req[r].station # s
        <5>1. \A t \in Claimed(s) : kds'[t] = kds[t]
          BY <2>1, <4>2 DEF Claimed
        <5>2. busy_slots[s] >= capacity[s]
          BY <4>1, <4>4 DEF TypeOK
        <5>3. QED
          BY <5>1, <5>2 DEF StillFull
      <4>5. QED
        BY <4>3, <4>4
    <3>3. QED
      BY <2>4, <3>1, <3>2 DEF ClaimCommit
  <2>5. CASE CompensateCommit(r) \/ CompleteCommit(r)
    <3>1. capacity' = capacity /\ req[r].pc \in Releasing
      BY <2>5 DEF CompensateCommit, CompleteCommit, Releasing, CompleteWork
    <3>2. CASE ReleaseSlot(r)
      BY <2>1, <3>1, <3>2, ReleasingRow, ReleaseFull
    <3>3. CASE UNCHANGED <<kds, busy_slots>>
      BY <1>1, <3>1, <3>3
    <3>4. QED
      BY <2>5, <3>2, <3>3 DEF CompensateCommit, CompleteCommit
  <2>6. QED
    BY <1>5, <2>2, <2>3, <2>4, <2>5 DEF Proceed, Claiming, Compensating, Completing, DeliverCount,
       ClaimRefreshTask, ClaimRefreshStation, StartAnswer, CompensateLockTask, CompleteValidate,
       CompleteAnswer, FinalLockStation, DeadlockAbort, Crash
<1>6. QED
  BY <1>2, <1>3, <1>4, <1>5 DEF Next

\* Every step of the floor preserves FullInv, if capacities are not patched.
LEMMA NextFull ==
  ASSUME FInv, FInv', FullInv, Capacities = {MaxCapacity}, [FloorNext]_floorVars
  PROVE  FullInv'
<1> USE DEF FInv, IInv
<1>1. [Next]_vars
  BY FloorImplements
<1> SUFFICES ASSUME NEW s \in Stations, busy_slots'[s] >= capacity'[s]
             PROVE  \E t \in Claimed(s)' : Releasable(t)'
  BY DEF FullInv
<1>2. CASE StillFull(s)
  <2>1. PICK t \in Claimed(s) : Releasable(t)
    BY <1>2 DEF FullInv, StillFull
  <2>2. t \in Tasks /\ kds'[t] = kds[t] /\ kds[t].status = "claimed" /\ kds[t].station_id = s
    BY <1>2, <2>1 DEF StillFull, Releasable, Claimed
  <2>3. busy_slots[s] # 0
    BY <1>2, CapacitiesType DEF StillFull, TypeOK
  <2>4. ASSUME NEW q \in Requests, req'[q].pc \in Releasing, req'[q].task = t
        PROVE  req'[q].seen_busy # 0
    <3>1. Seen(q)
      BY <1>1, SeenStays
    <3>2. req'[q].station = s
      <4>1. (req[q].pc \in Releasing => req[q].station = kds[req[q].task].station_id)'
        BY <2>4, ReleasingRow, PTL
      <4>2. QED
        BY <2>2, <2>4, <4>1
    <3>3. QED
      BY <2>1, <2>3, <2>4, <3>1, <3>2 DEF Seen, Releasable
  <2>5. QED
    BY <2>2, <2>4 DEF Claimed, Releasable
<1>3. CASE JustFilled(s)
  <2>1. PICK r \in Requests :
          /\ Claims(r) /\ req[r].task \in Tasks /\ req[r].station = s
          /\ kds'[req[r].task].status = "claimed" /\ kds'[req[r].task].station_id = s
    BY <1>3 DEF JustFilled
  <2>2. kds[req[r].task].status = "displayed" /\ Others(r) /\ req'[r].pc = "refresh_task"
    BY <2>1 DEF Claims, Onward
  <2>3. ASSUME NEW q \in Requests, req'[q].pc \in Releasing PROVE req'[q].task # req[r].task
    <3>1. q # r
      BY <2>2, <2>3 DEF Releasing, CompleteWork
    <3>2. req'[q] = req[q]
      BY <2>2, <3>1 DEF Others
    <3>3. QED
      BY <2>2, <2>3, <3>2, ReleasingRow
  <2>4. QED
    BY <2>1, <2>3 DEF Claimed, Releasable
<1>4. QED
  BY <1>1, <1>2, <1>3, FullAfter

\* If capacities are not patched, a station is full only while a task is claimed
\* there: the stale values completions and compensations write back never close
\* a station for good, for any number of stations, workers and requests.
THEOREM FullStationsAreUsed ==
  ASSUME Capacities = {MaxCapacity}
  PROVE  FloorSpec => []FullMeansClaimed
<1>1. FInv /\ FloorInit => FullInv
  <2> SUFFICES ASSUME FInv, FloorInit, NEW s \in Stations PROVE ~(busy_slots[s] >= capacity[s])
    BY DEF FullInv
  <2>1. busy_slots[s] = 0 /\ capacity[s] \in 1..MaxCapacity
    BY CapacitiesType DEF FloorInit, Init, FInv, IInv, TypeOK
  <2>2. QED
    BY <2>1
<1>2. FInv /\ FInv' /\ FullInv /\ [FloorNext]_floorVars => FullInv'
  BY NextFull
<1>3. FullInv => FullMeansClaimed
  BY DEF FullInv, FullMeansClaimed
<1>4. QED
  BY <1>1, <1>2, <1>3, FloorInvariance, PTL DEF FloorSpec
=============================================================================
