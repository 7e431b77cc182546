---------------------------- MODULE CookingProofs ----------------------------
(***************************************************************************)
(* Proofs about Cooking for any orders, tasks, stations, workers, requests *)
(* and calls.                                                              *)
(*                                                                         *)
(* kitchen-service and fulfillment-service agree on what is finished,      *)
(* because a complete call, the ones the kitchen gave up on included, is   *)
(* about a task in the hand of a worker: nothing can put such a task back  *)
(* on the display any more.  They agree on what is being cooked, because a *)
(* worker is told of its claim only after the start call was accepted, and *)
(* fulfillment-service never takes a start back.                           *)
(***************************************************************************)
EXTENDS Cooking, KitchenFloorProofs

Started == {"in_progress", "done"}
Busy == {"cooking", "completing"}
Final == {"final_station", "final_task"}

\* What slot f carries to fulfillment-service or serves there.
Occupied(f) == wire[f] # NoCall \/ session[f].pc # "idle"
CallOf(f) == IF wire[f] # NoCall THEN wire[f] ELSE session[f].call

-----------------------------------------------------------------------------
(* The invariant *)

\* Rows and slots are there.
SlotsOK ==
  /\ DOMAIN ftask = Tasks /\ DOMAIN session = Sessions
  /\ DOMAIN wire = Sessions /\ DOMAIN on = Requests
  /\ \A t \in Tasks : "status" \in DOMAIN ftask[t]
  /\ \A f \in Sessions :
       /\ Occupied(f) => CallOf(f).task \in Tasks
       /\ wire[f] # NoCall => session[f].pc = "idle"

\* A row is locked by one session, which has read what it still says.
RowsOK ==
  /\ \A f, g \in Sessions :
       /\ session[f].pc # "idle" /\ session[g].pc # "idle"
       /\ session[f].call.task = session[g].call.task
       => f = g
  /\ \A f \in Sessions : session[f].pc # "idle" =>
       /\ session[f].row = ftask[session[f].call.task]
       /\ session[f].pc = "counted" =>
            session[f].row.status = "in_progress" /\ session[f].call.op = "complete"

\* A request of kitchen-service waits for its own call.
Waits(r) ==
  on[r] # NULL => \E f \in Sessions :
    /\ on[r] = f /\ Occupied(f) /\ CallOf(f).task = req[r].task
    /\ \/ req[r].pc = "start_call" /\ CallOf(f).op = "start"
       \/ req[r].pc = "complete_call" /\ CallOf(f).op = "complete"
Waiting ==
  /\ \A r \in Requests : Waits(r)
  /\ \A r, q \in Requests : on[r] # NULL /\ on[r] = on[q] => r = q

\* Complete calls, however late, are about tasks in a worker's hand.
Held(t) == \E w \in Workers : InHand(t, w)
CallsInHand ==
  \A f \in Sessions, t \in Tasks :
    Occupied(f) /\ CallOf(f).op = "complete" /\ CallOf(f).task = t => Held(t)

\* What the two services know of each other.
Agreement ==
  /\ \A t \in Tasks : ftask[t].status = "done" => Held(t)
  /\ \A t \in Tasks : kds[t].status = "completed" => ftask[t].status = "done"
  /\ \A r \in Requests : req[r].pc \in Final => ftask[req[r].task].status = "done"
  /\ \A w \in Workers : cook[w].pc \in Busy => ftask[cook[w].task].status \in Started

\* The inductive invariant.
CallsInv == SlotsOK /\ RowsOK /\ Waiting /\ CallsInHand
CInv == FInv /\ CallsInv /\ Agreement

-----------------------------------------------------------------------------
(* What a step of the floor does to what the services agree on *)

HandsStay == \A t \in Tasks : Held(t) => Held(t)'

\* Only the last step of a completion completes a task on the display.
OnlyFinalCompletes ==
  \A t \in Tasks : kds'[t].status = "completed" =>
    kds[t].status = "completed" \/ \E r \in Requests : req[r].pc \in Final /\ req[r].task = t

\* Only a complete call that was answered leads to the end of a completion.
OnlyCallsFinish ==
  \A r \in Requests : req'[r].pc \in Final =>
    /\ req'[r].task = req[r].task
    /\ req[r].pc \in Final \/ req[r].pc = "complete_call"

\* Only a claim that ends well lets a worker begin to cook.
OnlyClaimsCook ==
  \A w \in Workers : cook'[w].pc \in Busy =>
    /\ cook'[w].task = cook[w].task
    /\ \/ cook[w].pc \in Busy
       \/ \E r \in Requests : req[r].pc = "start_call" /\ req[r].task = cook[w].task /\ EndsWell(r)

\* Steps that leave kitchen-service alone.
LEMMA QuietEffect ==
  ASSUME UNCHANGED <<kds, req>>
  PROVE  HandsStay /\ OnlyFinalCompletes /\ OnlyCallsFinish
  BY DEF HandsStay, Held, InHand, OnlyFinalCompletes, OnlyCallsFinish

\* A request arrives.
LEMMA ArrivalEffect ==
  ASSUME TypeOK, NEW r \in Requests, Arrive(r)
  PROVE  HandsStay /\ OnlyFinalCompletes /\ OnlyCallsFinish
<1>1. /\ req[r] = Idle /\ Others(r) /\ kds' = kds
      /\ req'[r].pc \in {"deliver_station", "claim_task", "complete_task"}
  BY ArriveStep
<1>2. req'[r].pc \notin ClaimPcs /\ req'[r].pc \notin Final
  BY <1>1 DEF ClaimPcs, Final
<1>3. \A q \in Requests : req'[q].pc \in ClaimPcs \union Final => req'[q] = req[q]
  BY <1>1, <1>2 DEF Others
<1>4. HandsStay
  BY <1>1, <1>3 DEF HandsStay, Held, InHand
<1>5. QED
  BY <1>1, <1>3, <1>4 DEF OnlyFinalCompletes, OnlyCallsFinish

\* A step of a request in progress.
LEMMA RequestEffect ==
  ASSUME TypeOK, NEW r \in Requests, Kind(r)
  PROVE  HandsStay /\ OnlyFinalCompletes /\ OnlyCallsFinish
<1>1. HandsStay
  BY InHandKept DEF HandsStay, Held
<1>2. OnlyFinalCompletes
  <2> SUFFICES ASSUME NEW t \in Tasks, kds'[t].status = "completed", kds[t].status # "completed"
               PROVE  req[r].pc \in Final /\ req[r].task = t
    BY DEF OnlyFinalCompletes
  <2>1. req[r].task = t /\ kds[t] \in Row
    BY KindBasics
  <2>2. kds' # kds
    OBVIOUS
  <2>3. ~Shows(r) /\ ~Claims(r) /\ ~Undoes(r)
    <3>1. ASSUME NEW row, Writes(r, row) PROVE row.status = "completed"
      BY <2>1, <3>1 DEF Writes, TypeOK
    <3>2. /\ [kds[t] EXCEPT !.status = "claimed", !.claimed_by = req[r].worker].status = "claimed"
          /\ [kds[t] EXCEPT !.status = "displayed", !.claimed_by = NULL].status = "displayed"
      BY <2>1 DEF Row
    <3>3. ~Shows(r)
      <4>1. ASSUME Shows(r)
            PROVE  [status |-> "displayed", station_id |-> req[r].station,
                    claimed_by |-> NULL].status = "completed"
        BY <3>1, <4>1 DEF Shows
      <4>2. QED
        BY <4>1
    <3>4. ~Claims(r)
      BY <2>1, <3>1, <3>2 DEF Claims
    <3>5. ~Undoes(r)
      BY <2>1, <3>1, <3>2 DEF Undoes
    <3>6. QED
      BY <3>3, <3>4, <3>5
  <2>4. Finishes(r)
    BY <2>2, <2>3 DEF Kind, Counts, Advances, Stops
  <2>5. QED
    BY <2>1, <2>4 DEF Finishes, Final
<1>3. OnlyCallsFinish
  <2>1. ASSUME req'[r].pc \in Final
        PROVE  /\ req'[r].task = req[r].task
               /\ req[r].pc \in Final \/ req[r].pc = "complete_call"
    <3>1. Advances(r)
      BY <2>1, Shapes DEF Kind, Counts, Shows, Claims, Undoes, Finishes, Stops, Ends, Onward, Final
    <3>2. QED
      BY <2>1, <3>1 DEF Advances, Onward, Moves, Final
  <2>2. QED
    BY <2>1, KindBasics DEF OnlyCallsFinish, Others
<1>4. QED
  BY <1>1, <1>2, <1>3

\* Every step of the floor.
LEMMA FloorEffect ==
  ASSUME FInv, [FloorNext]_floorVars
  PROVE  HandsStay /\ OnlyFinalCompletes /\ OnlyCallsFinish
<1>1. TypeOK /\ [Next]_vars
  BY FloorImplements DEF FInv, IInv
<1>2. CASE UNCHANGED vars
  BY <1>2, QuietEffect DEF vars
<1>3. CASE Patch
  <2>1. UNCHANGED <<kds, req>>
    BY <1>3 DEF Patch, UpdateStationCapacity, UpdateStationStatus
  <2>2. QED
    BY <2>1, QuietEffect
<1>4. ASSUME NEW r \in Requests, Proceed(r) \/ DeadlockAbort(r) \/ Crash(r)
      PROVE  HandsStay /\ OnlyFinalCompletes /\ OnlyCallsFinish
  BY <1>1, <1>4, RequestStep, RequestEffect
<1>5. QED
  BY <1>1, <1>2, <1>3, <1>4, ArrivalEffect DEF Next

\* A worker whose call failed goes on cooking or polls again.
LEMMA FailedCooks ==
  ASSUME NEW c \in Cook, Failed(c).pc \in Busy
  PROVE  c.pc \in Busy /\ Failed(c).task = c.task
<1>1. c.pc = "completing" /\ Failed(c) = [c EXCEPT !.pc = "cooking", !.on = NULL]
  BY Shapes DEF Failed, Busy
<1>2. QED
  BY <1>1, NextCook DEF Busy

\* Nobody begins to cook.
NoneBegins ==
  \A w \in Workers : cook'[w].pc \in Busy => cook'[w].task = cook[w].task /\ cook[w].pc \in Busy

\* The answer of a request that failed begins nothing.
LEMMA FailureBegins == ASSUME FInv, NEW r \in Requests, Answer(r, FALSE) PROVE NoneBegins
<1> SUFFICES ASSUME NEW w \in Workers, cook'[w].pc \in Busy
             PROVE  cook'[w].task = cook[w].task /\ cook[w].pc \in Busy
  BY DEF NoneBegins
<1>1. cook[w] \in Cook /\ (cook'[w] = cook[w] \/ cook'[w] = Failed(cook[w]))
  BY DEF FInv, FloorTypeOK, Answer
<1>2. QED
  BY <1>1, FailedCooks

\* A worker sends a call.
LEMMA SendBegins ==
  ASSUME FInv, NEW w \in Workers, Poll(w) \/ SendComplete(w) PROVE NoneBegins
<1>1. cook \in [Workers -> Cook]
  BY DEF FInv, FloorTypeOK
<1>2. CASE Poll(w)
  <2>1. PICK t \in Tasks, r \in Requests :
          cook' = [cook EXCEPT ![w] =
                     [[Polling EXCEPT !.pc = "claiming", !.task = t] EXCEPT !.on = r]]
    BY <1>2 DEF Poll, Send, SelectDisplayedTask, Displayed
  <2>2. cook'[w].pc = "claiming" /\ \A v \in Workers \ {w} : cook'[v] = cook[v]
    BY <1>1, <2>1 DEF Polling
  <2>3. QED
    BY <2>2 DEF NoneBegins, Busy
<1>3. CASE SendComplete(w)
  <2> DEFINE c == [cook[w] EXCEPT !.pc = "completing", !.attempt = cook[w].attempt + 1]
  <2>1. PICK r \in Requests : cook' = [cook EXCEPT ![w] = [c EXCEPT !.on = r]]
    BY <1>3 DEF SendComplete, Send
  <2>2. cook[w] \in Cook /\ cook[w].pc = "cooking" /\ c.task = cook[w].task
    BY <1>1, <1>3 DEF SendComplete, Cook
  <2>3. [c EXCEPT !.on = r].task = c.task
    BY <2>2 DEF Cook
  <2> HIDE DEF c
  <2>4. cook'[w].task = cook[w].task /\ \A v \in Workers \ {w} : cook'[v] = cook[v]
    BY <1>1, <2>1, <2>2, <2>3
  <2>5. QED
    BY <2>2, <2>4 DEF NoneBegins, Busy
<1>4. QED
  BY <1>2, <1>3

\* A request is answered with success.
LEMMA SuccessBegins == ASSUME FInv, NEW r \in Requests, EndsWell(r) PROVE OnlyClaimsCook
<1> SUFFICES ASSUME NEW w \in Workers, cook'[w].pc \in Busy, cook'[w] # cook[w]
             PROVE  /\ cook'[w].task = cook[w].task
                    /\ req[r].pc = "start_call" /\ req[r].task = cook[w].task
  BY DEF OnlyClaimsCook
<1>1. Answer(r, TRUE) /\ req[r].pc \in {"start_call", "final_task"} /\ cook[w] \in Cook
  BY DEF EndsWell, StartAnswer, CompleteCommit, FInv, FloorTypeOK
<1>2. cook[w].on = r /\ cook'[w] = Succeeded(cook[w])
  BY <1>1 DEF Answer
<1>3. cook[w].pc = "claiming" /\ cook'[w] = [cook[w] EXCEPT !.pc = "cooking", !.on = NULL]
  BY <1>2, Shapes DEF Succeeded, Busy
<1>4. cook'[w].task = cook[w].task
  BY <1>1, <1>3, NextCook
<1>5. QED
  BY <1>1, <1>2, <1>3, <1>4, WaiterOf

\* Every step of the floor.
LEMMA FloorBegins == ASSUME FInv, [FloorNext]_floorVars PROVE OnlyClaimsCook
<1>1. NoneBegins => OnlyClaimsCook
  BY DEF NoneBegins, OnlyClaimsCook
<1>2. cook' = cook => NoneBegins
  BY DEF NoneBegins
<1>3. CASE UNCHANGED floorVars
  BY <1>1, <1>2, <1>3 DEF floorVars
<1>4. ASSUME NEW w \in Workers, TimesOut(w) PROVE NoneBegins
  BY <1>4, FailedCooks DEF TimesOut, FInv, FloorTypeOK, NoneBegins
<1>5. CASE Restart
  <2>1. \A w \in Workers : cook'[w].pc = "polling"
    BY <1>5, Shapes DEF Restart
  <2>2. QED
    BY <1>1, <2>1 DEF NoneBegins, Busy
<1>6. ASSUME NEW r \in Requests, Arrives(r) \/ Lost(r) \/ Deliver(r) \/ GoesOn(r) \/ EndsBadly(r)
      PROVE  NoneBegins
  BY <1>2, <1>6, FailureBegins DEF Arrives, Lost, Deliver, GoesOn, EndsBadly
<1>7. QED
  BY <1>1, <1>2, <1>3, <1>4, <1>5, <1>6, SendBegins, SuccessBegins DEF FloorNext

-----------------------------------------------------------------------------
(* The agreement *)

\* What fulfillment-service did stays done, and it does only what a worker has
\* in hand.
RowsForward ==
  \A t \in Tasks :
    /\ ftask[t].status = "done" => ftask'[t].status = "done"
    /\ ftask[t].status \in Started => ftask'[t].status \in Started
    /\ ftask'[t].status = "done" => ftask[t].status = "done" \/ Held(t)

\* What a step tells workers and requests is true of the rows.
BeginTruly ==
  \A w \in Workers : cook'[w].pc \in Busy =>
    cook[w].pc \in Busy \/ ftask'[cook[w].task].status \in Started
FinishTruly ==
  \A r \in Requests :
    req[r].pc = "complete_call" /\ req'[r].pc \in Final => ftask'[req[r].task].status = "done"
ToldTruth == BeginTruly /\ FinishTruly

\* It is if the claims that end well are about tasks that were started.
LEMMA ClaimsTold ==
  ASSUME FInv, [FloorNext]_floorVars,
         \A r \in Requests :
           req[r].pc = "start_call" /\ EndsWell(r) => ftask'[req[r].task].status \in Started
  PROVE  BeginTruly
  BY FloorBegins DEF OnlyClaimsCook, BeginTruly

\* Such steps preserve the agreement.
LEMMA AgreementKept ==
  ASSUME FInv, Agreement, [FloorNext]_floorVars, RowsForward, ToldTruth
  PROVE  Agreement'
<1> USE DEF Agreement
<1>1. HandsStay /\ OnlyFinalCompletes /\ OnlyCallsFinish /\ OnlyClaimsCook /\ TypeOK
  BY FloorEffect, FloorBegins DEF FInv, IInv
<1>2. \A t \in Tasks : ftask'[t].status = "done" => Held(t)'
  BY <1>1 DEF HandsStay, RowsForward
<1>3. ASSUME NEW r \in Requests, req[r].pc \in Final \union {"complete_call"}
      PROVE  req[r].task \in Tasks
  BY <1>1, <1>3, RequestTask DEF Final
<1>4. \A t \in Tasks : kds'[t].status = "completed" => ftask'[t].status = "done"
  BY <1>1 DEF OnlyFinalCompletes, RowsForward
<1>5. ASSUME NEW r \in Requests, req'[r].pc \in Final PROVE ftask'[req'[r].task].status = "done"
  <2>1. req'[r].task = req[r].task /\ (req[r].pc \in Final \/ req[r].pc = "complete_call")
    BY <1>1, <1>5 DEF OnlyCallsFinish
  <2>2. QED
    BY <1>3, <1>5, <2>1 DEF RowsForward, ToldTruth, FinishTruly
<1>6. ASSUME NEW w \in Workers, cook'[w].pc \in Busy
      PROVE  ftask'[cook'[w].task].status \in Started
  <2>1. CASE cook[w].pc \in Busy
    <3>1. cook[w].task \in Tasks /\ cook'[w].task = cook[w].task
      BY <1>1, <1>6, <2>1 DEF OnlyClaimsCook, FInv, FloorInv, WorkerOK, Busy
    <3>2. QED
      BY <2>1, <3>1 DEF RowsForward
  <2>2. CASE cook[w].pc \notin Busy
    BY <1>1, <1>6, <2>2 DEF OnlyClaimsCook, ToldTruth, BeginTruly
  <2>3. QED
    BY <2>1, <2>2
<1>7. QED
  BY <1>2, <1>4, <1>5, <1>6

-----------------------------------------------------------------------------
(* The calls *)

\* Calls that stay as they are, or are over.
LEMMA CallsKept ==
  ASSUME CallsInv, HandsStay, SlotsOK', RowsOK',
         \A f \in Sessions : Occupied(f)' => Occupied(f) /\ CallOf(f)' = CallOf(f),
         \A r \in Requests : on'[r] # NULL =>
           /\ on'[r] = on[r] /\ req'[r].pc = req[r].pc /\ req'[r].task = req[r].task
           /\ \A f \in Sessions : on[r] = f => Occupied(f)'
  PROVE  CallsInv'
<1> USE DEF CallsInv
<1>1. ASSUME NEW r \in Requests, on'[r] # NULL
      PROVE  \E f \in Sessions :
               /\ on'[r] = f /\ Occupied(f)' /\ CallOf(f)'.task = req'[r].task
               /\ \/ req'[r].pc = "start_call" /\ CallOf(f)'.op = "start"
                  \/ req'[r].pc = "complete_call" /\ CallOf(f)'.op = "complete"
  <2>1. PICK f \in Sessions :
          /\ on[r] = f /\ Occupied(f) /\ CallOf(f).task = req[r].task
          /\ \/ req[r].pc = "start_call" /\ CallOf(f).op = "start"
             \/ req[r].pc = "complete_call" /\ CallOf(f).op = "complete"
    BY <1>1 DEF Waiting, Waits
  <2>2. Occupied(f)' /\ CallOf(f)' = CallOf(f)
    BY <1>1, <2>1
  <2>3. QED
    BY <1>1, <2>1, <2>2
<1>2. Waiting'
  BY <1>1 DEF Waiting, Waits
<1>3. ASSUME NEW f \in Sessions, NEW t \in Tasks,
             Occupied(f)', CallOf(f)'.op = "complete", CallOf(f)'.task = t
      PROVE  Held(t)'
  BY <1>3 DEF CallsInHand, HandsStay
<1>4. CallsInHand'
  BY <1>3 DEF CallsInHand
<1>5. QED
  BY <1>2, <1>4

\* Steps of the floor that leave the calls alone, but for requests that no longer wait.
LEMMA FloorCalls ==
  ASSUME FInv, CallsInv, [FloorNext]_floorVars, UNCHANGED <<fulfillmentVars, wire>>,
         DOMAIN on' = Requests,
         \A r \in Requests : on'[r] # NULL =>
           on'[r] = on[r] /\ req'[r].pc = req[r].pc /\ req'[r].task = req[r].task
  PROVE  CallsInv'
<1>1. UNCHANGED <<ftask, session, wire>>
  BY DEF fulfillmentVars
<1>2. HandsStay
  BY FloorEffect
<1>3. \A f \in Sessions : (Occupied(f)' <=> Occupied(f)) /\ CallOf(f)' = CallOf(f)
  BY <1>1 DEF Occupied, CallOf
<1>4. SlotsOK' /\ RowsOK'
  BY <1>1, <1>3 DEF CallsInv, SlotsOK, RowsOK
<1>5. ASSUME NEW r \in Requests, on'[r] # NULL, NEW f \in Sessions, on[r] = f PROVE Occupied(f)'
  BY <1>3, <1>5 DEF CallsInv, Waiting, Waits
<1>6. QED
  BY <1>2, <1>3, <1>4, <1>5, CallsKept

\* A free slot is nobody's.
LEMMA FreeSlotUnused ==
  ASSUME CallsInv, NEW f \in Sessions, FreeSlot(f)
  PROVE  session[f].pc = "idle" /\ wire[f] = NoCall /\ ~Occupied(f) /\ \A r \in Requests : on[r] # f
<1>1. session[f].pc = "idle" /\ wire[f] = NoCall /\ ~Occupied(f)
  BY DEF FreeSlot, Occupied, F!Idle
<1>2. \A r \in Requests : on[r] # f
  BY <1>1, NullIsNoSession DEF CallsInv, Waiting, Waits
<1>3. QED
  BY <1>1, <1>2

\* A call sets out: the scheduler's, or the one of a request that waits for it.
LEMMA CallSetsOut ==
  ASSUME CInv, NEW f \in Sessions, FreeSlot(f), NEW c, c # NoCall, c.task \in Tasks,
         c.op = "complete" => Held(c.task),
         wire' = [wire EXCEPT ![f] = c], UNCHANGED <<floorVars, fulfillmentVars>>,
         \/ on' = on
         \/ \E r \in Requests :
              /\ on' = [on EXCEPT ![r] = f] /\ c.task = req[r].task
              /\ \/ req[r].pc = "start_call" /\ c.op = "start"
                 \/ req[r].pc = "complete_call" /\ c.op = "complete"
  PROVE  CallsInv' /\ Agreement'
<1> USE DEF CInv, CallsInv
<1>1. UNCHANGED <<kds, req, cook, ftask, session>>
  BY DEF floorVars, vars, fulfillmentVars
<1>2. Agreement'
  BY <1>1 DEF Agreement, Held, InHand
<1>3. session[f].pc = "idle" /\ ~Occupied(f) /\ \A r \in Requests : on[r] # f
  BY FreeSlotUnused
<1>4. /\ DOMAIN wire' = Sessions /\ wire'[f] = c
      /\ \A g \in Sessions \ {f} : wire'[g] = wire[g]
  BY DEF SlotsOK
<1>5. /\ Occupied(f)' /\ CallOf(f)' = c
      /\ \A g \in Sessions \ {f} : (Occupied(g)' <=> Occupied(g)) /\ CallOf(g)' = CallOf(g)
  BY <1>1, <1>4 DEF Occupied, CallOf
<1>6. \A t \in Tasks : Held(t)' <=> Held(t)
  BY <1>1 DEF Held, InHand
<1>7. DOMAIN on' = Requests
  BY DEF SlotsOK
<1>8. SlotsOK'
  <2>1. ASSUME NEW g \in Sessions
        PROVE  /\ Occupied(g)' => CallOf(g)'.task \in Tasks
               /\ wire'[g] # NoCall => session'[g].pc = "idle"
    BY <1>1, <1>3, <1>4, <1>5 DEF SlotsOK
  <2>2. QED
    BY <1>1, <1>4, <1>7, <2>1 DEF SlotsOK
<1>9. RowsOK'
  BY <1>1 DEF RowsOK
<1>10. ASSUME NEW g \in Sessions, NEW t \in Tasks,
              Occupied(g)', CallOf(g)'.op = "complete", CallOf(g)'.task = t
       PROVE  Held(t)'
  BY <1>5, <1>6, <1>10 DEF CallsInHand
<1>11. CallsInHand'
  BY <1>10 DEF CallsInHand
<1>12. ASSUME NEW q \in Requests, on'[q] # NULL
       PROVE  \E g \in Sessions :
                /\ on'[q] = g /\ Occupied(g)' /\ CallOf(g)'.task = req'[q].task
                /\ \/ req'[q].pc = "start_call" /\ CallOf(g)'.op = "start"
                   \/ req'[q].pc = "complete_call" /\ CallOf(g)'.op = "complete"
  <2>1. CASE on'[q] = on[q]
    <3>1. PICK g \in Sessions :
            /\ on[q] = g /\ Occupied(g) /\ CallOf(g).task = req[q].task
            /\ \/ req[q].pc = "start_call" /\ CallOf(g).op = "start"
               \/ req[q].pc = "complete_call" /\ CallOf(g).op = "complete"
      BY <1>12, <2>1 DEF Waiting, Waits
    <3>2. g # f
      BY <1>3, <3>1
    <3>3. Occupied(g)' /\ CallOf(g)' = CallOf(g)
      BY <1>5, <3>1, <3>2
    <3>4. QED
      BY <1>1, <2>1, <3>1, <3>3
  <2>2. CASE on'[q] # on[q]
    <3>1. /\ on'[q] = f /\ c.task = req[q].task
          /\ \/ req[q].pc = "start_call" /\ c.op = "start"
             \/ req[q].pc = "complete_call" /\ c.op = "complete"
      BY <2>2 DEF SlotsOK
    <3>2. QED
      BY <1>1, <1>5, <3>1
  <2>3. QED
    BY <2>1, <2>2
<1>13. \A q, p \in Requests : on'[q] # NULL /\ on'[q] = on'[p] => q = p
  BY <1>3 DEF SlotsOK, Waiting
<1>14. Waiting'
  BY <1>12, <1>13 DEF Waiting, Waits
<1>15. QED
  BY <1>2, <1>8, <1>9, <1>11, <1>14

-----------------------------------------------------------------------------
(* What fulfillment-service does with a call *)

\* The row of a task, written by a transition.
LEMMA WrittenStatus ==
  ASSUME NEW row, "status" \in DOMAIN row, NEW st, NEW a, NEW b
  PROVE  /\ [row EXCEPT !.status = st].status = st
         /\ [row EXCEPT !.status = st, !.station_id = a, !.kds_task_id = b].status = st
         /\ [row EXCEPT !.status = st, !.started_at = a].status = st
         /\ [row EXCEPT !.status = st, !.attempts = a].status = st
         /\ "status" \in DOMAIN [row EXCEPT !.status = st]
         /\ "status" \in DOMAIN [row EXCEPT !.status = st, !.station_id = a, !.kds_task_id = b]
         /\ "status" \in DOMAIN [row EXCEPT !.status = st, !.started_at = a]
         /\ "status" \in DOMAIN [row EXCEPT !.status = st, !.attempts = a]
  OBVIOUS

\* The session of slot f ends with the row as it was, ...
Quits(f) == session' = [session EXCEPT ![f] = F!Idle] /\ ftask' = ftask

\* ... with the row written, ...
Commits(f, from, to) ==
  LET t == session[f].call.task IN
  /\ session' = [session EXCEPT ![f] = F!Idle]
  /\ ftask[t].status = from
  /\ \E row : ftask' = [ftask EXCEPT ![t] = row] /\ "status" \in DOMAIN row /\ row.status = to

\* ... or it goes on to write it.
Tallies(f) ==
  /\ ftask' = ftask
  /\ \E ready : session' = [session EXCEPT ![f] =
                  [pc |-> "counted", call |-> session[f].call, row |-> session[f].row,
                   order |-> session[f].order, order_ready |-> ready]]

Transitions(f) ==
  LET op == session[f].call.op IN
  \/ op = "mark_displayed" /\ \E from \in {"queued", "retrying"} : Commits(f, from, "displayed")
  \/ op = "dispatch_failed" /\ \E from \in {"queued", "retrying"} : Commits(f, from, "failed")
  \/ op = "start" /\ Commits(f, "displayed", "in_progress")
  \/ op = "complete" /\ session[f].pc = "counted" /\ Commits(f, "in_progress", "done")

\* A write of the row that the session holds.
LEMMA RowCommits ==
  ASSUME NEW f, NEW t, NEW from, NEW to, NEW row,
         t = session[f].call.task, ftask[t].status = from,
         session' = [session EXCEPT ![f] = F!Idle], ftask' = [ftask EXCEPT ![t] = row],
         "status" \in DOMAIN row, row.status = to
  PROVE  Commits(f, from, to)
  BY DEF Commits

\* A call that is accepted without a write has found its work done.
Replays(f) ==
  LET op == session[f].call.op
      st == ftask[session[f].call.task].status IN
  /\ op = "start" /\ Accepted(f) => st = "in_progress"
  /\ op = "complete" /\ Accepted(f) => st = "done"

\* Every step of a handler is one of these.
LEMMA Handled ==
  ASSUME CallsInv, NEW f \in Sessions, F!Handler(f)
  PROVE  /\ session[f].pc \in {"locked", "counted"}
         /\ \/ Quits(f) /\ Replays(f)
            \/ Transitions(f)
            \/ /\ Tallies(f) /\ session[f].call.op = "complete"
               /\ session[f].row.status = "in_progress"
<1> USE DEF CallsInv
<1>1. session[f].pc \in {"locked", "counted"}
  BY DEF F!Handler, F!MarkDisplayed, F!StartTask, F!CompleteTask, F!CompleteCommit,
     F!DispatchFailed, F!At
<1> PICK t, row, op : t = session[f].call.task /\ row = session[f].row /\ op = session[f].call.op
  OBVIOUS
<1>2. /\ t \in Tasks /\ t = session[f].call.task
      /\ row = session[f].row /\ row = ftask[t] /\ "status" \in DOMAIN row
      /\ op = session[f].call.op
      /\ session[f].pc = "counted" => row.status = "in_progress" /\ op = "complete"
  BY <1>1 DEF RowsOK, SlotsOK, Occupied, CallOf
<1>3. CASE F!MarkDisplayed(f)
  <2>1. op = "mark_displayed"
    BY <1>2, <1>3 DEF F!MarkDisplayed, F!At
  <2>2. CASE F!AnswerUnchanged(f)
    BY <1>1, <1>2, <2>1, <2>2 DEF F!AnswerUnchanged, F!Release, Quits, Replays
  <2>3. CASE ~F!AnswerUnchanged(f)
    <3> DEFINE new == [row EXCEPT !.status = "displayed", !.station_id = session[f].call.station_id,
                                  !.kds_task_id = session[f].call.kds_task_id]
    <3>1. /\ row.status \in {"queued", "retrying"}
          /\ session' = [session EXCEPT ![f] = F!Idle]
          /\ ftask' = [ftask EXCEPT ![t] = new]
      BY <1>2, <1>3, <2>3 DEF F!MarkDisplayed, F!MayDisplay, F!can_transition,
         F!ALLOWED_TRANSITIONS, F!Release
    <3>2. PICK from \in {"queued", "retrying"} : from = row.status
      BY <3>1
    <3>3. Commits(f, from, "displayed")
      <4>1. "status" \in DOMAIN new /\ new.status = "displayed"
        BY <1>2, WrittenStatus
      <4> HIDE DEF new
      <4>2. QED
        BY <1>2, <3>1, <3>2, <4>1, RowCommits
    <3>4. QED
      BY <1>1, <1>2, <2>1, <3>3 DEF Transitions
  <2>4. QED
    BY <1>1, <2>2, <2>3
<1>4. CASE F!DispatchFailed(f)
  <2>1. op = "dispatch_failed"
    BY <1>2, <1>4 DEF F!DispatchFailed, F!At
  <2>2. CASE F!AnswerUnchanged(f)
    BY <1>1, <1>2, <2>1, <2>2 DEF F!AnswerUnchanged, F!Release, Quits, Replays
  <2>3. CASE ~F!AnswerUnchanged(f)
    <3> DEFINE n == IF session[f].call.attempts > row.attempts
                    THEN session[f].call.attempts ELSE row.attempts
               new == [row EXCEPT !.status = "failed", !.attempts = n]
    <3>1. /\ row.status \in {"queued", "retrying"}
          /\ session' = [session EXCEPT ![f] = F!Idle]
          /\ ftask' = [ftask EXCEPT ![t] = new]
      BY <1>2, <1>4, <2>3 DEF F!DispatchFailed, F!can_transition, F!ALLOWED_TRANSITIONS, F!Release
    <3>2. PICK from \in {"queued", "retrying"} : from = row.status
      BY <3>1
    <3>3. Commits(f, from, "failed")
      <4> HIDE DEF n
      <4>1. "status" \in DOMAIN new /\ new.status = "failed"
        BY <1>2, WrittenStatus
      <4> HIDE DEF new
      <4>2. QED
        BY <1>2, <3>1, <3>2, <4>1, RowCommits
    <3>4. QED
      BY <1>1, <1>2, <2>1, <3>3 DEF Transitions
  <2>4. QED
    BY <1>1, <2>2, <2>3
<1>5. CASE F!StartTask(f)
  <2>1. op = "start" /\ session[f].pc = "locked"
    BY <1>2, <1>5 DEF F!StartTask, F!At
  <2>2. CASE /\ F!Already(f, "in_progress") \/ ~F!MayStart(f)
             /\ F!AnswerUnchanged(f)
    <3>1. Accepted(f) => row.status = "in_progress"
      BY <1>2, <2>1, <2>2 DEF Accepted, F!Already
    <3>2. QED
      BY <1>1, <1>2, <2>1, <2>2, <3>1 DEF F!AnswerUnchanged, F!Release, Quits, Replays
  <2>3. CASE ~(/\ F!Already(f, "in_progress") \/ ~F!MayStart(f)
               /\ F!AnswerUnchanged(f))
    <3> DEFINE new == [row EXCEPT !.status = "in_progress", !.started_at = session[f].call.at]
    <3>1. /\ row.status = "displayed"
          /\ session' = [session EXCEPT ![f] = F!Idle]
          /\ ftask' = [ftask EXCEPT ![t] = new]
      BY <1>2, <1>5, <2>3 DEF F!StartTask, F!MayStart, F!can_transition, F!ALLOWED_TRANSITIONS,
         F!Release
    <3>2. Commits(f, "displayed", "in_progress")
      <4>1. "status" \in DOMAIN new /\ new.status = "in_progress"
        BY <1>2, WrittenStatus
      <4> HIDE DEF new
      <4>2. QED
        BY <1>2, <3>1, <4>1, RowCommits
    <3>3. QED
      BY <1>1, <1>2, <2>1, <3>2 DEF Transitions
  <2>4. QED
    BY <2>2, <2>3
<1>6. CASE F!CompleteTask(f)
  <2>1. op = "complete" /\ session[f].pc = "locked"
    BY <1>2, <1>6 DEF F!CompleteTask, F!At
  <2>2. CASE F!AnswerUnchanged(f)
    <3>1. Accepted(f) => row.status = "done"
      BY <1>2, <2>1, <2>2 DEF Accepted
    <3>2. QED
      BY <1>1, <1>2, <2>1, <2>2, <3>1 DEF F!AnswerUnchanged, F!Release, Quits, Replays
  <2>3. CASE ~F!AnswerUnchanged(f)
    <3>1. row.status = "in_progress" /\ Tallies(f)
      BY <1>2, <1>6, <2>3 DEF F!CompleteTask, F!MayComplete, F!can_transition,
         F!ALLOWED_TRANSITIONS, Tallies
    <3>2. QED
      BY <1>1, <1>2, <2>1, <3>1
  <2>4. QED
    BY <2>2, <2>3
<1>7. CASE F!CompleteCommit(f)
  <2> DEFINE new == [row EXCEPT !.status = "done"]
  <2>1. /\ session[f].pc = "counted" /\ op = "complete" /\ row.status = "in_progress"
        /\ session' = [session EXCEPT ![f] = F!Idle]
        /\ ftask' = [ftask EXCEPT ![t] = new]
    BY <1>2, <1>7 DEF F!CompleteCommit, F!Release
  <2>2. Commits(f, "in_progress", "done")
    <3>1. "status" \in DOMAIN new /\ new.status = "done"
      BY <1>2, WrittenStatus
    <3> HIDE DEF new
    <3>2. QED
      BY <1>2, <2>1, <3>1, RowCommits
  <2>3. QED
    BY <1>1, <1>2, <2>1, <2>2 DEF Transitions
<1>8. QED
  BY <1>3, <1>4, <1>5, <1>6, <1>7 DEF F!Handler

\* What it means for the rows, the other sessions and the answer.
LEMMA Served ==
  ASSUME CallsInv, NEW f \in Sessions, F!Handler(f), NEW t, t = session[f].call.task,
         NEW op, op = session[f].call.op
  PROVE  /\ t \in Tasks /\ session[f].pc # "idle" /\ wire[f] = NoCall
         /\ DOMAIN session' = Sessions /\ \A g \in Sessions \ {f} : session'[g] = session[g]
         /\ DOMAIN ftask' = Tasks /\ \A u \in Tasks \ {t} : ftask'[u] = ftask[u]
         /\ "status" \in DOMAIN ftask'[t]
         /\ \/ session'[f] = F!Idle
            \/ /\ session'[f].pc = "counted" /\ session'[f].call = session[f].call
               /\ session'[f].row = session[f].row /\ session[f].row.status = "in_progress"
               /\ op = "complete" /\ ftask' = ftask
         /\ RowsForward
         /\ session'[f] = F!Idle /\ Accepted(f) =>
              /\ op = "start" => ftask'[t].status = "in_progress"
              /\ op = "complete" => ftask'[t].status = "done"
<1> USE DEF CallsInv
<1>1. session[f].pc \in {"locked", "counted"}
  BY Handled
<1>2. /\ t \in Tasks /\ "status" \in DOMAIN ftask[t] /\ wire[f] = NoCall /\ Occupied(f)
      /\ CallOf(f) = session[f].call
  BY <1>1 DEF RowsOK, SlotsOK, Occupied, CallOf
<1>3. DOMAIN session = Sessions /\ DOMAIN ftask = Tasks
  BY DEF SlotsOK
<1>4. CASE Quits(f) /\ Replays(f)
  BY <1>1, <1>2, <1>3, <1>4 DEF Quits, Replays, RowsForward
<1>5. ASSUME NEW from, NEW to, Commits(f, from, to)
      PROVE  /\ DOMAIN session' = Sessions /\ \A g \in Sessions \ {f} : session'[g] = session[g]
             /\ DOMAIN ftask' = Tasks /\ \A u \in Tasks \ {t} : ftask'[u] = ftask[u]
             /\ "status" \in DOMAIN ftask'[t] /\ session'[f] = F!Idle
             /\ ftask[t].status = from /\ ftask'[t].status = to
  <2>1. PICK row : ftask' = [ftask EXCEPT ![t] = row] /\ "status" \in DOMAIN row /\ row.status = to
    BY <1>5 DEF Commits
  <2>2. session' = [session EXCEPT ![f] = F!Idle] /\ ftask[t].status = from
    BY <1>5 DEF Commits
  <2>3. QED
    BY <1>2, <1>3, <2>1, <2>2
<1>6. CASE Transitions(f)
  <2>1. /\ DOMAIN session' = Sessions /\ \A g \in Sessions \ {f} : session'[g] = session[g]
        /\ DOMAIN ftask' = Tasks /\ \A u \in Tasks \ {t} : ftask'[u] = ftask[u]
        /\ "status" \in DOMAIN ftask'[t] /\ session'[f] = F!Idle
    BY <1>5, <1>6 DEF Transitions
  <2>2. /\ ftask[t].status \in {"queued", "retrying", "displayed", "in_progress"}
        /\ ftask[t].status = "in_progress" => ftask'[t].status = "done"
        /\ ftask'[t].status = "done" => op = "complete"
        /\ op = "start" => ftask'[t].status = "in_progress"
        /\ op = "complete" => ftask'[t].status = "done"
    BY <1>5, <1>6 DEF Transitions
  <2>3. op = "complete" => Held(t)
    BY <1>2 DEF CallsInHand
  <2>4. RowsForward
    BY <2>1, <2>2, <2>3 DEF RowsForward, Started
  <2>5. QED
    BY <1>1, <1>2, <2>1, <2>2, <2>4
<1>7. CASE /\ Tallies(f) /\ session[f].call.op = "complete"
           /\ session[f].row.status = "in_progress"
  <2>1. PICK ready : session' = [session EXCEPT ![f] =
                       [pc |-> "counted", call |-> session[f].call, row |-> session[f].row,
                        order |-> session[f].order, order_ready |-> ready]]
    BY <1>7 DEF Tallies
  <2>2. /\ DOMAIN session' = Sessions /\ \A g \in Sessions \ {f} : session'[g] = session[g]
        /\ session'[f].pc = "counted" /\ session'[f].call = session[f].call
        /\ session'[f].row = session[f].row
    BY <1>3, <2>1
  <2>3. session'[f] # F!Idle
    BY <2>2 DEF F!Idle
  <2>4. QED
    BY <1>1, <1>2, <1>3, <1>7, <2>2, <2>3 DEF Tallies, RowsForward
<1>8. QED
  BY <1>4, <1>6, <1>7, Handled

\* The other calls stay what they are when a handler takes a step.
LEMMA ServedCalls ==
  ASSUME CallsInv, HandsStay, NEW f \in Sessions, F!Handler(f) \/ F!Rollback(f), wire' = wire,
         DOMAIN on' = Requests,
         \A r \in Requests : on'[r] # NULL =>
           /\ on'[r] = on[r] /\ req'[r] = req[r]
           /\ session'[f] = F!Idle => on[r] # f
  PROVE  CallsInv'
<1> USE DEF CallsInv
<1> PICK t : t = session[f].call.task
  OBVIOUS
<1>1. /\ t \in Tasks /\ session[f].pc # "idle" /\ wire[f] = NoCall
      /\ DOMAIN session' = Sessions /\ \A g \in Sessions \ {f} : session'[g] = session[g]
      /\ DOMAIN ftask' = Tasks /\ \A u \in Tasks \ {t} : ftask'[u] = ftask[u]
      /\ "status" \in DOMAIN ftask'[t]
      /\ \/ session'[f] = F!Idle
         \/ /\ session'[f].pc = "counted" /\ session'[f].call = session[f].call
            /\ session'[f].row = session[f].row /\ session[f].row.status = "in_progress"
            /\ session[f].call.op = "complete" /\ ftask' = ftask
  <2>1. CASE F!Handler(f)
    BY <2>1, Served
  <2>2. CASE F!Rollback(f)
    <3>1. session[f].pc # "idle" /\ session' = [session EXCEPT ![f] = F!Idle] /\ ftask' = ftask
      BY <2>2 DEF F!Rollback, F!AnswerUnchanged, F!Release
    <3>2. t \in Tasks /\ wire[f] = NoCall
      BY <3>1 DEF SlotsOK, Occupied, CallOf
    <3>3. QED
      BY <3>1, <3>2 DEF SlotsOK
  <2>3. QED
    BY <2>1, <2>2
<1>2. F!Idle.pc = "idle"
  BY DEF F!Idle
<1>3. ASSUME NEW g \in Sessions
      PROVE  /\ Occupied(g)' => Occupied(g) /\ CallOf(g)' = CallOf(g)
             /\ g # f \/ session'[f] # F!Idle => (Occupied(g)' <=> Occupied(g))
  <2>1. CASE g # f
    BY <1>1, <2>1 DEF Occupied, CallOf
  <2>2. CASE g = f
    BY <1>1, <1>2, <2>2 DEF Occupied, CallOf
  <2>3. QED
    BY <2>1, <2>2
<1>4. \A g \in Sessions : session'[g].pc # "idle" =>
        /\ session[g].pc # "idle" /\ session'[g].call = session[g].call
        /\ session'[g].row = session[g].row
  BY <1>1, <1>2
<1>5. SlotsOK'
  <2>1. \A g \in Sessions : wire'[g] # NoCall => session'[g].pc = "idle"
    BY <1>1, <1>2 DEF SlotsOK
  <2>2. ASSUME NEW g \in Sessions, Occupied(g)' PROVE CallOf(g)'.task \in Tasks
    BY <1>3, <2>2 DEF SlotsOK
  <2>3. \A u \in Tasks : "status" \in DOMAIN ftask'[u]
    BY <1>1 DEF SlotsOK
  <2>4. QED
    BY <1>1, <2>1, <2>2, <2>3 DEF SlotsOK
<1>6. RowsOK'
  <2>1. ASSUME NEW g \in Sessions, NEW h \in Sessions,
               session'[g].pc # "idle", session'[h].pc # "idle",
               session'[g].call.task = session'[h].call.task
        PROVE  g = h
    BY <1>4, <2>1 DEF RowsOK
  <2>2. ASSUME NEW g \in Sessions, session'[g].pc # "idle"
        PROVE  /\ session'[g].row = ftask'[session'[g].call.task]
               /\ session'[g].pc = "counted" =>
                    session'[g].row.status = "in_progress" /\ session'[g].call.op = "complete"
    <3>1. CASE g = f
      BY <1>1, <1>2, <2>2, <3>1 DEF RowsOK
    <3>2. CASE g # f
      <4>1. session[g].call.task # t /\ session[g].call.task \in Tasks
        BY <1>1, <1>4, <2>2, <3>2 DEF RowsOK, SlotsOK, Occupied, CallOf
      <4>2. QED
        BY <1>1, <2>2, <3>2, <4>1 DEF RowsOK
    <3>3. QED
      BY <3>1, <3>2
  <2>3. QED
    BY <2>1, <2>2 DEF RowsOK
<1>7. ASSUME NEW r \in Requests, on'[r] # NULL
      PROVE  /\ on'[r] = on[r] /\ req'[r].pc = req[r].pc /\ req'[r].task = req[r].task
             /\ \A g \in Sessions : on[r] = g => Occupied(g)'
  <2>1. ASSUME NEW g \in Sessions, on[r] = g PROVE Occupied(g)'
    BY <1>3, <1>7, <2>1 DEF Waiting, Waits
  <2>2. QED
    BY <1>7, <2>1
<1>8. QED
  BY <1>3, <1>5, <1>6, <1>7, CallsKept

-----------------------------------------------------------------------------
(* The steps *)

StepOK == [FloorNext]_floorVars /\ CallsInv' /\ Agreement'

\* A request that ends well is over.
LEMMA WellEnds == ASSUME TypeOK, NEW r \in Requests, EndsWell(r) PROVE req'[r] = Idle
  BY EndEnds DEF EndsWell, StartAnswer, CompleteCommit, Ends

\* Only a request in a call waits.
LEMMA WaitersCall ==
  ASSUME CallsInv, NEW r \in Requests, on[r] # NULL PROVE req[r].pc \in Calling
  BY DEF CallsInv, Waiting, Waits, Calling

\* The floor goes on while the calls are left alone.
LEMMA FloorAlone ==
  ASSUME CInv, FloorNext, Elsewhere, \A r \in Requests : req[r].pc \in Calling => req'[r] = req[r]
  PROVE  StepOK
<1> USE DEF CInv, Elsewhere
<1>1. UNCHANGED <<ftask, on>> /\ DOMAIN on = Requests /\ TypeOK
  BY DEF fulfillmentVars, CallsInv, SlotsOK, FInv, IInv
<1>2. CallsInv'
  <2>1. \A r \in Requests : on'[r] # NULL =>
          on'[r] = on[r] /\ req'[r].pc = req[r].pc /\ req'[r].task = req[r].task
    BY <1>1, WaitersCall
  <2>2. QED
    BY <1>1, <2>1, FloorCalls
<1>3. RowsForward
  BY <1>1 DEF RowsForward
<1>4. BeginTruly
  <2>1. ASSUME NEW r \in Requests, req[r].pc = "start_call", EndsWell(r) PROVE FALSE
    BY <1>1, <2>1, WellEnds, Shapes DEF Calling
  <2>2. QED
    BY <2>1, ClaimsTold
<1>5. FinishTruly
  BY DEF FinishTruly, Calling, Final
<1>6. QED
  BY <1>2, <1>3, <1>4, <1>5, AgreementKept DEF StepOK, ToldTruth

\* A worker takes a step.
LEMMA CookStepOK == ASSUME CInv, NEW w \in Workers, CookStep(w) PROVE StepOK
<1>1. FloorNext /\ Elsewhere
  BY DEF CookStep, FloorNext
<1>2. req' = req
  BY DEF CookStep, Poll, SendComplete, TimesOut, vars
<1>3. QED
  BY <1>1, <1>2, FloorAlone

\* station-simulator is restarted.
LEMMA RestartOK == ASSUME CInv, Restart, Elsewhere PROVE StepOK
<1>1. FloorNext /\ req' = req
  BY DEF FloorNext, Restart, vars
<1>2. QED
  BY <1>1, FloorAlone

\* A request arrives at kitchen-service or is lost.
LEMMA ArrivalOK ==
  ASSUME CInv, NEW r \in Requests, ((Arrives(r) \/ Lost(r)) /\ Elsewhere) \/ Delivers(r)
  PROVE  StepOK
<1>1. FloorNext /\ Elsewhere
  BY DEF FloorNext, Delivers
<1>2. CASE Lost(r)
  BY <1>1, <1>2, FloorAlone DEF Lost, vars
<1>3. CASE Arrives(r) \/ Deliver(r)
  <2>1. req[r] = Idle /\ Others(r)
    BY <1>3, FloorArrives, ArriveStep DEF CInv, FInv, FloorTypeOK
  <2>2. req[r].pc \notin Calling
    BY <2>1, Shapes DEF Calling
  <2>3. QED
    BY <1>1, <2>1, <2>2, FloorAlone DEF Others
<1>4. QED
  BY <1>2, <1>3 DEF Delivers

\* A request of kitchen-service takes a step outside its calls.
LEMMA KitchenStepOK == ASSUME CInv, NEW r \in Requests, KitchenStep(r) PROVE StepOK
<1>1. FloorNext /\ Elsewhere /\ req[r].pc \notin Calling
  BY DEF KitchenStep, FloorNext
<1>2. TypeOK /\ Kind(r)
  BY FloorProceeds, RequestStep DEF KitchenStep, CInv, FInv, IInv
<1>3. Others(r)
  BY <1>2, KindBasics
<1>4. QED
  BY <1>1, <1>3, FloorAlone DEF Others

\* kitchen-service dies while it waits for the answer of a start.
LEMMA DiesCallingOK == ASSUME CInv, NEW r \in Requests, DiesCalling(r) PROVE StepOK
<1> USE DEF CInv, DiesCalling
<1>1. FloorNext /\ TypeOK /\ req'[r] = Idle
  BY DEF FloorNext, EndsBadly, FInv, IInv
<1>2. Others(r)
  BY <1>1, FloorProceeds, RequestStep, KindBasics
<1>3. DOMAIN on' = Requests /\ on'[r] = NULL /\ \A q \in Requests \ {r} : on'[q] = on[q]
  BY DEF CallsInv, SlotsOK
<1>4. CallsInv'
  BY <1>1, <1>2, <1>3, FloorCalls DEF Others
<1>5. ftask' = ftask
  BY DEF fulfillmentVars
<1>6. RowsForward
  BY <1>5 DEF RowsForward
<1>7. BeginTruly
  BY FailureBegins DEF EndsBadly, NoneBegins, BeginTruly
<1>8. FinishTruly
  BY <1>1, <1>2, Shapes DEF FinishTruly, Others, Final
<1>9. QED
  BY <1>1, <1>4, <1>6, <1>7, <1>8, AgreementKept DEF StepOK, ToldTruth

\* kitchen-service goes on with the answer of a call.
LEMMA AnsweredStep ==
  ASSUME CInv, NEW r \in Requests, NEW ok \in BOOLEAN, Answered(r, ok)
  PROVE  /\ FloorNext /\ Others(r) /\ req[r].pc \in Calling
         /\ DOMAIN on' = Requests /\ on'[r] = NULL /\ \A q \in Requests \ {r} : on'[q] = on[q]
         /\ \A q \in Requests : req[q].pc = "start_call" /\ EndsWell(q) => q = r /\ ok
         /\ \A q \in Requests :
              req[q].pc = "complete_call" /\ req'[q].pc \in Final => q = r /\ ok
<1> USE DEF CInv
<1>1. TypeOK /\ (GoesOn(r) \/ EndsWell(r) \/ EndsBadly(r)) /\ req[r].pc \in Calling
  BY DEF FInv, IInv, Answered, Calling
<1>2. FloorNext /\ Others(r)
  BY <1>1, FloorProceeds, RequestStep, KindBasics DEF FloorNext
<1>3. DOMAIN on' = Requests /\ on'[r] = NULL /\ \A q \in Requests \ {r} : on'[q] = on[q]
  BY DEF Answered, CallsInv, SlotsOK
<1>4. ASSUME NEW q \in Requests, req[q].pc = "start_call", EndsWell(q) PROVE q = r /\ ok
  <2>1. req'[q] = Idle
    BY <1>1, <1>4, WellEnds
  <2>2. q = r
    BY <1>2, <1>4, <2>1, Shapes DEF Others
  <2>3. QED
    BY <1>4, <2>1, <2>2 DEF Answered, GoesOn
<1>5. ASSUME NEW q \in Requests, req[q].pc = "complete_call", req'[q].pc \in Final PROVE q = r /\ ok
  <2>1. q = r
    BY <1>2, <1>5 DEF Others, Final
  <2>2. req'[r] # Idle
    BY <1>5, <2>1, Shapes DEF Final
  <2>3. QED
    BY <1>5, <2>1, <2>2 DEF Answered, EndsBadly
<1>6. QED
  BY <1>1, <1>2, <1>3, <1>4, <1>5

\* The client gives up on a call.
LEMMA CallTimesOutOK == ASSUME CInv, NEW r \in Requests, CallTimesOut(r) PROVE StepOK
<1> USE DEF CInv
<1>1. /\ FloorNext /\ Others(r)
      /\ DOMAIN on' = Requests /\ on'[r] = NULL /\ \A q \in Requests \ {r} : on'[q] = on[q]
      /\ \A q \in Requests : ~(req[q].pc = "start_call" /\ EndsWell(q))
      /\ \A q \in Requests : ~(req[q].pc = "complete_call" /\ req'[q].pc \in Final)
  BY AnsweredStep DEF CallTimesOut
<1>2. UNCHANGED <<ftask, session>>
  BY DEF CallTimesOut, fulfillmentVars
<1>3. CallsInv'
  <2>1. CASE UNCHANGED wire
    BY <1>1, <1>2, <2>1, FloorCalls DEF CallTimesOut, Others
  <2>2. CASE on[r] # NULL /\ wire' = [wire EXCEPT ![on[r]] = NoCall]
    <3>1. PICK f \in Sessions : on[r] = f
      BY <2>2 DEF CallsInv, Waiting, Waits
    <3>2. /\ DOMAIN wire' = Sessions /\ wire'[f] = NoCall
          /\ \A g \in Sessions \ {f} : wire'[g] = wire[g]
      BY <2>2, <3>1 DEF CallsInv, SlotsOK
    <3>3. \A g \in Sessions : Occupied(g)' => Occupied(g) /\ CallOf(g)' = CallOf(g)
      BY <1>2, <3>2 DEF Occupied, CallOf, CallsInv, SlotsOK
    <3>4. \A g \in Sessions \ {f} : Occupied(g)' <=> Occupied(g)
      BY <1>2, <3>2 DEF Occupied
    <3>5. SlotsOK'
      <4>1. ASSUME NEW g \in Sessions, Occupied(g)' PROVE CallOf(g)'.task \in Tasks
        BY <3>3, <4>1 DEF CallsInv, SlotsOK
      <4>2. \A g \in Sessions : wire'[g] # NoCall => session'[g].pc = "idle"
        BY <1>2, <3>2 DEF CallsInv, SlotsOK
      <4>3. QED
        BY <1>1, <1>2, <3>2, <4>1, <4>2 DEF CallsInv, SlotsOK
    <3>6. RowsOK'
      BY <1>2 DEF CallsInv, RowsOK
    <3>7. ASSUME NEW q \in Requests, on'[q] # NULL
          PROVE  /\ on'[q] = on[q] /\ req'[q].pc = req[q].pc /\ req'[q].task = req[q].task
                 /\ \A g \in Sessions : on[q] = g => Occupied(g)'
      <4>1. q # r /\ on'[q] = on[q] /\ req'[q] = req[q]
        BY <1>1, <3>7 DEF Others
      <4>2. ASSUME NEW g \in Sessions, on[q] = g PROVE Occupied(g)'
        BY <2>2, <3>1, <3>4, <3>7, <4>1, <4>2 DEF CallsInv, Waiting, Waits
      <4>3. QED
        BY <4>1, <4>2
    <3>8. HandsStay
      BY <1>1, FloorEffect
    <3>9. QED
      BY <3>3, <3>5, <3>6, <3>7, <3>8, CallsKept
  <2>3. QED
    BY <2>1, <2>2 DEF CallTimesOut
<1>4. RowsForward
  BY <1>2 DEF RowsForward
<1>5. BeginTruly /\ FinishTruly
  BY <1>1, ClaimsTold DEF FinishTruly
<1>6. QED
  BY <1>1, <1>3, <1>4, <1>5, AgreementKept DEF StepOK, ToldTruth

\* A complete call is about a task in the hand of its worker.
LEMMA CompletesHeld ==
  ASSUME FInv, NEW r \in Requests, req[r].pc \in {"start_call", "complete_call"}
  PROVE  req[r].task \in Tasks /\ (req[r].pc = "complete_call" => Held(req[r].task))
<1>1. req[r] \in Work
  BY SessionShape DEF FInv, IInv, Pcs, HoldsNothing
<1>2. PICK t \in Tasks, w \in Workers : t = req[r].task /\ w = req[r].worker
  BY <1>1 DEF Work
<1>3. req[r].pc = "complete_call" => IsJob(r, "complete", t, w)
  BY <1>2 DEF IsJob, CompleteWork
<1>4. req[r].pc = "complete_call" => Held(t)
  BY <1>3 DEF FInv, FloorInv, JobsInHand, Held
<1>5. QED
  BY <1>2, <1>4

\* kitchen-service calls fulfillment-service.
LEMMA CallingOK ==
  ASSUME CInv, NEW r \in Requests, NEW f \in Sessions, StartTask(r, f) \/ CompleteTask(r, f)
  PROVE  StepOK
<1>1. PICK c :
        /\ wire' = [wire EXCEPT ![f] = c] /\ c.task = req[r].task
        /\ \/ req[r].pc = "start_call" /\ c.op = "start"
           \/ req[r].pc = "complete_call" /\ c.op = "complete"
  <2>1. CASE StartTask(r, f)
    <3> DEFINE c == [op |-> "start", task |-> req[r].task, at |-> 0,
                     station_id |-> req[r].station, kds_task_id |-> req[r].task]
    <3>1. c.task = req[r].task /\ c.op = "start" /\ wire' = [wire EXCEPT ![f] = c]
      BY <2>1 DEF StartTask
    <3> HIDE DEF c
    <3>2. QED
      BY <2>1, <3>1 DEF StartTask
  <2>2. CASE CompleteTask(r, f)
    <3> DEFINE c == [op |-> "complete", task |-> req[r].task, at |-> 0,
                     station_id |-> req[r].station, kds_task_id |-> req[r].task]
    <3>1. c.task = req[r].task /\ c.op = "complete" /\ wire' = [wire EXCEPT ![f] = c]
      BY <2>2 DEF CompleteTask
    <3> HIDE DEF c
    <3>2. QED
      BY <2>2, <3>1 DEF CompleteTask
  <2>3. QED
    BY <2>1, <2>2
<1>2. /\ FreeSlot(f) /\ on' = [on EXCEPT ![r] = f] /\ UNCHANGED <<floorVars, fulfillmentVars>>
  BY DEF StartTask, CompleteTask
<1>3. c # NoCall
  BY <1>1, Shapes
<1>4. c.task \in Tasks /\ (c.op = "complete" => Held(c.task))
  BY <1>1, CompletesHeld DEF CInv
<1>5. CallsInv' /\ Agreement'
  BY <1>1, <1>2, <1>3, <1>4, CallSetsOut
<1>6. QED
  BY <1>2, <1>5 DEF StepOK

\* The scheduler calls fulfillment-service.
LEMMA SchedulerOK ==
  ASSUME CInv, NEW t \in Tasks, NEW f \in Sessions,
         DispatchFailed(t, f) \/ \E s \in Stations : MarkDisplayed(t, s, f)
  PROVE  StepOK
<1>1. PICK c :
        /\ wire' = [wire EXCEPT ![f] = c] /\ c.task = t
        /\ c.op \in {"mark_displayed", "dispatch_failed"}
  <2>1. CASE \E s \in Stations : MarkDisplayed(t, s, f)
    <3>0. PICK s \in Stations : MarkDisplayed(t, s, f)
      BY <2>1
    <3> DEFINE c == [op |-> "mark_displayed", task |-> t,
                     station_id |-> s, kds_task_id |-> t]
    <3>1. c.task = t /\ c.op = "mark_displayed" /\ wire' = [wire EXCEPT ![f] = c]
      BY <3>0 DEF MarkDisplayed
    <3> HIDE DEF c
    <3>2. QED
      BY <3>1
  <2>2. CASE DispatchFailed(t, f)
    <3> DEFINE c == [op |-> "dispatch_failed", task |-> t, attempts |-> 1]
    <3>1. c.task = t /\ c.op = "dispatch_failed" /\ wire' = [wire EXCEPT ![f] = c]
      BY <2>2 DEF DispatchFailed
    <3> HIDE DEF c
    <3>2. QED
      BY <3>1
  <2>3. QED
    BY <2>1, <2>2
<1>2. FreeSlot(f) /\ on' = on /\ UNCHANGED <<floorVars, fulfillmentVars>>
  BY DEF MarkDisplayed, DispatchFailed
<1>3. c # NoCall /\ c.op # "complete"
  BY <1>1, Shapes
<1>4. CallsInv' /\ Agreement'
  BY <1>1, <1>2, <1>3, CallSetsOut
<1>5. QED
  BY <1>2, <1>4 DEF StepOK

\* A call reaches fulfillment-service, which locks and reads the row.
LEMMA ReachOK == ASSUME CInv, NEW f \in Sessions, Reach(f) PROVE StepOK
<1> USE DEF CInv, CallsInv
<1>1. UNCHANGED <<kds, req, cook, on, floorVars>>
  BY DEF Reach, floorVars, vars
<1>2. PICK c : c = wire[f]
  OBVIOUS
<1>3. c # NoCall /\ c.task \in Tasks /\ session[f].pc = "idle"
  BY <1>2 DEF Reach, SlotsOK, Occupied, CallOf
<1>4. /\ DOMAIN wire' = Sessions /\ wire'[f] = NoCall
      /\ \A g \in Sessions \ {f} : wire'[g] = wire[g]
  BY DEF Reach, SlotsOK
<1>5. /\ ftask' = ftask /\ DOMAIN session' = Sessions
      /\ session'[f].pc = "locked" /\ session'[f].call = c /\ session'[f].row = ftask[c.task]
      /\ \A g \in Sessions \ {f} : session'[g] = session[g]
  BY <1>2 DEF Reach, F!GetForUpdate, SlotsOK
<1>6. \A g \in Sessions : session[g].pc # "idle" => session[g].call.task # c.task
  BY <1>2 DEF Reach, F!GetForUpdate, F!RowLocked
<1>7. \A g \in Sessions : (Occupied(g)' <=> Occupied(g)) /\ CallOf(g)' = CallOf(g)
  BY <1>2, <1>3, <1>4, <1>5 DEF Occupied, CallOf
<1>8. SlotsOK'
  <2>1. ASSUME NEW g \in Sessions, Occupied(g)' PROVE CallOf(g)'.task \in Tasks
    BY <1>7, <2>1 DEF SlotsOK
  <2>2. \A g \in Sessions : wire'[g] # NoCall => session'[g].pc = "idle"
    BY <1>4, <1>5 DEF SlotsOK
  <2>3. QED
    BY <1>1, <1>4, <1>5, <2>1, <2>2 DEF SlotsOK
<1>9. RowsOK'
  <2>1. ASSUME NEW g \in Sessions, NEW h \in Sessions,
               session'[g].pc # "idle", session'[h].pc # "idle",
               session'[g].call.task = session'[h].call.task
        PROVE  g = h
    BY <1>5, <1>6, <2>1 DEF RowsOK
  <2>2. ASSUME NEW g \in Sessions, session'[g].pc # "idle"
        PROVE  /\ session'[g].row = ftask'[session'[g].call.task]
               /\ session'[g].pc = "counted" =>
                    session'[g].row.status = "in_progress" /\ session'[g].call.op = "complete"
    BY <1>5, <2>2 DEF RowsOK
  <2>3. QED
    BY <2>1, <2>2 DEF RowsOK
<1>10. HandsStay
  BY <1>1, QuietEffect
<1>11. ASSUME NEW r \in Requests, on'[r] # NULL
       PROVE  /\ on'[r] = on[r] /\ req'[r].pc = req[r].pc /\ req'[r].task = req[r].task
              /\ \A g \in Sessions : on[r] = g => Occupied(g)'
  BY <1>1, <1>7, <1>11 DEF Waiting, Waits
<1>12. CallsInv'
  BY <1>7, <1>8, <1>9, <1>10, <1>11, CallsKept
<1>13. Agreement'
  BY <1>1, <1>5 DEF Agreement, Held, InHand
<1>14. QED
  BY <1>1, <1>12, <1>13 DEF StepOK

\* The answer of slot f goes to the request that still waits for it.
LEMMA ReplyStep ==
  ASSUME CInv, NEW f \in Sessions, NEW ok \in BOOLEAN, Reply(f, ok)
  PROVE  /\ [FloorNext]_floorVars /\ DOMAIN on' = Requests
         /\ \A q \in Requests : on'[q] # NULL => on'[q] = on[q] /\ req'[q] = req[q] /\ on[q] # f
         /\ \A q \in Requests : req[q].pc = "start_call" /\ EndsWell(q) => on[q] = f /\ ok
         /\ \A q \in Requests :
              req[q].pc = "complete_call" /\ req'[q].pc \in Final => on[q] = f /\ ok
<1>1. TypeOK /\ DOMAIN on = Requests
  BY DEF CInv, FInv, IInv, CallsInv, SlotsOK
<1>2. CASE (\A r \in Requests : on[r] # f) /\ UNCHANGED <<floorVars, on>>
  <2>1. req' = req
    BY <1>2 DEF floorVars, vars
  <2>2. \A q \in Requests : ~(req[q].pc = "start_call" /\ EndsWell(q))
    BY <1>1, <2>1, WellEnds, Shapes
  <2>3. QED
    BY <1>1, <1>2, <2>1, <2>2 DEF Final
<1>3. ASSUME NEW r \in Requests, on[r] = f, Answered(r, ok)
      PROVE  /\ [FloorNext]_floorVars /\ DOMAIN on' = Requests
             /\ \A q \in Requests : on'[q] # NULL => on'[q] = on[q] /\ req'[q] = req[q] /\ on[q] # f
             /\ \A q \in Requests : req[q].pc = "start_call" /\ EndsWell(q) => on[q] = f /\ ok
             /\ \A q \in Requests :
                  req[q].pc = "complete_call" /\ req'[q].pc \in Final => on[q] = f /\ ok
  <2>1. /\ FloorNext /\ Others(r)
        /\ DOMAIN on' = Requests /\ on'[r] = NULL /\ \A q \in Requests \ {r} : on'[q] = on[q]
        /\ \A q \in Requests : req[q].pc = "start_call" /\ EndsWell(q) => q = r /\ ok
        /\ \A q \in Requests :
             req[q].pc = "complete_call" /\ req'[q].pc \in Final => q = r /\ ok
    BY <1>3, AnsweredStep
  <2>2. \A q \in Requests : on[q] = f => q = r
    BY <1>3, NullIsNoSession DEF CInv, CallsInv, Waiting
  <2>3. QED
    BY <1>3, <2>1, <2>2 DEF Others
<1>4. QED
  BY <1>2, <1>3 DEF Reply

\* The request that waits for slot f has sent the call it serves.
LEMMA WaitsForOwn ==
  ASSUME CallsInv, NEW f \in Sessions, session[f].pc # "idle", NEW q \in Requests, on[q] = f
  PROVE  /\ req[q].task = session[f].call.task
         /\ \/ req[q].pc = "start_call" /\ session[f].call.op = "start"
            \/ req[q].pc = "complete_call" /\ session[f].call.op = "complete"
<1>1. CallOf(f) = session[f].call
  BY DEF CallsInv, SlotsOK, CallOf
<1>2. QED
  BY <1>1, NullIsNoSession DEF CallsInv, Waiting, Waits

\* fulfillment-service takes a step with a call.
LEMMA ServeOK == ASSUME CInv, NEW f \in Sessions, Serve(f) PROVE StepOK
<1> USE DEF CInv
<1> PICK t, op : t = session[f].call.task /\ op = session[f].call.op
  OBVIOUS
<1>1. /\ F!Handler(f) /\ wire' = wire
      /\ t \in Tasks /\ session[f].pc # "idle" /\ RowsForward
      /\ session'[f] = F!Idle /\ Accepted(f) =>
           /\ op = "start" => ftask'[t].status = "in_progress"
           /\ op = "complete" => ftask'[t].status = "done"
  BY Served DEF Serve
<1>2. CASE UNCHANGED <<floorVars, on>> /\ (session'[f] = F!Idle => op \notin {"start", "complete"})
  <2>1. UNCHANGED <<kds, req, cook, on>>
    BY <1>2 DEF floorVars, vars
  <2>2. HandsStay
    BY <2>1, QuietEffect
  <2>3. ASSUME NEW q \in Requests, session'[f] = F!Idle PROVE on[q] # f
    BY <1>1, <1>2, <2>3, WaitsForOwn
  <2>4. CallsInv'
    <3>1. DOMAIN on' = Requests
      BY <2>1 DEF CallsInv, SlotsOK
    <3>2. QED
      BY <1>1, <2>1, <2>2, <2>3, <3>1, ServedCalls
  <2>5. BeginTruly /\ FinishTruly
    BY <2>1 DEF BeginTruly, FinishTruly, Final
  <2>6. QED
    BY <1>1, <1>2, <2>4, <2>5, AgreementKept DEF StepOK, ToldTruth
<1>3. CASE session'[f] = F!Idle /\ op \in {"start", "complete"}
  <2>1. PICK ok \in BOOLEAN : (ok <=> Accepted(f)) /\ Reply(f, ok)
    <3>1. Accepted(f) \in BOOLEAN
      BY <1>3 DEF Accepted
    <3>2. QED
      BY <1>3, <3>1 DEF Serve
  <2>2. /\ [FloorNext]_floorVars /\ DOMAIN on' = Requests
        /\ \A q \in Requests : on'[q] # NULL => on'[q] = on[q] /\ req'[q] = req[q] /\ on[q] # f
        /\ \A q \in Requests : req[q].pc = "start_call" /\ EndsWell(q) => on[q] = f /\ ok
        /\ \A q \in Requests :
             req[q].pc = "complete_call" /\ req'[q].pc \in Final => on[q] = f /\ ok
    BY <2>1, ReplyStep
  <2>3. HandsStay
    BY <2>2, FloorEffect
  <2>4. CallsInv'
    BY <1>1, <2>2, <2>3, ServedCalls
  <2>5. BeginTruly
    <3>1. ASSUME NEW q \in Requests, req[q].pc = "start_call", EndsWell(q)
          PROVE  ftask'[req[q].task].status \in Started
      BY <1>1, <1>3, <2>1, <2>2, <3>1, WaitsForOwn DEF Started
    <3>2. QED
      BY <2>2, <3>1, ClaimsTold
  <2>6. FinishTruly
    BY <1>1, <1>3, <2>1, <2>2, WaitsForOwn DEF FinishTruly
  <2>7. QED
    BY <1>1, <2>2, <2>4, <2>5, <2>6, AgreementKept DEF StepOK, ToldTruth
<1>4. QED
  BY <1>2, <1>3 DEF Serve

\* A session dies: nothing is written, and the call fails.
LEMMA DieOK == ASSUME CInv, NEW f \in Sessions, Die(f) PROVE StepOK
<1> USE DEF CInv
<1>1. F!Rollback(f) /\ wire' = wire /\ ftask' = ftask
  BY DEF Die, F!Rollback, F!AnswerUnchanged
<1>2. /\ [FloorNext]_floorVars /\ DOMAIN on' = Requests
      /\ \A q \in Requests : on'[q] # NULL => on'[q] = on[q] /\ req'[q] = req[q] /\ on[q] # f
      /\ \A q \in Requests : ~(req[q].pc = "start_call" /\ EndsWell(q))
      /\ \A q \in Requests : ~(req[q].pc = "complete_call" /\ req'[q].pc \in Final)
  BY ReplyStep DEF Die
<1>3. HandsStay
  BY <1>2, FloorEffect
<1>4. CallsInv'
  BY <1>1, <1>2, <1>3, ServedCalls
<1>5. RowsForward
  BY <1>1 DEF RowsForward
<1>6. BeginTruly /\ FinishTruly
  BY <1>2, ClaimsTold DEF FinishTruly
<1>7. QED
  BY <1>2, <1>4, <1>5, <1>6, AgreementKept DEF StepOK, ToldTruth

-----------------------------------------------------------------------------
(* The invariant and what follows from it *)

\* Queued tasks, no calls, and nothing on the display.
LEMMA InitCInv == CookingInit => CInv
<1> SUFFICES ASSUME CookingInit PROVE CInv
  OBVIOUS
<1>1. FInv
  BY InitFInv DEF CookingInit
<1>2. \A t \in Tasks : "status" \in DOMAIN ftask[t] /\ ftask[t].status = "queued"
  BY DEF CookingInit, F!QueuedRow, F!Absent
<1>3. \A f \in Sessions : session[f].pc = "idle" /\ wire[f] = NoCall /\ ~Occupied(f)
  BY DEF CookingInit, F!Idle, Occupied
<1>4. \A r \in Requests : on[r] = NULL
  BY DEF CookingInit
<1>5. SlotsOK
  BY <1>2, <1>3 DEF CookingInit, SlotsOK
<1>6. RowsOK /\ Waiting /\ CallsInHand
  BY <1>3, <1>4 DEF RowsOK, Waiting, Waits, CallsInHand
<1>7. /\ \A t \in Tasks : kds[t].status = "absent"
      /\ \A r \in Requests : req[r].pc = "idle"
      /\ \A w \in Workers : cook[w].pc = "polling"
  BY Shapes DEF CookingInit, FloorInit, Init, Absent
<1>8. Agreement
  BY <1>2, <1>7 DEF Agreement, Final, Busy
<1>9. QED
  BY <1>1, <1>5, <1>6, <1>8 DEF CInv, CallsInv

\* Every step keeps the invariant and is a step of the floor, or none.
LEMMA NextCInv == CInv /\ [CookingNext]_cookingVars => CInv' /\ [FloorNext]_floorVars
<1> SUFFICES ASSUME CInv, [CookingNext]_cookingVars PROVE CInv' /\ [FloorNext]_floorVars
  OBVIOUS
<1>1. StepOK
  <2>1. CASE UNCHANGED cookingVars
    <3>1. UNCHANGED <<kds, req, cook, floorVars, ftask, session, wire, on>>
      BY <2>1 DEF cookingVars, floorVars, vars, fulfillmentVars
    <3>2. CallsInv'
      BY <3>1 DEF CInv, CallsInv, SlotsOK, RowsOK, Waiting, Waits, CallsInHand, Occupied, CallOf,
         Held, InHand
    <3>3. Agreement'
      BY <3>1 DEF CInv, Agreement, Held, InHand
    <3>4. QED
      BY <3>1, <3>2, <3>3 DEF StepOK
  <2>2. CASE CookingNext
    BY <2>2, CookStepOK, RestartOK, ArrivalOK, KitchenStepOK, DiesCallingOK, CallTimesOutOK,
       CallingOK, SchedulerOK, ReachOK, ServeOK, DieOK DEF CookingNext
  <2>3. QED
    BY <2>1, <2>2
<1>2. FInv'
  BY <1>1, NextFInv DEF StepOK, CInv
<1>3. QED
  BY <1>1, <1>2 DEF StepOK, CInv

\* The inductive invariant of the floor, the calls and fulfillment-service.
THEOREM CookingInvariance == CookingSpec => []CInv
  BY InitCInv, NextCInv, PTL DEF CookingSpec

\* With fulfillment-service behind its calls, instead of answers from anywhere,
\* the floor is still the floor: the theorems of KitchenFloorProofs hold here.
THEOREM CookingImplementsFloor == CookingSpec => FloorSpec
<1>1. CookingInit => FloorInit
  BY DEF CookingInit
<1>2. QED
  BY <1>1, CookingInvariance, NextCInv, PTL DEF CookingSpec, FloorSpec

\* The display and fulfillment-service agree on what is finished, although either
\* side of a call may die, time out or be answered late.
THEOREM ServicesAgree == CookingSpec => []DisplayAgrees
<1>1. CInv => DisplayAgrees
  BY DEF CInv, Agreement, Held, InHand, DisplayAgrees
<1>2. QED
  BY <1>1, CookingInvariance, PTL

\* A worker cooks only what fulfillment-service has started and not given up.
THEOREM NobodyCooksUnstarted == CookingSpec => []CookedIsStarted
<1>1. CInv => CookedIsStarted
  BY DEF CInv, Agreement, CookedIsStarted, Busy, Started
<1>2. QED
  BY <1>1, CookingInvariance, PTL

\* With one request of kitchen-service at a time, however its calls time out or
\* are answered late, busy_slots counts the claimed tasks of every station.
THEOREM SlotsCountWhileCooking ==
  ASSUME \A q, p \in Requests : q = p, IsFiniteSet(Tasks)
  PROVE  CookingSpec => []SlotAccounting
<1>1. Spec => []SlotAccounting
  BY SerialSlotsCount
<1>2. QED
  BY <1>1, CookingImplementsFloor, FloorImplementsKds, PTL
=============================================================================
