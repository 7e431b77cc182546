---------------------------- MODULE KitchenFloor ----------------------------
(***************************************************************************)
(* station-simulator-service on top of kitchen-service: virtual workers    *)
(* that poll a station's display, claim a task, cook it and complete it.   *)
(*                                                                         *)
(* The claim and complete requests of Kds arrive here from the workers     *)
(* only, over a network.  A worker's HTTP client gives up after a timeout; *)
(* the request it gave up on goes on in kitchen-service, may even arrive   *)
(* there later, and carries the same station_worker_id as the worker's     *)
(* next requests.                                                          *)
(***************************************************************************)
EXTENDS Kds

CONSTANTS
  Home,             \* [Workers -> Stations]: SIMULATOR_WORKERS_CONFIG
  CompleteAttempts  \* complete_retry_attempts

ASSUME HomeType == Home \in [Workers -> Stations]
ASSUME NullIsNoRequest == NULL \notin Requests
ASSUME CompleteAttemptsType == CompleteAttempts \in Nat \ {0}

VARIABLES
  sent,  \* requests on their way to kitchen-service, by the slot they will take
  cook   \* the virtual workers

floorVars == <<vars, sent, cook>>

-----------------------------------------------------------------------------
(* Workers and the requests they send *)

NoCall == [op |-> "none"]
Sent == {NoCall} \union [op : {"claim", "complete"}, task : Tasks, worker : Workers]

\* on is the request the worker waits for, attempt the completions it has sent.
Cook == [pc : {"polling", "claiming", "cooking", "completing"}, task : Tasks \union {NULL},
         attempt : 0..CompleteAttempts, on : Requests \union {NULL}]
Polling == [pc |-> "polling", task |-> NULL, attempt |-> 0, on |-> NULL]

\* The call of worker w takes a free slot.
Send(w, op, t, next) ==
  \E r \in Requests :
    /\ req[r] = Idle /\ sent[r] = NoCall
    /\ sent' = [sent EXCEPT ![r] = [op |-> op, task |-> t, worker |-> w]]
    /\ cook' = [cook EXCEPT ![w] = [next EXCEPT !.on = r]]

\* Faulty: the attempts are counted from zero.
FailedOnceMore(c) ==
  IF c.pc = "completing" /\ c.attempt <= CompleteAttempts
  THEN [c EXCEPT !.pc = "cooking", !.on = NULL] ELSE Polling

\* Faulty: a claim that timed out is taken for a success.
FailedButCooks(c) ==
  IF c.pc = "claiming" \/ c.attempt < CompleteAttempts
  THEN [c EXCEPT !.pc = "cooking", !.on = NULL] ELSE Polling

\* ClaimConflict, RetryableKdsError or KdsClientError.  A worker whose claim
\* failed polls again; one whose completion failed sleeps and tries again,
\* unless that was the last attempt: then it leaves the task and polls again.
Failed(c) ==
  IF c.pc = "completing" /\ c.attempt < CompleteAttempts
  THEN [c EXCEPT !.pc = "cooking", !.on = NULL] ELSE Polling

Succeeded(c) == IF c.pc = "claiming" THEN [c EXCEPT !.pc = "cooking", !.on = NULL] ELSE Polling

\* The answer of request r reaches the worker that still waits for it.
Answer(r, ok) ==
  cook' = [w \in Workers |-> CASE cook[w].on # r -> cook[w]
                               [] cook[w].on = r /\ ok -> Succeeded(cook[w])
                               [] cook[w].on = r /\ ~ok -> Failed(cook[w])]

-----------------------------------------------------------------------------
(* VirtualWorker._run_once *)

\* The worker takes the oldest displayed task.  displayed_at, the start of the
\* transaction that delivered it, is not kept here: any may be the oldest.
SelectDisplayedTask(w) == Displayed(Home[w])

\* The list is read and the claim is sent; it meets whatever the task has become.
\* An empty list or a failed poll leads to another poll.
Poll(w) ==
  /\ cook[w].pc = "polling"
  /\ \E t \in SelectDisplayedTask(w) :
       Send(w, "claim", t, [Polling EXCEPT !.pc = "claiming", !.task = t])
  /\ UNCHANGED vars

\* The dish is ready, or the pause before the next attempt is over.
SendComplete(w) ==
  /\ cook[w].pc = "cooking"
  /\ Send(w, "complete", cook[w].task,
          [cook[w] EXCEPT !.pc = "completing", !.attempt = cook[w].attempt + 1])
  /\ UNCHANGED vars

\* httpx.TimeoutException: kitchen-service never learns of it.
TimesOut(w) ==
  /\ cook[w].pc \in {"claiming", "completing"}
  /\ cook' = [cook EXCEPT ![w] = Failed(cook[w])]
  /\ UNCHANGED <<vars, sent>>

\* The simulator process is stopped and started again, with the same worker ids.
Restart ==
  /\ cook' = [w \in Workers |-> Polling]
  /\ UNCHANGED <<vars, sent>>

-----------------------------------------------------------------------------
(* kitchen-service serves what arrives *)

Arrives(r) ==
  /\ sent[r] # NoCall
  /\ LET w == sent[r].worker
         t == sent[r].task IN
     \/ sent[r].op = "claim" /\ ClaimLockStation(r, Home[w], t, w)
     \/ sent[r].op = "complete" /\ CompleteLockStation(r, Home[w], t, w)
  /\ sent' = [sent EXCEPT ![r] = NoCall]
  /\ UNCHANGED cook

\* The request is lost, or refused by a server that is down.
Lost(r) ==
  /\ sent[r] # NoCall
  /\ sent' = [sent EXCEPT ![r] = NoCall]
  /\ Answer(r, FALSE)
  /\ UNCHANGED vars

\* Deliveries come from the scheduler.
Deliver(r) ==
  /\ sent[r] = NoCall
  /\ \E s \in Stations, t \in Tasks : DeliverCheck(r, s, t)
  /\ UNCHANGED <<sent, cook>>

\* A step after which the request goes on.
GoesOn(r) ==
  /\ \/ DeliverCount(r)
     \/ ClaimCommit(r) \/ ClaimRefreshTask(r) \/ ClaimRefreshStation(r) \/ StartAnswer(r, FALSE)
     \/ CompensateLockTask(r)
     \/ CompleteValidate(r) \/ CompleteAnswer(r, TRUE) \/ FinalLockStation(r)
  /\ req'[r] # Idle
  /\ UNCHANGED <<sent, cook>>

\* The request is answered with success.  (The second validation of a completion
\* reads the objects the first one accepted.)
EndsWell(r) ==
  /\ StartAnswer(r, TRUE) \/ CompleteCommit(r)
  /\ Answer(r, TRUE)
  /\ UNCHANGED sent

\* The request is refused, undone, aborted or dies.
EndsBadly(r) ==
  /\ \/ DeliverCount(r) \/ DeliverInsert(r) \/ ClaimCommit(r) \/ CompensateCommit(r)
     \/ CompleteValidate(r) \/ CompleteAnswer(r, FALSE)
     \/ DeadlockAbort(r) \/ Crash(r)
  /\ req'[r] = Idle
  /\ Answer(r, FALSE)
  /\ UNCHANGED sent

-----------------------------------------------------------------------------
FloorInit ==
  /\ Init
  /\ sent = [r \in Requests |-> NoCall]
  /\ cook = [w \in Workers |-> Polling]

FloorNext ==
  \/ \E w \in Workers : Poll(w) \/ SendComplete(w) \/ TimesOut(w)
  \/ \E r \in Requests :
       Arrives(r) \/ Lost(r) \/ Deliver(r) \/ GoesOn(r) \/ EndsWell(r) \/ EndsBadly(r)
  \/ Restart
  \/ Patch /\ UNCHANGED <<sent, cook>>

FloorSpec == FloorInit /\ [][FloorNext]_floorVars

-----------------------------------------------------------------------------
(* Properties *)

\* Workers and calls have their shape; no worker sends more completions than
\* complete_retry_attempts.
FloorTypeOK ==
  /\ TypeOK
  /\ sent \in [Requests -> Sent]
  /\ cook \in [Workers -> Cook]

\* A worker cooks only what is claimed in its own name at its own station, so no
\* two workers cook one task: timeouts, compensations and late requests of the
\* same worker never take the task away under its hands.
CookingIsClaimed ==
  \A w \in Workers : cook[w].pc \in {"cooking", "completing"} =>
    LET row == kds[cook[w].task] IN
    /\ row.claimed_by = w /\ row.station_id = Home[w]
    /\ row.status = "claimed" \/ (row.status = "completed" /\ cook[w].attempt > 0)

\* A station is full only while somebody has a task there.  Claims, completions and
\* compensations that interleave write stale values and leave busy_slots above or
\* below the claims, but such a phantom slot alone never closes a station whose
\* capacity is not patched: a release writes less than the capacity.
FullMeansClaimed ==
  \A s \in Stations : busy_slots[s] >= capacity[s] => Claimed(s) # {}

\* A completed task never comes back to the display or to a worker, although
\* _compensate_claim and complete_task write to rows they read before a call.
FinalStep == \A t \in Tasks : kds[t].status = "completed" => kds'[t] = kds[t]
CompletedIsFinal == [][FinalStep]_floorVars
=============================================================================
