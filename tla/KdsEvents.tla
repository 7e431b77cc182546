----------------------------- MODULE KdsEvents -----------------------------
(***************************************************************************)
(* The events kitchen-service writes to MongoDB while it serves deliver,   *)
(* claim and complete requests.                                            *)
(*                                                                         *)
(* A request awaits its inserts one after the other, between its commits   *)
(* or before its answer, and goes on whether they succeed or raise.  The   *)
(* event of a refused claim is written under the claim's row locks and is  *)
(* part of the step that refuses it; the events of station patches are     *)
(* left out.                                                               *)
(***************************************************************************)
EXTENDS Kds, Sequences, Functions

VARIABLES
  outbox,   \* what each request has still to insert
  settled   \* announcements inserted, or lost with an insert or a request

logVars == <<outbox, settled>>
kdsEventVars == <<vars, logVars>>

-----------------------------------------------------------------------------
(* Events *)

Event(type, t) == [type |-> type, task |-> t]

\* One of a kind for each task, and remembered; the other events may recur.
Announcements == {"KdsTaskDisplayed", "KdsTaskClaimed", "KdsTaskCompleted"}
AuditEvents == {"FulfillmentCallbackFailed", "MongoEventWriteFailed"}

Pending == UNION {Range(outbox[r]) : r \in Requests}
Remembered(events) == {e \in events : e.type \in Announcements}

\* Faulty: the claim is announced as soon as it is committed.
WrittenEarly(r) ==
  LET t == req[r].task IN
  CASE req[r].pc = "deliver_insert" /\ kds' # kds -> <<Event("KdsTaskDisplayed", t)>>
    [] req[r].pc = "claim_task" /\ req'[r] # Idle ->
         <<Event("KdsTaskClaimed", t), Event("StationBusySlotOccupied", t)>>
    [] req[r].pc = "start_call" /\ req'[r] # Idle -> <<Event("FulfillmentCallbackFailed", t)>>
    [] req[r].pc = "comp_station" /\ req[r].seen_row.status = "claimed" ->
         <<Event("KdsTaskClaimRejected", t), Event("StationBusySlotReleased", t)>>
    [] req[r].pc = "complete_call" /\ req'[r] = Idle -> <<Event("FulfillmentCallbackFailed", t)>>
    [] req[r].pc = "final_task" ->
         <<Event("KdsTaskCompleted", t), Event("StationBusySlotReleased", t)>>
    [] OTHER -> <<>>

\* What the step of a request that is being taken makes it write.
Written(r) ==
  LET t == req[r].task IN
  CASE req[r].pc = "deliver_insert" /\ kds' # kds -> <<Event("KdsTaskDisplayed", t)>>
    [] req[r].pc = "start_call" /\ req'[r] = Idle ->
         <<Event("KdsTaskClaimed", t), Event("StationBusySlotOccupied", t)>>
    [] req[r].pc = "start_call" /\ req'[r] # Idle -> <<Event("FulfillmentCallbackFailed", t)>>
    [] req[r].pc = "comp_station" /\ req[r].seen_row.status = "claimed" ->
         <<Event("KdsTaskClaimRejected", t), Event("StationBusySlotReleased", t)>>
    [] req[r].pc = "complete_call" /\ req'[r] = Idle -> <<Event("FulfillmentCallbackFailed", t)>>
    [] req[r].pc = "final_task" ->
         <<Event("KdsTaskCompleted", t), Event("StationBusySlotReleased", t)>>
    [] OTHER -> <<>>

\* The announcement a request owes when it dies after the commit of a claim.
Owed(r) ==
  IF req[r].pc \in ClaimPcs THEN {Event("KdsTaskClaimed", req[r].task)} ELSE {}

-----------------------------------------------------------------------------
(* MongoKdsEventWriter *)

\* _safe_insert reports a failed insert unless it was one of an audit event;
\* write_task_displayed only logs it.
AfterFailure(e, rest) ==
  IF e.type \in AuditEvents \union {"KdsTaskDisplayed"} THEN rest
  ELSE <<Event("MongoEventWriteFailed", e.task)>> \o rest

Insert(r) ==
  /\ outbox[r] # <<>>
  /\ settled' = settled \union Remembered({Head(outbox[r])})
  /\ \/ outbox' = [outbox EXCEPT ![r] = Tail(@)]
     \/ outbox' = [outbox EXCEPT ![r] = AfterFailure(Head(@), Tail(@))]
  /\ UNCHANGED vars

\* The request dies while it writes.
WriterDies(r) ==
  /\ outbox[r] # <<>>
  /\ settled' = settled \union Remembered(Range(outbox[r])) \union Owed(r)
  /\ outbox' = [outbox EXCEPT ![r] = <<>>]
  /\ End(r)
  /\ UNCHANGED <<stationVars, kds>>

-----------------------------------------------------------------------------
(* Requests with what they write *)

Step(r) ==
  /\ outbox[r] = <<>>
  /\ Proceed(r)
  /\ outbox' = [outbox EXCEPT ![r] = Written(r)]
  /\ UNCHANGED settled

Aborts(r) ==
  /\ outbox[r] = <<>>
  /\ DeadlockAbort(r)
  /\ settled' = settled \union Owed(r)
  /\ UNCHANGED outbox

Crashes(r) ==
  /\ outbox[r] = <<>>
  /\ Crash(r)
  /\ settled' = settled \union Owed(r)
  /\ UNCHANGED outbox

KdsEventsInit ==
  /\ Init
  /\ outbox = [r \in Requests |-> <<>>]
  /\ settled = {}

KdsEventsNext ==
  \/ Patch /\ UNCHANGED logVars
  \/ \E r \in Requests :
       \/ outbox[r] = <<>> /\ Arrive(r) /\ UNCHANGED logVars
       \/ Step(r) \/ Aborts(r) \/ Crashes(r) \/ Insert(r) \/ WriterDies(r)

\* Under fairness: a request in progress keeps going, row locks are granted in
\* turn to those who wait for them, fulfillment-service's answer or the client's
\* timeout comes, PostgreSQL's deadlock detector runs, and MongoDB's driver
\* answers or times out.
KdsEventsSpec ==
  /\ KdsEventsInit /\ [][KdsEventsNext]_kdsEventVars
  /\ \A r \in Requests :
       /\ SF_kdsEventVars(Step(r))
       /\ WF_kdsEventVars(Insert(r)) /\ WF_kdsEventVars(Aborts(r))

-----------------------------------------------------------------------------
(* Properties *)

\* Every request ends with its events written or given up, although claims and
\* compensations lock their rows in opposite orders and MongoDB may fail at any
\* insert, also at the one between a refused start and its compensation.
RequestsAnswered ==
  \A r \in Requests :
    req[r] # Idle ~> req[r] = Idle /\ outbox[r] = <<>>

\* The log keeps up with the display: each delivered task is announced once, by
\* the delivery that inserted it; a claim that stands is announced unless its
\* request is still at work on it or died; and a claim once announced is never
\* taken back by a compensation.
LogFollowsDisplay ==
  \A t \in Tasks :
    /\ kds[t].status # "absent" <=> Event("KdsTaskDisplayed", t) \in Pending \union settled
    /\ Event("KdsTaskDisplayed", t) \in Pending => Event("KdsTaskDisplayed", t) \notin settled
    /\ kds[t].status = "claimed" =>
         \/ Event("KdsTaskClaimed", t) \in Pending \union settled
         \/ \E r \in Requests : req[r] # Idle /\ req[r].task = t
    /\ Event("KdsTaskClaimed", t) \in Pending \union settled =>
         kds[t].status \in {"claimed", "completed"}
=============================================================================
