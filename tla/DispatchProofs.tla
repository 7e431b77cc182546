---------------------------- MODULE DispatchProofs ----------------------------
(***************************************************************************)
(* Proofs about Dispatch for any orders, tasks, stations, schedulers and   *)
(* bounds.                                                                 *)
(*                                                                         *)
(* The argument follows the messages.  A message that can still move its   *)
(* task is a token; it is in the stream, in a batch, in the hands of a     *)
(* scheduler or in a sleeping retry.  Every step moves a token, replaces   *)
(* it by its successor or drops it, so a task never has two (OneToken),    *)
(* and none once it is dead-lettered (DeadIsDead).  The statuses of a task *)
(* only move forward, so what a scheduler was told about a task still      *)
(* justifies the calls it sends later (Justified).                         *)
(***************************************************************************)
EXTENDS Dispatch, FiniteSetTheorems, WellFoundedInduction, TLAPS

\* A scheduler at work has a message.
AtWork == \A w \in Schedulers : worker[w].pc # "idle" => MsgOf(w) \in Message

-----------------------------------------------------------------------------
(* Tokens *)

Active(w) == worker[w].pc \notin {"idle", "ack", "failing"}

Token == [at : {"stream", "batch", "hand", "timer"}, by : Schedulers \union {NULL},
          msg : Message]

Lives(x) ==
  \/ x.at = "stream" /\ x.by = NULL /\ x.msg \in stream
  \/ x.at = "batch" /\ x.by \in Schedulers /\ x.msg \in worker[x.by].batch
  \/ x.at = "hand" /\ x.by \in Schedulers /\ Active(x.by) /\ x.msg = MsgOf(x.by)
  \/ x.at = "timer" /\ x.by \in Schedulers /\ x.msg \in timers[x.by]

Tokens == {x \in Token : Lives(x)}

\* A task has one token at most.
OneToken == \A x, y \in Tokens : x.msg.task = y.msg.task => x = y

\* Only published tasks have tokens or dead letters.
TokensPublished ==
  /\ \A x \in Tokens : x.msg.task \in published
  /\ \A m \in dlq : m.task \in published

\* A dead-lettered task has no token any more.
DeadIsDead == \A m \in dlq : \A x \in Tokens : x.msg.task # m.task

TokenInv == OneToken /\ TokensPublished /\ DeadIsDead

-----------------------------------------------------------------------------
(* What schedulers and calls rely on *)

\* An order comes into being with its tasks, and before they are published.
CreatedTogether ==
  /\ \A t \in Tasks : order[OrderOf[t]] = "absent" => status[t] = "absent"
  /\ \A t \in published : status[t] # "absent"

Moved(t) == status[t] \notin {"absent", "created"}
DependenciesDone(t) == \A d \in DependsOn[t] : status[d] = "done"

\* What made a scheduler or a call go this far still holds.
Justified ==
  /\ \A w \in Schedulers :
       /\ worker[w].pc \in {"readiness", "candidates", "delivering", "marking"} => Moved(TaskOf(w))
       /\ worker[w].pc \in {"candidates", "delivering", "marking"} => DependenciesDone(TaskOf(w))
  /\ \A c \in calls :
       /\ c.op \in {"deliver", "mark"} => Moved(c.msg.task)
       /\ c.op = "deliver" => DependenciesDone(c.msg.task)
       /\ c.op = "mark" => kds[c.msg.task].status # "absent"
       /\ c.op = "failed" => c.msg \in dlq

\* A failed task has a dead letter.
FailedHasLetter == \A t \in Tasks : status[t] = "failed" => \E m \in dlq : m.task = t

ServiceInv ==
  /\ CreatedTogether
  /\ Justified
  /\ DependenciesFirst
  /\ DisplayedIsDelivered
  /\ FailedHasLetter

\* The inductive invariant.
IInv == TypeOK /\ AtWork /\ TokenInv /\ ServiceInv

\* Only published tasks leave "created".
MovedIsPublished == \A t \in Tasks : Moved(t) => t \in published

\* While nothing has crashed or failed in Redis, a published task that has not
\* been dispatched has a token or a dead letter.
Remembered(t) == (\E x \in Tokens : x.msg.task = t) \/ (\E m \in dlq : m.task = t)
NotForgotten ==
  faults = 0 => \A t \in published : status[t] \in {"created", "queued"} => Remembered(t)

\* The inductive invariant of a run without faults.
FaultlessInv == IInv /\ MovedIsPublished /\ NotForgotten

-----------------------------------------------------------------------------
(* Choosing a station *)

\* A nonempty set of natural numbers has a least element.
LEMMA LeastNat ==
  ASSUME NEW T, T \subseteq Nat, T # {}
  PROVE  \E x \in T : \A y \in T : x <= y
<1> DEFINE R == OpToRel(<, Nat)
<1>1. IsWellFoundedOn(R, Nat)
  BY NatLessThanWellFounded
<1> HIDE DEF R
<1>2. PICK x \in T : \A y \in T : ~(<<y, x>> \in R)
  BY <1>1, WFMin
<1>3. \A y \in T : ~(y < x)
  <2> TAKE y \in T
  <2>1. y \in Nat /\ x \in Nat /\ <<y, x>> \in Nat \X Nat
    OBVIOUS
  <2>2. y < x => <<y, x>> \in R
    BY <2>1 DEF R, OpToRel
  <2>3. QED
    BY <1>2, <2>2
<1>4. QED
  BY <1>3

\* SelectStation picks one of its candidates, and no other comes before it.
LEMMA SelectStationLeast ==
  ASSUME NEW C \in SUBSET Stations, C # {}
  PROVE  /\ SelectStation(C) \in C
         /\ \A u \in C \ {SelectStation(C)} : Before(SelectStation(C), u)
<1> DEFINE backlog(x) == Cardinality(Displayed(x))
           busy(x)    == Cardinality(Claimed(x))
<1>1. \A x \in Stations : backlog(x) \in Nat /\ busy(x) \in Nat
  <2> TAKE x \in Stations
  <2>1. Displayed(x) \in SUBSET Tasks /\ Claimed(x) \in SUBSET Tasks
    BY DEF Displayed, Claimed
  <2>2. IsFiniteSet(Displayed(x)) /\ IsFiniteSet(Claimed(x))
    BY <2>1, TasksFinite, FS_Subset
  <2>3. QED
    BY <2>2, FS_CardinalityType
<1> HIDE DEF backlog, busy
<1>2. PICK s1 \in C : \A u \in C : backlog(s1) <= backlog(u)
  <2> DEFINE B == {backlog(u) : u \in C}
  <2>1. PICK b \in B : \A y \in B : b <= y
    <3>1. B \subseteq Nat /\ B # {}
      BY <1>1
    <3> HIDE DEF B
    <3>2. QED
      BY <3>1, LeastNat
  <2>2. QED
    BY <2>1
<1>3. PICK s2 \in C : /\ backlog(s2) = backlog(s1)
                      /\ \A u \in C : backlog(u) = backlog(s1) => busy(s2) <= busy(u)
  <2> DEFINE C1 == {u \in C : backlog(u) = backlog(s1)}
             B == {busy(u) : u \in C1}
  <2>1. PICK b \in B : \A y \in B : b <= y
    <3>1. B \subseteq Nat /\ B # {}
      BY <1>1
    <3> HIDE DEF B
    <3>2. QED
      BY <3>1, LeastNat
  <2>2. QED
    BY <2>1
<1>4. PICK s3 \in C :
        /\ backlog(s3) = backlog(s1) /\ busy(s3) = busy(s2)
        /\ \A u \in C : backlog(u) = backlog(s1) /\ busy(u) = busy(s2) => s3 <= u
  <2> DEFINE C2 == {u \in C : backlog(u) = backlog(s1) /\ busy(u) = busy(s2)}
  <2>1. C2 \subseteq Nat /\ C2 # {}
    BY <1>3, StationsType
  <2>2. PICK b \in C2 : \A y \in C2 : b <= y
    <3> HIDE DEF C2
    <3>1. QED
      BY <2>1, LeastNat
  <2>3. QED
    BY <2>2
<1>5. \A u \in C \ {s3} : Before(s3, u)
  <2> TAKE u \in C \ {s3}
  <2>1. /\ backlog(s3) \in Nat /\ backlog(u) \in Nat /\ busy(s3) \in Nat /\ busy(u) \in Nat
        /\ s3 \in Nat /\ u \in Nat
    BY <1>1, StationsType
  <2>2. \/ backlog(s3) < backlog(u)
        \/ backlog(s3) = backlog(u) /\ busy(s3) < busy(u)
        \/ backlog(s3) = backlog(u) /\ busy(s3) = busy(u) /\ s3 < u
    BY <1>2, <1>3, <1>4, <2>1
  <2>3. QED
    BY <2>2 DEF Before, backlog, busy
<1>6. QED
  BY <1>5 DEF SelectStation

-----------------------------------------------------------------------------
(* Types *)

\* Shapes of messages, workers and calls.
LEMMA Shapes ==
  /\ NoMessage \notin Message
  /\ Resting \in Worker /\ Resting.pc = "idle" /\ Resting.batch = {}
  /\ AbsentRow \in Row /\ AbsentRow.status = "absent"
  /\ \A m \in Message : m.task \in Tasks /\ m.attempt \in 1..MaxAttempts
  /\ \A c \in Call : c.msg \in Message /\ c.op \in {"deliver", "mark", "failed"}
  /\ \A c \in Call : c.op \in {"deliver", "mark"} => c.station \in Stations
  BY DEF NoMessage, Message, Resting, Worker, Pcs, AbsentRow, Row, Call

\* A worker moved to another pc keeps the rest.
LEMMA StepWorker ==
  ASSUME TypeOK, AtWork, NEW w \in Schedulers, NEW pc \in Pcs, Step(w, pc),
         worker[w].pc # "idle"
  PROVE  /\ worker' \in [Schedulers -> Worker] /\ AtWork'
         /\ worker'[w].pc = pc /\ worker'[w].msg = worker[w].msg
         /\ worker'[w].batch = worker[w].batch
         /\ \A v \in Schedulers \ {w} : worker'[v] = worker[v]
<1>1. worker[w] \in Worker
  BY DEF TypeOK
<1>2. [worker[w] EXCEPT !.pc = pc] \in Worker
  BY <1>1 DEF Worker
<1>3. worker' = [worker EXCEPT ![w] = [worker[w] EXCEPT !.pc = pc]]
  BY DEF Step
<1>4. worker' \in [Schedulers -> Worker]
  BY <1>2, <1>3 DEF TypeOK
<1>5. /\ worker'[w].pc = pc /\ worker'[w].msg = worker[w].msg
      /\ worker'[w].batch = worker[w].batch
      /\ \A v \in Schedulers \ {w} : worker'[v] = worker[v]
  BY <1>1, <1>3 DEF TypeOK, Worker
<1>6. QED
  BY <1>4, <1>5 DEF AtWork, MsgOf

\* A worker record replaced by another.
LEMMA SetWorker ==
  ASSUME TypeOK, AtWork, NEW w \in Schedulers, NEW x \in Worker,
         worker' = [worker EXCEPT ![w] = x], x.pc # "idle" => x.msg \in Message
  PROVE  /\ worker' \in [Schedulers -> Worker] /\ AtWork' /\ worker'[w] = x
         /\ \A v \in Schedulers \ {w} : worker'[v] = worker[v]
  BY DEF TypeOK, AtWork, MsgOf

\* What the handed-over batch and the return to the loop leave of a worker.
LEMMA ReturnWorker ==
  ASSUME TypeOK, AtWork, NEW w \in Schedulers, Return(w)
  PROVE  /\ worker' \in [Schedulers -> Worker] /\ AtWork'
         /\ worker'[w].pc = "idle" /\ worker'[w].batch = worker[w].batch
         /\ \A v \in Schedulers \ {w} : worker'[v] = worker[v]
<1> DEFINE x == [Resting EXCEPT !.batch = worker[w].batch]
<1>1. x \in Worker /\ x.pc = "idle" /\ x.batch = worker[w].batch
  BY DEF TypeOK, Resting, Worker, Pcs
<1> HIDE DEF x
<1>2. worker' = [worker EXCEPT ![w] = x]
  BY DEF Return, x
<1>3. QED
  BY <1>1, <1>2, SetWorker

\* A status only moves on.
StatusForward(t) ==
  /\ Moved(t) => status'[t] \notin {"absent", "created"}
  /\ status'[t] = "queued" => status[t] \in {"created", "queued"}
  /\ status[t] = "done" => status'[t] = "done"
  /\ status[t] # "absent" => status'[t] # "absent"

\* The steps of fulfillment-service keep its types, and only move forward.
LEMMA LifecycleForward ==
  ASSUME TypeOK, CreatedTogether, Lifecycle!LifecycleNext
  PROVE  /\ status' \in [Tasks -> {"absent", "created", "queued", "displayed", "in_progress",
                                   "done", "failed"}]
         /\ order' \in [Orders -> {"absent", "created", "cooking", "ready_for_pickup"}]
         /\ \A t \in Tasks : StatusForward(t)
         /\ \A t \in Tasks : order'[OrderOf[t]] = "absent" => status'[t] = "absent"
<1> USE OrderOfType DEF Lifecycle!LifecycleNext, StatusForward, Moved, TypeOK, CreatedTogether
<1>1. ASSUME NEW o \in Orders, Lifecycle!Create(o) \/ Lifecycle!Queue(o)
      PROVE  status' \in [Tasks -> {"absent", "created", "queued", "displayed", "in_progress",
                                    "done", "failed"}]
  BY <1>1 DEF Lifecycle!Create, Lifecycle!Queue
<1>2. ASSUME NEW o \in Orders, Lifecycle!Create(o) \/ Lifecycle!Queue(o)
      PROVE  /\ order' \in [Orders -> {"absent", "created", "cooking", "ready_for_pickup"}]
             /\ \A t \in Tasks : StatusForward(t)
             /\ \A t \in Tasks : order'[OrderOf[t]] = "absent" => status'[t] = "absent"
  BY <1>2 DEF Lifecycle!Create, Lifecycle!Queue, Lifecycle!TasksOf
<1>3. ASSUME NEW t \in Tasks,
             \/ Lifecycle!Dispatch(t) \/ Lifecycle!GiveUp(t)
             \/ Lifecycle!Start(t) \/ Lifecycle!Finish(t)
      PROVE  /\ status' \in [Tasks -> {"absent", "created", "queued", "displayed", "in_progress",
                                    "done", "failed"}]
             /\ order' \in [Orders -> {"absent", "created", "cooking", "ready_for_pickup"}]
             /\ \A u \in Tasks : StatusForward(u)
             /\ \A u \in Tasks : order'[OrderOf[u]] = "absent" => status'[u] = "absent"
  BY <1>3 DEF Lifecycle!Dispatch, Lifecycle!GiveUp, Lifecycle!Start, Lifecycle!Finish
<1>4. QED
  BY <1>1, <1>2, <1>3

\* What no step takes back.
Forward ==
  /\ \A t \in Tasks : StatusForward(t) /\ (kds[t].status # "absent" => kds'[t].status # "absent")
  /\ \A t \in Tasks : order'[OrderOf[t]] = "absent" => status'[t] = "absent"
  /\ published \subseteq published' /\ dlq \subseteq dlq'

StepOK == TypeOK' /\ AtWork' /\ Forward

\* POST /orders keeps the types and moves forward.
LEMMA ProduceOK == ASSUME IInv, Produce PROVE StepOK
<1> USE DEF IInv, ServiceInv, StepOK
<1>1. ASSUME NEW o \in Orders, CreateOrder(o) \/ MarkTasksQueued(o) PROVE StepOK
  <2>1. Lifecycle!LifecycleNext
    BY <1>1 DEF CreateOrder, MarkTasksQueued, Lifecycle!LifecycleNext
  <2>2. UNCHANGED <<assigned, kds, published, stream, pending, dlq, worker, timers, calls, faults>>
    BY <1>1 DEF CreateOrder, MarkTasksQueued, redisVars
  <2>3. /\ status' \in [Tasks -> {"absent", "created", "queued", "displayed", "in_progress",
                                 "done", "failed"}]
        /\ order' \in [Orders -> {"absent", "created", "cooking", "ready_for_pickup"}]
    BY <2>1, LifecycleForward
  <2>6. /\ \A t \in Tasks : StatusForward(t)
        /\ \A t \in Tasks : order'[OrderOf[t]] = "absent" => status'[t] = "absent"
    BY <2>1, LifecycleForward
  <2>4. Forward
    <3>1. kds' = kds /\ published' = published /\ dlq' = dlq
      BY <2>2
    <3>2. \A t \in Tasks : kds[t].status # "absent" => kds'[t].status # "absent"
      BY <3>1
    <3>3. published \subseteq published' /\ dlq \subseteq dlq'
      BY <3>1
    <3>4. QED
      BY <2>6, <3>2, <3>3 DEF Forward
  <2>5. QED
    BY <2>2, <2>3, <2>4 DEF TypeOK, AtWork, MsgOf
<1>2. ASSUME NEW t \in Tasks, PublishTask(t) PROVE StepOK
  <2>1. [task |-> t, attempt |-> 1] \in Message
    BY BoundsType DEF Message
  <2>2. QED
    BY <1>2, <2>1 DEF PublishTask, fulfillmentVars, TypeOK, AtWork, MsgOf, Forward, StatusForward, Moved,
       CreatedTogether
<1>3. QED
  BY <1>1, <1>2 DEF Produce

\* A scheduler that reads the stream, takes a message or acknowledges one.
LEMMA LoopOK ==
  ASSUME IInv, NEW w \in Schedulers, Read(w) \/ Handle(w) \/ Ack(w) PROVE StepOK
<1> USE DEF IInv, ServiceInv, StepOK
<1>1. worker[w] \in Worker
  BY DEF TypeOK
<1>2. CASE Read(w)
  <2>1. PICK ms \in SUBSET stream : /\ stream' = stream \ ms
                                    /\ pending' = pending \union ms
                                    /\ worker' = [worker EXCEPT ![w].batch = ms]
    BY <1>2 DEF Read
  <2> DEFINE x == [worker[w] EXCEPT !.batch = ms]
  <2>2. x \in Worker /\ x.pc = "idle"
    BY <1>1, <1>2, <2>1 DEF Worker, TypeOK, Read, At
  <2>3. worker' = [worker EXCEPT ![w] = x]
    BY <2>1
  <2> HIDE DEF x
  <2>4. worker' \in [Schedulers -> Worker] /\ AtWork'
    BY <2>2, <2>3, SetWorker
  <2>5. QED
    BY <1>2, <2>1, <2>4 DEF Read, TypeOK, Forward, StatusForward, fulfillmentVars, Moved, CreatedTogether
<1>3. CASE Handle(w)
  <2>1. PICK m \in worker[w].batch :
          worker' = [worker EXCEPT ![w] = [batch |-> worker[w].batch \ {m}, msg |-> m,
                                           pc |-> "snapshot", station |-> NULL]]
    BY <1>3 DEF Handle
  <2> DEFINE x == [batch |-> worker[w].batch \ {m}, msg |-> m, pc |-> "snapshot",
                   station |-> NULL]
  <2>2. x \in Worker /\ x.msg \in Message
    BY <1>1 DEF Worker, Pcs
  <2> HIDE DEF x
  <2>3. worker' \in [Schedulers -> Worker] /\ AtWork'
    BY <2>1, <2>2, SetWorker DEF x
  <2>4. QED
    BY <1>3, <2>3 DEF Handle, TypeOK, Forward, StatusForward, fulfillmentVars, redisVars, Moved, CreatedTogether
<1>4. CASE Ack(w)
  BY <1>4, ReturnWorker DEF Ack, TypeOK, Forward, StatusForward, fulfillmentVars, Moved, CreatedTogether
<1>5. QED
  BY <1>2, <1>3, <1>4

\* A scheduler that asks a service and decides on the answer.
LEMMA AskOK ==
  ASSUME IInv, NEW w \in Schedulers,
         \/ GetTaskSnapshot(w) \/ GetDispatchReadiness(w) \/ CallFails(w)
         \/ DispatchFailedFails(w)
  PROVE  StepOK
<1> USE DEF IInv, ServiceInv, StepOK
<1>1. /\ worker[w].pc # "idle" /\ \E pc \in Pcs : Step(w, pc)
      /\ UNCHANGED <<status, order, assigned, kds, published, stream, pending, dlq, timers, calls,
                     faults>>
  BY DEF GetTaskSnapshot, GetDispatchReadiness, CallFails, DispatchFailedFails, At, Pcs,
     fulfillmentVars, redisVars
<1>2. worker' \in [Schedulers -> Worker] /\ AtWork'
  BY <1>1, StepWorker
<1>3. QED
  BY <1>1, <1>2 DEF TypeOK, Forward, StatusForward, Moved, CreatedTogether

\* Candidates are stations.
LEMMA CandidateStation ==
  ASSUME NEW t \in Tasks, Candidates(t) # {}
  PROVE  SelectStation(Candidates(t)) \in Candidates(t) /\ Candidates(t) \subseteq Stations
<1>1. Candidates(t) \subseteq Stations
  BY DispatchSuitableType DEF Candidates
<1>2. QED
  BY <1>1, SelectStationLeast

\* A scheduler that chooses a station and sends the delivery.
LEMMA SendDeliveryOK ==
  ASSUME IInv, NEW w \in Schedulers, SendDelivery(w) PROVE StepOK
<1> USE DEF IInv, ServiceInv, StepOK
<1> DEFINE s == SelectStation(Candidates(TaskOf(w)))
<1>1. MsgOf(w) \in Message /\ TaskOf(w) \in Tasks /\ worker[w].pc = "candidates"
  BY Shapes DEF SendDelivery, At, AtWork, MsgOf, TaskOf
<1>2. UNCHANGED <<status, order, assigned, kds, published, stream, pending, dlq, timers, faults>>
  BY DEF SendDelivery, fulfillmentVars, redisVars
<1>3. CASE Candidates(TaskOf(w)) = {}
  <2>1. Step(w, "retry") /\ UNCHANGED calls
    BY <1>3 DEF SendDelivery
  <2>2. worker' \in [Schedulers -> Worker] /\ AtWork'
    BY <1>1, <2>1, StepWorker DEF Pcs
  <2>3. QED
    BY <1>2, <2>1, <2>2 DEF TypeOK, Forward, StatusForward, Moved, CreatedTogether
<1>4. CASE Candidates(TaskOf(w)) # {}
  <2>1. s \in Stations
    BY <1>1, <1>4, CandidateStation
  <2>2. /\ worker' = [worker EXCEPT ![w].pc = "delivering", ![w].station = s]
        /\ calls' = calls \union {[op |-> "deliver", msg |-> MsgOf(w), station |-> s]}
    BY <1>4 DEF SendDelivery
  <2> HIDE DEF s
  <2> DEFINE x == [worker[w] EXCEPT !.pc = "delivering", !.station = s]
  <2>3. x \in Worker /\ x.msg = MsgOf(w) /\ x.pc = "delivering"
    BY <2>1 DEF TypeOK, Worker, Pcs, MsgOf
  <2>4. worker' = [worker EXCEPT ![w] = x]
    BY <2>2 DEF TypeOK
  <2> HIDE DEF x
  <2>5. worker' \in [Schedulers -> Worker] /\ AtWork'
    BY <1>1, <2>3, <2>4, SetWorker
  <2>6. [op |-> "deliver", msg |-> MsgOf(w), station |-> s] \in Call
    BY <1>1, <2>1 DEF Call
  <2>7. QED
    BY <1>2, <2>2, <2>5, <2>6 DEF TypeOK, Forward, StatusForward, Moved, CreatedTogether
<1>5. QED
  BY <1>3, <1>4

\* The services have not moved.
LEMMA StillForward ==
  ASSUME CreatedTogether, UNCHANGED <<status, order, kds>>,
         published \subseteq published', dlq \subseteq dlq'
  PROVE  Forward
  BY DEF CreatedTogether, Forward, StatusForward, Moved

\* A scheduler that schedules a retry or moves its message to the dead letters.
LEMMA RetryOrDLQOK ==
  ASSUME IInv, NEW w \in Schedulers, ScheduleRetry(w) \/ MoveToDLQ(w) PROVE StepOK
<1> USE DEF IInv, ServiceInv, StepOK
<1>1. MsgOf(w) \in Message /\ worker[w].pc = "retry"
  BY DEF ScheduleRetry, MoveToDLQ, At, AtWork, MsgOf
<1>2. CASE ScheduleRetry(w)
  <2>1. NextAttempt(w) \in Message
    BY <1>1, <1>2, BoundsType DEF ScheduleRetry, NextAttempt, Exhausted, Message, TaskOf, MsgOf
  <2>2. /\ Step(w, "ack") /\ timers' = [timers EXCEPT ![w] = @ \union {NextAttempt(w)}]
        /\ UNCHANGED <<status, order, assigned, kds, published, stream, pending, dlq, calls, faults>>
    BY <1>2 DEF ScheduleRetry, fulfillmentVars, redisVars
  <2>3. worker' \in [Schedulers -> Worker] /\ AtWork'
    BY <1>1, <2>2, StepWorker DEF Pcs
  <2>4. Forward
    BY <2>2, StillForward
  <2>5. QED
    BY <2>1, <2>2, <2>3, <2>4 DEF TypeOK
<1>3. CASE MoveToDLQ(w)
  <2>1. [op |-> "failed", msg |-> MsgOf(w)] \in Call
    BY <1>1 DEF Call
  <2>2. /\ Step(w, "failing") /\ dlq' = dlq \union {MsgOf(w)}
        /\ calls' = calls \union {[op |-> "failed", msg |-> MsgOf(w)]}
        /\ UNCHANGED <<status, order, assigned, kds, published, stream, pending, timers, faults>>
    BY <1>3 DEF MoveToDLQ, fulfillmentVars
  <2>3. worker' \in [Schedulers -> Worker] /\ AtWork'
    BY <1>1, <2>2, StepWorker DEF Pcs
  <2>4. Forward
    BY <2>2, StillForward
  <2>5. QED
    BY <1>1, <2>1, <2>2, <2>3, <2>4 DEF TypeOK
<1>4. QED
  BY <1>2, <1>3

\* A retry that wakes up, a crash, a Redis command that fails.
LEMMA FaultOK ==
  ASSUME IInv, NEW w \in Schedulers, FireRetry(w) \/ Crash(w) \/ RedisFails(w) PROVE StepOK
<1> USE DEF IInv, ServiceInv, StepOK
<1>1. /\ UNCHANGED <<status, order, assigned, kds, published, pending, dlq, calls>>
      /\ faults' \in 0..MaxFaults
  BY BoundsType DEF FireRetry, Crash, RedisFails, fulfillmentVars, redisVars, TypeOK
<1>2. Forward
  BY <1>1, StillForward
<1>3. timers' \in [Schedulers -> SUBSET Message] /\ stream' \subseteq Message
  BY DEF FireRetry, Crash, RedisFails, redisVars, TypeOK
<1>4. worker' \in [Schedulers -> Worker] /\ AtWork'
  <2>1. CASE UNCHANGED worker
    BY <2>1 DEF TypeOK, AtWork, MsgOf
  <2>2. CASE worker' = [worker EXCEPT ![w] = Resting]
    BY <2>2, SetWorker, Shapes
  <2>3. CASE Return(w)
    BY <2>3, ReturnWorker
  <2>4. QED
    BY <2>1, <2>2, <2>3 DEF FireRetry, Crash, RedisFails
<1>5. QED
  BY <1>1, <1>2, <1>3, <1>4 DEF TypeOK

\* An answer moves the scheduler that waits for it, if there is one.
LEMMA AnswerWorker ==
  ASSUME TypeOK, AtWork, NEW c, NEW from \in Pcs \ {"idle"}, NEW to \in Pcs,
         \/ UNCHANGED worker
         \/ \E w \in Schedulers : Waits(w, c, from) /\ Step(w, to)
  PROVE  worker' \in [Schedulers -> Worker] /\ AtWork'
<1>1. CASE UNCHANGED worker
  BY <1>1 DEF TypeOK, AtWork, MsgOf
<1>2. ASSUME NEW w \in Schedulers, Waits(w, c, from), Step(w, to)
      PROVE  worker' \in [Schedulers -> Worker] /\ AtWork'
  BY <1>2, StepWorker DEF Waits, At
<1>3. QED
  BY <1>1, <1>2

\* deliver_task at kitchen-service.
LEMMA ServeDeliverOK == ASSUME IInv, NEW c \in calls, ServeDeliver(c) PROVE StepOK
<1> USE DEF IInv, ServiceInv, StepOK
<1>1. c \in Call /\ c.msg \in Message /\ c.msg.task \in Tasks /\ c.station \in Stations
  BY Shapes DEF TypeOK, ServeDeliver
<1>2. UNCHANGED <<status, order, assigned, published, stream, pending, dlq, timers, faults>>
  BY DEF ServeDeliver, fulfillmentVars, redisVars
<1>3. /\ kds' \in [Tasks -> Row]
      /\ \A t \in Tasks : kds[t].status # "absent" => kds'[t].status # "absent"
  BY <1>1 DEF ServeDeliver, TypeOK, Row
<1>4. calls' \subseteq Call
  <2>1. [op |-> "mark", msg |-> c.msg, station |-> c.station] \in Call
    BY <1>1 DEF Call
  <2>2. QED
    BY <2>1 DEF ServeDeliver, TypeOK
<1>5. worker' \in [Schedulers -> Worker] /\ AtWork'
  <2>1. \/ UNCHANGED worker
        \/ \E w \in Schedulers : Waits(w, c, "delivering") /\ Step(w, "retry")
        \/ \E w \in Schedulers : Waits(w, c, "delivering") /\ Step(w, "marking")
    BY DEF ServeDeliver
  <2>2. /\ "delivering" \in Pcs \ {"idle"}
        /\ "retry" \in Pcs /\ "marking" \in Pcs
    BY DEF Pcs
  <2>3. CASE \/ UNCHANGED worker
             \/ \E w \in Schedulers : Waits(w, c, "delivering") /\ Step(w, "retry")
    BY <2>2, <2>3, AnswerWorker
  <2>4. CASE \E w \in Schedulers : Waits(w, c, "delivering") /\ Step(w, "marking")
    BY <2>2, <2>4, AnswerWorker
  <2>5. QED
    BY <2>1, <2>3, <2>4
<1>6. Forward
  BY <1>2, <1>3 DEF Forward, StatusForward, Moved, CreatedTogether
<1>7. QED
  BY <1>2, <1>3, <1>4, <1>5, <1>6 DEF TypeOK

\* mark_displayed and dispatch_failed at fulfillment-service.
LEMMA ServeStatusOK ==
  ASSUME IInv, NEW c \in calls, ServeMark(c) \/ ServeDispatchFailed(c) PROVE StepOK
<1> USE DEF IInv, ServiceInv, StepOK
<1>1. c \in Call /\ c.msg \in Message /\ c.msg.task \in Tasks
  BY Shapes DEF TypeOK
<1>2. /\ UNCHANGED <<kds, published, stream, pending, dlq, timers, faults>>
      /\ calls' \subseteq calls
  BY DEF ServeMark, ServeDispatchFailed, redisVars
<1>3. assigned' \in [Tasks -> Stations \union {NULL}]
  <2>1. CASE ServeMark(c)
    <3>1. c.station \in Stations
      BY <1>1, <2>1, Shapes DEF ServeMark
    <3>2. QED
      BY <1>1, <2>1, <3>1 DEF ServeMark, TypeOK, fulfillmentVars
  <2>2. QED
    BY <2>1 DEF ServeDispatchFailed, TypeOK
<1>4. worker' \in [Schedulers -> Worker] /\ AtWork'
  <2>1. \/ UNCHANGED worker
        \/ \E w \in Schedulers : Waits(w, c, "marking") /\ Step(w, "ack")
        \/ \E w \in Schedulers : Waits(w, c, "failing") /\ Step(w, "ack")
    BY DEF ServeMark, ServeDispatchFailed
  <2>2. /\ "marking" \in Pcs \ {"idle"} /\ "failing" \in Pcs \ {"idle"}
        /\ "ack" \in Pcs
    BY DEF Pcs
  <2>3. CASE \/ UNCHANGED worker
             \/ \E w \in Schedulers : Waits(w, c, "marking") /\ Step(w, "ack")
    BY <2>2, <2>3, AnswerWorker
  <2>4. CASE \E w \in Schedulers : Waits(w, c, "failing") /\ Step(w, "ack")
    BY <2>2, <2>4, AnswerWorker
  <2>5. QED
    BY <2>1, <2>3, <2>4
<1>5. /\ status' \in [Tasks -> {"absent", "created", "queued", "displayed", "in_progress",
                                "done", "failed"}]
      /\ order' \in [Orders -> {"absent", "created", "cooking", "ready_for_pickup"}]
      /\ \A t \in Tasks : StatusForward(t)
      /\ \A t \in Tasks : order'[OrderOf[t]] = "absent" => status'[t] = "absent"
  <2>1. CASE UNCHANGED <<status, order>>
    BY <2>1 DEF TypeOK, StatusForward, Moved, CreatedTogether
  <2>2. CASE Lifecycle!LifecycleNext
    BY <2>2, LifecycleForward
  <2>3. QED
    BY <1>1, <2>1, <2>2 DEF ServeMark, ServeDispatchFailed, fulfillmentVars, Lifecycle!LifecycleNext
<1>6. Forward
  BY <1>2, <1>5 DEF Forward
<1>7. QED
  BY <1>2, <1>3, <1>4, <1>5, <1>6 DEF TypeOK

\* A cook who claims or completes a task.
LEMMA CookOK == ASSUME IInv, NEW t \in Tasks, Claim(t) \/ Complete(t) PROVE StepOK
<1> USE DEF IInv, ServiceInv, StepOK
<1>1. UNCHANGED <<assigned, published, stream, pending, dlq, worker, timers, calls, faults>>
  BY DEF Claim, Complete, redisVars
<1>2. /\ kds' \in [Tasks -> Row]
      /\ \A u \in Tasks : kds[u].status # "absent" => kds'[u].status # "absent"
  <2>1. kds[t] \in Row
    BY DEF TypeOK
  <2>2. \/ kds' = [kds EXCEPT ![t] = [kds[t] EXCEPT !.status = "claimed"]]
        \/ kds' = [kds EXCEPT ![t] = [kds[t] EXCEPT !.status = "completed"]]
    BY DEF Claim, Complete
  <2>3. /\ [kds[t] EXCEPT !.status = "claimed"] \in Row
        /\ [kds[t] EXCEPT !.status = "completed"] \in Row
        /\ [kds[t] EXCEPT !.status = "claimed"].status = "claimed"
        /\ [kds[t] EXCEPT !.status = "completed"].status = "completed"
    BY <2>1 DEF Row
  <2>4. QED
    BY <2>2, <2>3 DEF TypeOK
<1>3. /\ status' \in [Tasks -> {"absent", "created", "queued", "displayed", "in_progress",
                                "done", "failed"}]
      /\ order' \in [Orders -> {"absent", "created", "cooking", "ready_for_pickup"}]
      /\ \A u \in Tasks : StatusForward(u)
      /\ \A u \in Tasks : order'[OrderOf[u]] = "absent" => status'[u] = "absent"
  BY LifecycleForward DEF Claim, Complete, Lifecycle!LifecycleNext
<1>4. Forward
  BY <1>1, <1>2, <1>3 DEF Forward
<1>5. QED
  BY <1>1, <1>2, <1>3, <1>4 DEF TypeOK, AtWork, MsgOf

\* Every step keeps the types and moves forward.
LEMMA NextOK == ASSUME IInv, Next PROVE StepOK
  BY ProduceOK, LoopOK, AskOK, SendDeliveryOK, RetryOrDLQOK, FaultOK, ServeDeliverOK,
     ServeStatusOK, CookOK
  DEF Next, Run, Serve

-----------------------------------------------------------------------------
(* What schedulers and calls rely on is kept *)

\* What a step adds is justified by the state it starts from.
Follows ==
  /\ \A t \in published' : t \in published \/ status[t] # "absent"
  /\ \A w \in Schedulers :
       /\ worker'[w].pc \in {"readiness", "candidates", "delivering", "marking"}
            => Moved(worker'[w].msg.task)
       /\ worker'[w].pc \in {"candidates", "delivering", "marking"}
            => DependenciesDone(worker'[w].msg.task)
  /\ \A c \in calls' :
       /\ c.op \in {"deliver", "mark"} => Moved(c.msg.task)
       /\ c.op = "deliver" => DependenciesDone(c.msg.task)
       /\ c.op = "mark" => kds'[c.msg.task].status # "absent"
       /\ c.op = "failed" => c.msg \in dlq'
  /\ \A t \in Tasks :
       /\ kds'[t].status # "absent" => kds[t].status # "absent" \/ DependenciesDone(t)
       /\ status'[t] \in {"displayed", "in_progress", "done"}
            => status[t] \in {"displayed", "in_progress", "done"} \/ kds[t].status # "absent"
       /\ status'[t] = "failed" => status[t] = "failed" \/ \E m \in dlq : m.task = t

\* Such a step keeps ServiceInv.
LEMMA ServiceKept == ASSUME IInv, StepOK, Follows PROVE ServiceInv'
<1> USE DEF IInv, ServiceInv, StepOK
<1>1. \A t \in Tasks : DependenciesDone(t) => \A d \in DependsOn[t] : status'[d] = "done"
  BY DependsOnType DEF DependenciesDone, Forward, StatusForward
<1>2. \A t \in Tasks : Moved(t) => status'[t] \notin {"absent", "created"}
  BY DEF Forward, StatusForward
<1>3. CreatedTogether'
  BY DEF Follows, CreatedTogether, Forward, StatusForward, TypeOK
<1>4. Justified'
  <2>1. ASSUME NEW w \in Schedulers
        PROVE  /\ worker'[w].pc \in {"readiness", "candidates", "delivering", "marking"}
                    => status'[worker'[w].msg.task] \notin {"absent", "created"}
               /\ worker'[w].pc \in {"candidates", "delivering", "marking"}
                    => \A d \in DependsOn[worker'[w].msg.task] : status'[d] = "done"
    <3>1. worker'[w].pc # "idle" => worker'[w].msg.task \in Tasks
      BY <2>1, Shapes DEF AtWork, MsgOf
    <3>2. QED
      BY <1>1, <1>2, <2>1, <3>1 DEF Follows
  <2>2. ASSUME NEW c \in calls'
        PROVE  /\ c.op \in {"deliver", "mark"} => status'[c.msg.task] \notin {"absent", "created"}
               /\ c.op = "deliver" => \A d \in DependsOn[c.msg.task] : status'[d] = "done"
               /\ c.op = "mark" => kds'[c.msg.task].status # "absent"
               /\ c.op = "failed" => c.msg \in dlq'
    <3>1. c.msg.task \in Tasks
      BY <2>2, Shapes DEF TypeOK
    <3>2. QED
      BY <1>1, <1>2, <2>2, <3>1 DEF Follows
  <2>3. QED
    BY <2>1, <2>2 DEF Justified, Moved, DependenciesDone, TaskOf
<1>5. DependenciesFirst'
  <2> SUFFICES ASSUME NEW t \in Tasks, kds'[t].status # "absent", NEW d \in DependsOn[t]
               PROVE  status'[d] = "done"
    BY DEF DependenciesFirst
  <2>1. DependenciesDone(t)
    BY DEF Follows, DependenciesFirst, DependenciesDone
  <2>2. QED
    BY <1>1, <2>1
<1>6. DisplayedIsDelivered'
  BY DEF Follows, DisplayedIsDelivered, Forward
<1>7. FailedHasLetter'
  BY DEF Follows, FailedHasLetter, Forward
<1>8. QED
  BY <1>3, <1>4, <1>5, <1>6, <1>7

\* The part of Follows that no call of the services touches.
LEMMA FollowsQuiet ==
  ASSUME IInv, UNCHANGED <<status, kds, published, calls>>, dlq \subseteq dlq',
         NEW w \in Schedulers,
         \A v \in Schedulers \ {w} : worker'[v] = worker[v],
         worker'[w].pc \in {"readiness", "candidates", "delivering", "marking"}
           => Moved(worker'[w].msg.task),
         worker'[w].pc \in {"candidates", "delivering", "marking"}
           => DependenciesDone(worker'[w].msg.task)
  PROVE  Follows
  BY DEF IInv, ServiceInv, Follows, Justified, TaskOf

\* POST /orders gives nobody a reason to act that it did not have.
LEMMA ProduceFollows == ASSUME IInv, Produce PROVE Follows
<1> USE DEF IInv, ServiceInv
<1>1. ASSUME NEW o \in Orders, CreateOrder(o) \/ MarkTasksQueued(o) PROVE Follows
  <2>1. UNCHANGED <<kds, published, dlq, worker, calls>>
    BY <1>1 DEF CreateOrder, MarkTasksQueued, redisVars
  <2>2. \A t \in Tasks : status'[t] \in {"created", "queued"} \/ status'[t] = status[t]
    BY <1>1 DEF CreateOrder, MarkTasksQueued, Lifecycle!Create, Lifecycle!Queue, TypeOK
  <2>3. QED
    BY <2>1, <2>2 DEF Follows, Justified, TaskOf
<1>2. ASSUME NEW t \in Tasks, PublishTask(t) PROVE Follows
  BY <1>2 DEF PublishTask, fulfillmentVars, Follows, Justified, TaskOf
<1>3. QED
  BY <1>1, <1>2 DEF Produce

\* Ready tasks have moved, and their dependencies are done.
LEMMA ReadyIsJustified ==
  ASSUME NEW t \in Tasks
  PROVE  /\ isDispatchable(status[t]) => Moved(t)
         /\ Ready(t) => Moved(t) /\ DependenciesDone(t)
  BY DEF isDispatchable, Moved, Ready, DependenciesDone

\* Steps of a scheduler that send nothing to the services.
LEMMA SchedulerFollows ==
  ASSUME IInv, NEW w \in Schedulers,
         \/ Read(w) \/ Handle(w) \/ Ack(w) \/ GetTaskSnapshot(w) \/ GetDispatchReadiness(w)
         \/ CallFails(w) \/ DispatchFailedFails(w) \/ ScheduleRetry(w) \/ FireRetry(w)
         \/ Crash(w) \/ RedisFails(w)
  PROVE  Follows
<1> USE DEF IInv, ServiceInv
<1>1. UNCHANGED <<status, kds, published, calls>> /\ dlq \subseteq dlq'
  BY DEF Read, Handle, Ack, GetTaskSnapshot, GetDispatchReadiness, CallFails, DispatchFailedFails,
     ScheduleRetry, FireRetry, Crash, RedisFails, fulfillmentVars, redisVars
<1> DEFINE Calm == /\ \A v \in Schedulers \ {w} : worker'[v] = worker[v]
                   /\ \/ worker'[w].pc \notin {"readiness", "candidates", "delivering", "marking"}
                      \/ worker'[w].pc = worker[w].pc /\ worker'[w].msg = worker[w].msg
<1>2. ASSUME Calm PROVE Follows
  <2>1. /\ worker'[w].pc \in {"readiness", "candidates", "delivering", "marking"}
             => Moved(worker'[w].msg.task)
        /\ worker'[w].pc \in {"candidates", "delivering", "marking"}
             => DependenciesDone(worker'[w].msg.task)
    BY <1>2 DEF Justified, TaskOf
  <2>2. QED
    BY <1>1, <1>2, <2>1, FollowsQuiet
<1>3. CASE Read(w) \/ Handle(w)
  <2>1. Calm
    BY <1>3 DEF Read, Handle, TypeOK, Worker
  <2>2. QED
    BY <1>2, <2>1
<1>4. CASE FireRetry(w) \/ UNCHANGED worker
  BY <1>2, <1>4 DEF FireRetry
<1>5. CASE Return(w)
  <2>1. Calm
    BY <1>5, ReturnWorker
  <2>2. QED
    BY <1>2, <2>1
<1>6. CASE Crash(w)
  <2>1. Calm
    BY <1>6, Shapes DEF Crash, TypeOK
  <2>2. QED
    BY <1>2, <2>1
<1>7. ASSUME worker[w].pc # "idle", NEW pc \in {"retry", "ack"}, Step(w, pc) PROVE Follows
  <2>1. Calm
    BY <1>7, StepWorker DEF Pcs
  <2>2. QED
    BY <1>2, <2>1
<1>8. CASE GetTaskSnapshot(w) /\ Step(w, "readiness")
  <2>1. worker[w].pc # "idle" /\ TaskOf(w) \in Tasks
    BY <1>8, Shapes DEF GetTaskSnapshot, At, AtWork, MsgOf, TaskOf
  <2>2. /\ worker'[w].pc = "readiness" /\ worker'[w].msg = worker[w].msg
        /\ \A v \in Schedulers \ {w} : worker'[v] = worker[v]
    BY <1>8, <2>1, StepWorker DEF Pcs
  <2>3. isDispatchable(status[TaskOf(w)])
    BY <1>8, <2>2 DEF GetTaskSnapshot, Step, TypeOK, Worker
  <2>4. QED
    BY <1>1, <2>1, <2>2, <2>3, FollowsQuiet, ReadyIsJustified DEF TaskOf
<1>9. CASE GetDispatchReadiness(w) /\ Step(w, "candidates")
  <2>1. worker[w].pc # "idle" /\ TaskOf(w) \in Tasks
    BY <1>9, Shapes DEF GetDispatchReadiness, At, AtWork, MsgOf, TaskOf
  <2>2. /\ worker'[w].pc = "candidates" /\ worker'[w].msg = worker[w].msg
        /\ \A v \in Schedulers \ {w} : worker'[v] = worker[v]
    BY <1>9, <2>1, StepWorker DEF Pcs
  <2>3. Ready(TaskOf(w))
    BY <1>9, <2>2 DEF GetDispatchReadiness, Step, TypeOK, Worker
  <2>4. QED
    BY <1>1, <2>1, <2>2, <2>3, FollowsQuiet, ReadyIsJustified DEF TaskOf
<1>10. QED
  <2>1. CASE GetTaskSnapshot(w)
    BY <1>7, <1>8, <2>1 DEF GetTaskSnapshot, At
  <2>2. CASE GetDispatchReadiness(w)
    BY <1>7, <1>9, <2>2 DEF GetDispatchReadiness, At
  <2>3. CASE CallFails(w) \/ DispatchFailedFails(w) \/ ScheduleRetry(w)
    BY <1>7, <2>3 DEF CallFails, DispatchFailedFails, ScheduleRetry, At
  <2>4. CASE Ack(w) \/ RedisFails(w)
    BY <1>4, <1>5, <2>4 DEF Ack, RedisFails
  <2>5. QED
    BY <1>3, <1>4, <1>6, <2>1, <2>2, <2>3, <2>4

\* Sending a delivery: the scheduler knows that the task is ready.
LEMMA SendDeliveryFollows == ASSUME IInv, NEW w \in Schedulers, SendDelivery(w) PROVE Follows
<1> USE DEF IInv, ServiceInv
<1> DEFINE s == SelectStation(Candidates(TaskOf(w)))
           c == [op |-> "deliver", msg |-> MsgOf(w), station |-> s]
<1>1. UNCHANGED <<status, kds, published, dlq>>
  BY DEF SendDelivery, fulfillmentVars, redisVars
<1>2. Moved(TaskOf(w)) /\ DependenciesDone(TaskOf(w)) /\ worker[w].pc = "candidates"
  BY DEF SendDelivery, At, Justified
<1>3. \A v \in Schedulers \ {w} : worker'[v] = worker[v]
  BY DEF SendDelivery, Step, TypeOK
<1>4. worker'[w].msg = worker[w].msg
  BY DEF SendDelivery, Step, TypeOK, Worker
<1>5. /\ calls' \subseteq calls \union {c}
      /\ c.op = "deliver" /\ c.msg.task = TaskOf(w)
  BY DEF SendDelivery, MsgOf, TaskOf
<1> HIDE DEF s, c
<1>6. \A v \in Schedulers : /\ worker'[v].pc \in {"readiness", "candidates", "delivering", "marking"}
                                => Moved(worker'[v].msg.task)
                            /\ worker'[v].pc \in {"candidates", "delivering", "marking"}
                                => DependenciesDone(worker'[v].msg.task)
  BY <1>2, <1>3, <1>4 DEF Justified, TaskOf
<1>7. QED
  BY <1>1, <1>2, <1>5, <1>6 DEF Follows, Justified

\* Dead-lettering: the call that fails the task finds its letter.
LEMMA MoveToDLQFollows == ASSUME IInv, NEW w \in Schedulers, MoveToDLQ(w) PROVE Follows
<1> USE DEF IInv, ServiceInv
<1>1. /\ UNCHANGED <<status, kds, published>> /\ dlq' = dlq \union {MsgOf(w)}
      /\ calls' = calls \union {[op |-> "failed", msg |-> MsgOf(w)]}
      /\ worker[w].pc # "idle" /\ Step(w, "failing")
  BY DEF MoveToDLQ, fulfillmentVars, At
<1>2. worker'[w].pc = "failing" /\ \A v \in Schedulers \ {w} : worker'[v] = worker[v]
  BY <1>1, StepWorker DEF Pcs
<1>3. QED
  BY <1>1, <1>2 DEF Follows, Justified, TaskOf

\* What an answer does to the workers leaves them justified, if the task of the
\* call is.
LEMMA AnswerFollows ==
  ASSUME IInv, NEW c \in calls, NEW from \in Pcs \ {"idle"}, NEW to \in Pcs,
         \/ UNCHANGED worker
         \/ \E w \in Schedulers : Waits(w, c, from) /\ Step(w, to),
         to = "marking" => Moved(c.msg.task) /\ DependenciesDone(c.msg.task),
         to \notin {"readiness", "candidates", "delivering"}
  PROVE  \A v \in Schedulers :
           /\ worker'[v].pc \in {"readiness", "candidates", "delivering", "marking"}
                => Moved(worker'[v].msg.task)
           /\ worker'[v].pc \in {"candidates", "delivering", "marking"}
                => DependenciesDone(worker'[v].msg.task)
<1> USE DEF IInv, ServiceInv
<1>1. CASE UNCHANGED worker
  BY <1>1 DEF Justified, TaskOf
<1>2. ASSUME NEW w \in Schedulers, Waits(w, c, from), Step(w, to)
      PROVE  \A v \in Schedulers :
               /\ worker'[v].pc \in {"readiness", "candidates", "delivering", "marking"}
                    => Moved(worker'[v].msg.task)
               /\ worker'[v].pc \in {"candidates", "delivering", "marking"}
                    => DependenciesDone(worker'[v].msg.task)
  <2>1. worker[w].pc # "idle" /\ worker[w].msg = c.msg
    BY <1>2 DEF Waits, At, MsgOf
  <2>2. /\ worker'[w].pc = to /\ worker'[w].msg = c.msg
        /\ \A v \in Schedulers \ {w} : worker'[v] = worker[v]
    BY <1>2, <2>1, StepWorker
  <2>3. QED
    BY <2>2 DEF Justified, TaskOf
<1>3. QED
  BY <1>1, <1>2

\* deliver_task: a new row, only for a task whose dependencies are done; the
\* mark that follows finds a row.
LEMMA ServeDeliverFollows == ASSUME IInv, NEW c \in calls, ServeDeliver(c) PROVE Follows
<1> USE DEF IInv, ServiceInv
<1> DEFINE t == c.msg.task
           mark == [op |-> "mark", msg |-> c.msg, station |-> c.station]
<1>1. t \in Tasks /\ Moved(t) /\ DependenciesDone(t)
  BY Shapes DEF ServeDeliver, Justified, TypeOK
<1>2. UNCHANGED <<status, published, dlq>>
  BY DEF ServeDeliver, fulfillmentVars, redisVars
<1>3. /\ \A u \in Tasks : kds'[u].status # "absent" => kds[u].status # "absent" \/ u = t
      /\ \A u \in Tasks : kds[u].status # "absent" => kds'[u].status # "absent"
      /\ ~Refused(c) => kds'[t].status # "absent"
  BY <1>1 DEF ServeDeliver, TypeOK, Refused
<1>4. \/ calls' = calls \ {c}
      \/ calls' = (calls \ {c}) \union {mark} /\ ~Refused(c)
  BY DEF ServeDeliver
<1>5. mark.op = "mark" /\ mark.msg.task = t
  OBVIOUS
<1>6. \A v \in Schedulers :
        /\ worker'[v].pc \in {"readiness", "candidates", "delivering", "marking"}
             => Moved(worker'[v].msg.task)
        /\ worker'[v].pc \in {"candidates", "delivering", "marking"}
             => DependenciesDone(worker'[v].msg.task)
  <2>1. "delivering" \in Pcs \ {"idle"} /\ "retry" \in Pcs /\ "marking" \in Pcs
    BY DEF Pcs
  <2>2. CASE \/ UNCHANGED worker
             \/ \E w \in Schedulers : Waits(w, c, "delivering") /\ Step(w, "retry")
    BY <2>1, <2>2, AnswerFollows
  <2>3. CASE \E w \in Schedulers : Waits(w, c, "delivering") /\ Step(w, "marking")
    BY <1>1, <2>1, <2>3, AnswerFollows
  <2>4. QED
    BY <2>2, <2>3 DEF ServeDeliver
<1> HIDE DEF mark, t
<1>7. \A d \in calls' : /\ d.op \in {"deliver", "mark"} => Moved(d.msg.task)
                        /\ d.op = "deliver" => DependenciesDone(d.msg.task)
                        /\ d.op = "mark" => kds'[d.msg.task].status # "absent"
                        /\ d.op = "failed" => d.msg \in dlq'
  <2> SUFFICES ASSUME NEW d \in calls'
               PROVE  /\ d.op \in {"deliver", "mark"} => Moved(d.msg.task)
                      /\ d.op = "deliver" => DependenciesDone(d.msg.task)
                      /\ d.op = "mark" => kds'[d.msg.task].status # "absent"
                      /\ d.op = "failed" => d.msg \in dlq'
    OBVIOUS
  <2>1. CASE d \in calls
    <3>1. d.msg.task \in Tasks
      BY <2>1, Shapes DEF TypeOK
    <3>2. QED
      BY <1>2, <1>3, <2>1, <3>1 DEF Justified
  <2>2. CASE d = mark /\ ~Refused(c)
    BY <1>1, <1>3, <1>5, <2>2
  <2>3. QED
    BY <1>4, <2>1, <2>2
<1>8. QED
  BY <1>1, <1>2, <1>3, <1>6, <1>7 DEF Follows

\* mark_displayed and dispatch_failed: the row and the letter are there.
LEMMA ServeStatusFollows ==
  ASSUME IInv, NEW c \in calls, ServeMark(c) \/ ServeDispatchFailed(c) PROVE Follows
<1> USE DEF IInv, ServiceInv
<1>1. c.msg.task \in Tasks
  BY Shapes DEF TypeOK
<1>2. UNCHANGED <<kds, published, dlq>> /\ calls' \subseteq calls
  BY DEF ServeMark, ServeDispatchFailed, redisVars
<1>3. \A v \in Schedulers :
        /\ worker'[v].pc \in {"readiness", "candidates", "delivering", "marking"}
             => Moved(worker'[v].msg.task)
        /\ worker'[v].pc \in {"candidates", "delivering", "marking"}
             => DependenciesDone(worker'[v].msg.task)
  <2>1. "marking" \in Pcs \ {"idle"} /\ "failing" \in Pcs \ {"idle"} /\ "ack" \in Pcs
    BY DEF Pcs
  <2>2. CASE ServeMark(c)
    BY <2>1, <2>2, AnswerFollows DEF ServeMark
  <2>3. CASE ServeDispatchFailed(c)
    BY <2>1, <2>3, AnswerFollows DEF ServeDispatchFailed
  <2>4. QED
    BY <2>2, <2>3
<1>4. ASSUME NEW t \in Tasks
      PROVE  /\ status'[t] \in {"displayed", "in_progress", "done"}
                  => status[t] \in {"displayed", "in_progress", "done"} \/ kds[t].status # "absent"
             /\ status'[t] = "failed" => status[t] = "failed" \/ \E m \in dlq : m.task = t
  <2>1. CASE ServeMark(c)
    <3>1. kds[c.msg.task].status # "absent"
      BY <2>1 DEF ServeMark, Justified
    <3>2. \/ UNCHANGED status
          \/ status' = [status EXCEPT ![c.msg.task] = "displayed"]
      BY <2>1 DEF ServeMark, Lifecycle!Dispatch, fulfillmentVars
    <3>3. QED
      BY <1>1, <3>1, <3>2 DEF TypeOK
  <2>2. CASE ServeDispatchFailed(c)
    <3>1. c.msg \in dlq
      BY <2>2 DEF ServeDispatchFailed, Justified
    <3>2. \/ UNCHANGED status
          \/ status' = [status EXCEPT ![c.msg.task] = "failed"]
      BY <2>2 DEF ServeDispatchFailed, Lifecycle!GiveUp
    <3>3. QED
      BY <1>1, <3>1, <3>2 DEF TypeOK
  <2>3. QED
    BY <2>1, <2>2
<1>5. QED
  BY <1>2, <1>3, <1>4 DEF Follows, Justified

\* A cook only moves tasks that have a row.
LEMMA CookFollows == ASSUME IInv, NEW t \in Tasks, Claim(t) \/ Complete(t) PROVE Follows
<1> USE DEF IInv, ServiceInv
<1>1. UNCHANGED <<published, dlq, worker, calls>>
  BY DEF Claim, Complete, redisVars
<1>2. kds[t].status # "absent"
  BY DEF Claim, Complete
<1>3. \A u \in Tasks \ {t} : kds'[u] = kds[u] /\ status'[u] = status[u]
  BY DEF Claim, Complete, Lifecycle!Start, Lifecycle!Finish, TypeOK
<1>4. status'[t] # "failed" /\ kds'[t].status # "absent"
  BY DEF Claim, Complete, Lifecycle!Start, Lifecycle!Finish, TypeOK, Row
<1>5. \A c \in calls : c.msg.task \in Tasks
  BY Shapes DEF TypeOK
<1>6. QED
  BY <1>1, <1>2, <1>3, <1>4, <1>5 DEF Follows, Justified, TaskOf

\* Every step keeps what schedulers and calls rely on.
LEMMA NextService == ASSUME IInv, Next PROVE ServiceInv'
<1>1. Follows
  BY ProduceFollows, SchedulerFollows, SendDeliveryFollows, MoveToDLQFollows, ServeDeliverFollows,
     ServeStatusFollows, CookFollows
  DEF Next, Run, Serve
<1>2. QED
  BY <1>1, NextOK, ServiceKept

-----------------------------------------------------------------------------
(* Tokens move, are replaced or are dropped *)

StreamToken(m) == [at |-> "stream", by |-> NULL, msg |-> m]
BatchToken(w, m) == [at |-> "batch", by |-> w, msg |-> m]
HandToken(w, m) == [at |-> "hand", by |-> w, msg |-> m]
TimerToken(w, m) == [at |-> "timer", by |-> w, msg |-> m]

\* Where a token is.
LEMMA TokenPlace ==
  /\ \A x \in Token : \/ x.at = "stream" /\ x.by = NULL /\ x = StreamToken(x.msg)
                      \/ x.at = "stream" /\ x.by # NULL
                      \/ x.at = "batch" /\ x = BatchToken(x.by, x.msg)
                      \/ x.at = "hand" /\ x = HandToken(x.by, x.msg)
                      \/ x.at = "timer" /\ x = TimerToken(x.by, x.msg)
  /\ \A m \in Message : StreamToken(m) \in Token
  /\ \A w \in Schedulers, m \in Message :
       BatchToken(w, m) \in Token /\ HandToken(w, m) \in Token /\ TimerToken(w, m) \in Token
  BY DEF Token, StreamToken, BatchToken, HandToken, TimerToken

\* Tokens are dropped.
LEMMA TokensFewer ==
  ASSUME TokenInv, Tokens' \subseteq Tokens, published \subseteq published', dlq' = dlq
  PROVE  TokenInv'
  BY DEF TokenInv, OneToken, TokensPublished, DeadIsDead

\* A token is replaced by another of its task.
LEMMA TokenReplaced ==
  ASSUME TokenInv, NEW g \in Tokens, NEW n, Tokens' \subseteq (Tokens \ {g}) \union {n},
         n.msg.task = g.msg.task, published' = published, dlq' = dlq
  PROVE  TokenInv'
  BY DEF TokenInv, OneToken, TokensPublished, DeadIsDead

\* A step that hands out no message drops tokens at most.
LEMMA NothingNew ==
  ASSUME stream' \subseteq stream,
         \A v \in Schedulers :
           /\ worker'[v].batch \subseteq worker[v].batch
           /\ timers'[v] \subseteq timers[v]
           /\ worker'[v].pc \notin {"idle", "ack", "failing"}
                => worker[v].pc \notin {"idle", "ack", "failing"} /\ worker'[v].msg = worker[v].msg
  PROVE  Tokens' \subseteq Tokens
  BY DEF Tokens, Lives, Active, MsgOf

\* A scheduler at work moves on with its message.
LEMMA StepTokens ==
  ASSUME TypeOK, AtWork, NEW w \in Schedulers, NEW pc \in Pcs, Step(w, pc),
         worker[w].pc \notin {"idle", "ack", "failing"} \/ pc \in {"idle", "ack", "failing"},
         worker[w].pc # "idle", stream' \subseteq stream, timers' = timers
  PROVE  Tokens' \subseteq Tokens
<1>1. /\ worker'[w].pc = pc /\ worker'[w].msg = worker[w].msg
      /\ worker'[w].batch = worker[w].batch
      /\ \A v \in Schedulers \ {w} : worker'[v] = worker[v]
  BY StepWorker
<1>2. QED
  BY <1>1, NothingNew

\* Steps that create no message.
LEMMA SchedulerTokens ==
  ASSUME IInv, NEW w \in Schedulers,
         \/ Ack(w) \/ GetTaskSnapshot(w) \/ GetDispatchReadiness(w) \/ SendDelivery(w)
         \/ CallFails(w) \/ DispatchFailedFails(w) \/ Crash(w) \/ RedisFails(w)
  PROVE  TokenInv'
<1> USE DEF IInv
<1>1. published' = published /\ dlq' = dlq /\ stream' = stream
  BY DEF Ack, GetTaskSnapshot, GetDispatchReadiness, SendDelivery, CallFails, DispatchFailedFails,
     Crash, RedisFails, redisVars
<1>2. Tokens' \subseteq Tokens
  <2>1. CASE Ack(w) \/ (Return(w) /\ UNCHANGED timers)
    <3>1. /\ worker'[w].pc = "idle" /\ worker'[w].batch = worker[w].batch /\ timers' = timers
          /\ \A v \in Schedulers \ {w} : worker'[v] = worker[v]
      BY <2>1, ReturnWorker DEF Ack
    <3>2. QED
      BY <1>1, <3>1, NothingNew
  <2>2. CASE \E pc \in {"ack", "retry", "readiness", "candidates"} : Step(w, pc) /\ UNCHANGED timers
                /\ worker[w].pc # "idle"
                /\ (worker[w].pc \notin {"ack", "failing"} \/ pc = "ack")
    BY <1>1, <2>2, StepTokens DEF Pcs
  <2>3. CASE Crash(w)
    <3>1. /\ worker'[w] = Resting /\ timers'[w] \subseteq timers[w]
          /\ \A v \in Schedulers \ {w} : worker'[v] = worker[v] /\ timers'[v] = timers[v]
      BY <2>3 DEF Crash, TypeOK
    <3>2. QED
      BY <1>1, <3>1, NothingNew, Shapes
  <2>4. CASE UNCHANGED worker /\ \E m \in timers[w] : timers' = [timers EXCEPT ![w] = @ \ {m}]
    BY <1>1, <2>4, NothingNew DEF TypeOK
  <2>5. CASE SendDelivery(w)
    <3>1. /\ worker'[w].msg = worker[w].msg /\ worker'[w].batch = worker[w].batch
          /\ worker[w].pc = "candidates" /\ timers' = timers
          /\ \A v \in Schedulers \ {w} : worker'[v] = worker[v]
      BY <2>5 DEF SendDelivery, Step, TypeOK, Worker, At
    <3>2. QED
      BY <1>1, <3>1, NothingNew
  <2>6. QED
    BY <2>1, <2>2, <2>3, <2>4, <2>5
    DEF GetTaskSnapshot, GetDispatchReadiness, CallFails, DispatchFailedFails, RedisFails, At
<1>3. QED
  BY <1>1, <1>2, TokensFewer

\* The services and the cooks create no message.
LEMMA ServiceTokens ==
  ASSUME IInv,
         \/ \E o \in Orders : CreateOrder(o) \/ MarkTasksQueued(o)
         \/ \E c \in calls : Serve(c)
         \/ \E t \in Tasks : Claim(t) \/ Complete(t)
  PROVE  TokenInv'
<1> USE DEF IInv
<1>1. published' = published /\ dlq' = dlq /\ stream' = stream /\ timers' = timers
  BY DEF CreateOrder, MarkTasksQueued, Serve, ServeDeliver, ServeMark, ServeDispatchFailed, Claim,
     Complete, redisVars
<1>2. Tokens' \subseteq Tokens
  <2>1. CASE UNCHANGED worker
    BY <1>1, <2>1, NothingNew
  <2>2. ASSUME NEW w \in Schedulers, NEW pc \in {"ack", "retry", "marking"}, Step(w, pc),
               \/ At(w, "delivering") \/ At(w, "marking")
               \/ At(w, "failing") /\ pc = "ack"
        PROVE  Tokens' \subseteq Tokens
    BY <1>1, <2>2, StepTokens DEF Pcs, At
  <2>3. CASE \E c \in calls : Serve(c)
    BY <2>1, <2>2, <2>3 DEF Serve, ServeDeliver, ServeMark, ServeDispatchFailed, Waits
  <2>4. QED
    BY <2>1, <2>3 DEF CreateOrder, MarkTasksQueued, Claim, Complete
<1>3. QED
  BY <1>1, <1>2, TokensFewer

\* POST /orders: the message of a task that had none.
LEMMA PublishTokens == ASSUME IInv, NEW t \in Tasks, PublishTask(t) PROVE TokenInv'
<1> USE DEF IInv
<1> DEFINE m == [task |-> t, attempt |-> 1]
<1>1. Tokens' \subseteq Tokens \union {StreamToken(m)}
  BY TokenPlace DEF PublishTask, Tokens, Lives, Active, MsgOf
<1>2. StreamToken(m).msg.task = t
  BY DEF StreamToken
<1>3. t \notin published /\ published' = published \union {t} /\ dlq' = dlq
  BY DEF PublishTask
<1> HIDE DEF m
<1>4. QED
  BY <1>1, <1>2, <1>3 DEF TokenInv, OneToken, TokensPublished, DeadIsDead

\* Messages move from the stream to a batch.
LEMMA ReadTokens == ASSUME IInv, NEW w \in Schedulers, Read(w) PROVE TokenInv'
<1> USE DEF IInv
<1>1. PICK ms \in SUBSET stream : /\ stream' = stream \ ms
                                  /\ worker' = [worker EXCEPT ![w].batch = ms]
  BY DEF Read
<1>2. /\ worker'[w].batch = ms /\ worker'[w].pc = "idle" /\ worker[w].batch = {}
      /\ \A v \in Schedulers \ {w} : worker'[v] = worker[v]
      /\ timers' = timers /\ published' = published /\ dlq' = dlq
  BY <1>1 DEF Read, At, TypeOK, Worker
<1> DEFINE Origin(y) == IF y.at = "batch" /\ y.by = w THEN StreamToken(y.msg) ELSE y
<1>3. ASSUME NEW y \in Tokens'
      PROVE  /\ Origin(y) \in Tokens /\ Origin(y).msg = y.msg
             /\ y.at = "batch" /\ y.by = w => y.msg \in ms
             /\ ~(y.at = "batch" /\ y.by = w) => Origin(y) = y
             /\ y.at = "stream" => y.msg \notin ms
  <2>1. y \in Token /\ y.msg \in Message
    BY <1>3 DEF Tokens, Token
  <2>2. CASE y.at = "batch" /\ y.by = w
    <3>1. y.msg \in ms
      BY <1>2, <1>3, <2>2 DEF Tokens, Lives
    <3>2. StreamToken(y.msg) \in Tokens /\ StreamToken(y.msg).msg = y.msg
      BY <2>1, <3>1, TokenPlace DEF Tokens, Lives, StreamToken
    <3>3. QED
      BY <2>2, <3>1, <3>2
  <2>3. CASE ~(y.at = "batch" /\ y.by = w)
    <3>1. y \in Tokens /\ (y.at = "stream" => y.msg \notin ms)
      BY <1>1, <1>2, <1>3, <2>3 DEF Tokens, Lives, Active, MsgOf
    <3>2. QED
      BY <2>3, <3>1
  <2>4. QED
    BY <2>2, <2>3
<1>4. ASSUME NEW x \in Tokens', NEW y \in Tokens', x.msg.task = y.msg.task PROVE x = y
  <2>1. Origin(x) = Origin(y)
    BY <1>3, <1>4 DEF TokenInv, OneToken
  <2>2. x \in Token /\ y \in Token /\ x.msg = y.msg
    BY <1>3, <1>4, <2>1 DEF Tokens
  <2>3. CASE x.at = "batch" /\ x.by = w
    <3>1. y.at = "batch" /\ y.by = w
      BY <1>3, <2>1, <2>2, <2>3 DEF StreamToken
    <3>2. QED
      BY <2>2, <2>3, <3>1, TokenPlace
  <2>4. CASE y.at = "batch" /\ y.by = w
    <3>1. x.at = "batch" /\ x.by = w
      BY <1>3, <2>1, <2>2, <2>4 DEF StreamToken
    <3>2. QED
      BY <2>2, <2>4, <3>1, TokenPlace
  <2>5. QED
    BY <1>3, <2>1, <2>3, <2>4
<1>5. \A y \in Tokens' : \E x \in Tokens : x.msg = y.msg
  BY <1>3
<1>6. QED
  BY <1>2, <1>4, <1>5 DEF TokenInv, OneToken, TokensPublished, DeadIsDead

\* A message moves from the batch to the hand.
LEMMA HandleTokens == ASSUME IInv, NEW w \in Schedulers, Handle(w) PROVE TokenInv'
<1> USE DEF IInv
<1>1. PICK m \in worker[w].batch :
        worker' = [worker EXCEPT ![w] = [batch |-> worker[w].batch \ {m}, msg |-> m,
                                         pc |-> "snapshot", station |-> NULL]]
  BY DEF Handle
<1>2. /\ worker'[w].batch = worker[w].batch \ {m} /\ worker'[w].msg = m
      /\ \A v \in Schedulers \ {w} : worker'[v] = worker[v]
      /\ stream' = stream /\ timers' = timers /\ published' = published /\ dlq' = dlq
      /\ m \in Message
  BY <1>1 DEF Handle, TypeOK, Worker, redisVars
<1>3. BatchToken(w, m) \in Tokens
  BY <1>2, TokenPlace DEF Tokens, Lives, BatchToken
<1>4. Tokens' \subseteq (Tokens \ {BatchToken(w, m)}) \union {HandToken(w, m)}
  <2> SUFFICES ASSUME NEW y \in Tokens', y # HandToken(w, m)
               PROVE  y \in Tokens /\ y # BatchToken(w, m)
    OBVIOUS
  <2>1. y \in Token
    BY DEF Tokens
  <2>2. ~(y.at = "hand" /\ y.by = w)
    BY <1>2, <2>1, TokenPlace DEF Tokens, Lives, MsgOf
  <2>3. y \in Tokens
    BY <1>2, <2>1, <2>2 DEF Tokens, Lives, Active, MsgOf
  <2>4. y # BatchToken(w, m)
    BY <1>2 DEF Tokens, Lives, BatchToken
  <2>5. QED
    BY <2>3, <2>4
<1>5. HandToken(w, m).msg.task = BatchToken(w, m).msg.task
  BY DEF HandToken, BatchToken
<1>6. QED
  BY <1>2, <1>3, <1>4, <1>5, TokenReplaced

\* The message in hand is replaced by the retry that sleeps.
LEMMA ScheduleRetryTokens == ASSUME IInv, NEW w \in Schedulers, ScheduleRetry(w) PROVE TokenInv'
<1> USE DEF IInv
<1> DEFINE m == MsgOf(w)
           n == NextAttempt(w)
<1>1. /\ worker'[w].pc = "ack" /\ worker'[w].batch = worker[w].batch
      /\ worker[w].pc = "retry" /\ m \in Message
      /\ \A v \in Schedulers \ {w} : worker'[v] = worker[v]
  BY StepWorker DEF ScheduleRetry, At, Pcs, AtWork, MsgOf
<1>2. /\ timers'[w] = timers[w] \union {n} /\ \A v \in Schedulers \ {w} : timers'[v] = timers[v]
      /\ stream' = stream /\ published' = published /\ dlq' = dlq
  BY DEF ScheduleRetry, TypeOK, redisVars
<1>3. HandToken(w, m) \in Tokens
  BY <1>1, TokenPlace DEF Tokens, Lives, HandToken, Active
<1>4. Tokens' \subseteq (Tokens \ {HandToken(w, m)}) \union {TimerToken(w, n)}
  <2> SUFFICES ASSUME NEW y \in Tokens', y # TimerToken(w, n)
               PROVE  y \in Tokens /\ y # HandToken(w, m)
    OBVIOUS
  <2>1. y \in Token
    BY DEF Tokens
  <2>2. ~(y.at = "hand" /\ y.by = w) /\ ~(y.at = "timer" /\ y.by = w /\ y.msg = n)
    BY <1>1, <2>1, TokenPlace DEF Tokens, Lives, Active
  <2> HIDE DEF n
  <2>3. y \in Tokens
    BY <1>1, <1>2, <2>1, <2>2 DEF Tokens, Lives, Active, MsgOf
  <2>4. y # HandToken(w, m)
    BY <2>2 DEF HandToken
  <2>5. QED
    BY <2>3, <2>4
<1>5. TimerToken(w, n).msg.task = HandToken(w, m).msg.task
  BY DEF HandToken, TimerToken, NextAttempt, TaskOf, MsgOf
<1>6. QED
  BY <1>2, <1>3, <1>4, <1>5, TokenReplaced

\* The retry wakes up and adds its message to the stream.
LEMMA FireRetryTokens == ASSUME IInv, NEW w \in Schedulers, FireRetry(w) PROVE TokenInv'
<1> USE DEF IInv
<1>1. PICK m \in timers[w] : /\ timers' = [timers EXCEPT ![w] = @ \ {m}]
                             /\ stream' = stream \union {m}
  BY DEF FireRetry
<1>2. /\ timers'[w] = timers[w] \ {m} /\ \A v \in Schedulers \ {w} : timers'[v] = timers[v]
      /\ worker' = worker /\ published' = published /\ dlq' = dlq /\ m \in Message
  BY <1>1 DEF FireRetry, TypeOK
<1>3. TimerToken(w, m) \in Tokens
  BY <1>2, TokenPlace DEF Tokens, Lives, TimerToken
<1>4. Tokens' \subseteq (Tokens \ {TimerToken(w, m)}) \union {StreamToken(m)}
  <2> SUFFICES ASSUME NEW y \in Tokens', y # StreamToken(m)
               PROVE  y \in Tokens /\ y # TimerToken(w, m)
    OBVIOUS
  <2>1. y \in Token
    BY DEF Tokens
  <2>2. ~(y.at = "stream" /\ y.msg = m)
    BY <2>1, TokenPlace DEF Tokens, Lives
  <2>3. y \in Tokens
    BY <1>1, <1>2, <2>1, <2>2 DEF Tokens, Lives, Active, MsgOf
  <2>4. y # TimerToken(w, m)
    BY <1>2 DEF Tokens, Lives, TimerToken
  <2>5. QED
    BY <2>3, <2>4
<1>5. StreamToken(m).msg.task = TimerToken(w, m).msg.task
  BY DEF StreamToken, TimerToken
<1>6. QED
  BY <1>2, <1>3, <1>4, <1>5, TokenReplaced

\* The message in hand becomes a dead letter, and nothing else carries its task.
LEMMA MoveToDLQTokens == ASSUME IInv, NEW w \in Schedulers, MoveToDLQ(w) PROVE TokenInv'
<1> USE DEF IInv
<1> DEFINE m == MsgOf(w)
<1>1. /\ worker'[w].pc = "failing" /\ worker'[w].batch = worker[w].batch
      /\ worker[w].pc = "retry" /\ m \in Message
      /\ \A v \in Schedulers \ {w} : worker'[v] = worker[v]
  BY StepWorker DEF MoveToDLQ, At, Pcs, AtWork, MsgOf
<1>2. stream' = stream /\ timers' = timers /\ published' = published /\ dlq' = dlq \union {m}
  BY DEF MoveToDLQ
<1>3. HandToken(w, m) \in Tokens /\ HandToken(w, m).msg = m
  BY <1>1, TokenPlace DEF Tokens, Lives, HandToken, Active
<1>4. Tokens' \subseteq Tokens
  BY <1>1, <1>2, NothingNew
<1>5. HandToken(w, m) \notin Tokens'
  BY <1>1 DEF Tokens, Lives, HandToken, Active
<1> HIDE DEF m
<1>6. QED
  BY <1>2, <1>3, <1>4, <1>5 DEF TokenInv, OneToken, TokensPublished, DeadIsDead

\* Every step keeps the tokens in order.
LEMMA NextTokens == ASSUME IInv, Next PROVE TokenInv'
  BY ServiceTokens, PublishTokens, SchedulerTokens, ReadTokens, HandleTokens, ScheduleRetryTokens,
     FireRetryTokens, MoveToDLQTokens
  DEF Next, Produce, Run

-----------------------------------------------------------------------------
(* Theorems *)

\* IInv is inductive.
THEOREM Invariance == Spec => []IInv
<1>1. Init => IInv
  <2> SUFFICES ASSUME Init PROVE IInv
    OBVIOUS
  <2> USE DEF Init, Lifecycle!LifecycleInit
  <2>1. TypeOK
    BY Shapes, BoundsType DEF TypeOK
  <2>2. AtWork
    BY Shapes DEF AtWork
  <2>3. Tokens = {}
    BY Shapes DEF Tokens, Lives, Active
  <2>4. TokenInv
    BY <2>3 DEF TokenInv, OneToken, TokensPublished, DeadIsDead
  <2>5. ServiceInv
    BY Shapes, OrderOfType DEF ServiceInv, CreatedTogether, Justified, DependenciesFirst,
       DisplayedIsDelivered, FailedHasLetter
  <2>6. QED
    BY <2>1, <2>2, <2>4, <2>5 DEF IInv
<1>2. IInv /\ [Next]_vars => IInv'
  <2> SUFFICES ASSUME IInv, [Next]_vars PROVE IInv'
    OBVIOUS
  <2>1. CASE Next
    BY <2>1, NextOK, NextService, NextTokens DEF IInv, StepOK
  <2>2. CASE UNCHANGED vars
    BY <2>2 DEF vars, IInv, TypeOK, AtWork, MsgOf, TaskOf, TokenInv, OneToken, TokensPublished,
       DeadIsDead, Tokens, Lives, Active, ServiceInv, CreatedTogether, Justified, Moved,
       DependenciesDone, DependenciesFirst, DisplayedIsDelivered, FailedHasLetter
  <2>3. QED
    BY <2>1, <2>2
<1>3. QED
  BY <1>1, <1>2, PTL DEF Spec

\* The state keeps its shape; in particular no message goes beyond
\* MAX_DISPATCH_ATTEMPTS, whatever fails.
THEOREM TypeCorrect == Spec => []TypeOK
<1>1. IInv => TypeOK
  BY DEF IInv
<1>2. QED
  BY <1>1, Invariance, PTL

\* A carrier is the message of a token, and where it is tells which.
LEMMA CarrierIsToken ==
  ASSUME TypeOK, AtWork
  PROVE  /\ \A m \in stream : StreamToken(m) \in Tokens
         /\ \A w \in Schedulers : \A m \in Held(w) :
              \E x \in Tokens : x.msg = m /\ x.by = w /\ x.at # "stream"
<1>1. \A m \in stream : StreamToken(m) \in Tokens
  BY TokenPlace DEF TypeOK, Tokens, Lives, StreamToken
<1>2. ASSUME NEW w \in Schedulers, NEW m \in Held(w)
      PROVE  \E x \in Tokens : x.msg = m /\ x.by = w /\ x.at # "stream"
  <2>1. worker[w] \in Worker /\ timers[w] \subseteq Message
    BY DEF TypeOK
  <2>2. CASE m \in worker[w].batch
    <3>1. BatchToken(w, m) \in Tokens /\ BatchToken(w, m).msg = m /\ BatchToken(w, m).by = w
          /\ BatchToken(w, m).at = "batch"
      BY <2>1, <2>2, TokenPlace DEF Worker, Tokens, Lives, BatchToken
    <3>2. QED
      BY <3>1
  <2>3. CASE Active(w) /\ m = MsgOf(w)
    <3>1. HandToken(w, m) \in Tokens /\ HandToken(w, m).msg = m /\ HandToken(w, m).by = w
          /\ HandToken(w, m).at = "hand"
      BY <2>3, TokenPlace DEF AtWork, Tokens, Lives, HandToken, Active
    <3>2. QED
      BY <3>1
  <2>4. CASE m \in timers[w]
    <3>1. TimerToken(w, m) \in Tokens /\ TimerToken(w, m).msg = m /\ TimerToken(w, m).by = w
          /\ TimerToken(w, m).at = "timer"
      BY <2>1, <2>4, TokenPlace DEF Tokens, Lives, TimerToken
    <3>2. QED
      BY <3>1
  <2>5. QED
    BY <1>2, <2>2, <2>3, <2>4 DEF Held, Active
<1>3. QED
  BY <1>1, <1>2

\* No task is in the hands of two schedulers, or of a scheduler and of a retry
\* or stream entry: for any number of schedulers, retries and faults.
THEOREM OneCarrierAlways == Spec => []OneCarrier
<1>1. IInv => OneCarrier
  <2> SUFFICES ASSUME IInv, NEW t \in Tasks
               PROVE  /\ Cardinality(Carriers(t)) <= 1
                      /\ \A w \in Schedulers : \A m \in Held(w) : m.task = t =>
                           /\ m \notin stream
                           /\ \A v \in Schedulers \ {w} : m \notin Held(v)
    BY DEF OneCarrier
  <2> USE DEF IInv
  <2>1. \A m \in stream : StreamToken(m).msg = m /\ StreamToken(m).at = "stream"
    BY DEF StreamToken
  <2>2. \A m \in Carriers(t) : m.task = t /\ \E x \in Tokens : x.msg = m
    BY <2>1, CarrierIsToken DEF Carriers
  <2>3. \A m, n \in Carriers(t) : m = n
    BY <2>2 DEF TokenInv, OneToken
  <2>4. Cardinality(Carriers(t)) <= 1
    <3>1. CASE Carriers(t) = {}
      BY <3>1, FS_EmptySet
    <3>2. CASE Carriers(t) # {}
      <4>1. PICK m : m \in Carriers(t)
        BY <3>2
      <4>2. Carriers(t) = {m}
        BY <2>3, <4>1
      <4>3. Cardinality({m}) = 1
        BY FS_Singleton
      <4>4. QED
        BY <4>2, <4>3
    <3>3. QED
      BY <3>1, <3>2
  <2>5. ASSUME NEW w \in Schedulers, NEW m \in Held(w), m.task = t
        PROVE  m \notin stream /\ \A v \in Schedulers \ {w} : m \notin Held(v)
    <3>1. PICK x \in Tokens : x.msg = m /\ x.by = w /\ x.at # "stream"
      BY <2>5, CarrierIsToken
    <3>2. m \notin stream
      BY <2>1, <3>1, CarrierIsToken DEF TokenInv, OneToken
    <3>3. \A v \in Schedulers \ {w} : m \notin Held(v)
      BY <3>1, CarrierIsToken DEF TokenInv, OneToken
    <3>4. QED
      BY <3>2, <3>3
  <2>6. QED
    BY <2>4, <2>5
<1>2. QED
  BY <1>1, Invariance, PTL

\* A task reaches a display only after its dependencies are done, however late
\* the delivery is served.
THEOREM DependenciesComeFirst == Spec => []DependenciesFirst
<1>1. IInv => DependenciesFirst
  BY DEF IInv, ServiceInv
<1>2. QED
  BY <1>1, Invariance, PTL

\* A task shown as displayed, started or done has a row on a display.
THEOREM DisplayedHasRow == Spec => []DisplayedIsDelivered
<1>1. IInv => DisplayedIsDelivered
  BY DEF IInv, ServiceInv
<1>2. QED
  BY <1>1, Invariance, PTL

\* A failed task has a dead letter and is carried by nothing.
THEOREM FailedIsFinal == Spec => []FailedIsDeadLettered
<1>1. IInv => FailedIsDeadLettered
  <2> SUFFICES ASSUME IInv, NEW t \in Tasks, status[t] = "failed"
               PROVE  (\E m \in dlq : m.task = t) /\ ~Carried(t)
    BY DEF FailedIsDeadLettered
  <2> USE DEF IInv
  <2>1. PICK m \in dlq : m.task = t
    BY DEF ServiceInv, FailedHasLetter
  <2>2. \A x \in Tokens : x.msg.task # t
    BY <2>1 DEF TokenInv, DeadIsDead
  <2>3. \A n \in stream : StreamToken(n).msg = n
    BY DEF StreamToken
  <2>4. Carriers(t) = {}
    BY <2>2, <2>3, CarrierIsToken DEF Carriers
  <2>5. QED
    BY <2>1, <2>4 DEF Carried
<1>2. QED
  BY <1>1, Invariance, PTL

-----------------------------------------------------------------------------
(* Without faults nothing is forgotten *)

\* No token is dropped.
LEMMA NothingLost ==
  ASSUME stream \subseteq stream',
         \A v \in Schedulers :
           /\ worker[v].batch \subseteq worker'[v].batch
           /\ timers[v] \subseteq timers'[v]
           /\ worker[v].pc \notin {"idle", "ack", "failing"}
                => worker'[v].pc \notin {"idle", "ack", "failing"} /\ worker'[v].msg = worker[v].msg
  PROVE  Tokens \subseteq Tokens'
  BY DEF Tokens, Lives, Active, MsgOf

\* What stands in for a token after a step: a token or a dead letter of its
\* task, unless the task does not need one any more.
StandsIn(t) ==
  \/ \E y \in Tokens' : y.msg.task = t
  \/ \E m \in dlq' : m.task = t
  \/ status'[t] \notin {"created", "queued"}
AllStandIn == \A x \in Tokens : StandsIn(x.msg.task)

\* A scheduler at work that stops carrying its message leaves something else.
LEMMA StepStandsIn ==
  ASSUME TypeOK, AtWork, NEW w \in Schedulers, NEW pc \in Pcs, Step(w, pc), worker[w].pc # "idle",
         stream \subseteq stream', \A v \in Schedulers : timers[v] \subseteq timers'[v],
         pc \in {"idle", "ack", "failing"} => StandsIn(TaskOf(w)) \/ ~Active(w)
  PROVE  AllStandIn
<1>1. /\ worker'[w].pc = pc /\ worker'[w].msg = worker[w].msg
      /\ worker'[w].batch = worker[w].batch
      /\ \A v \in Schedulers \ {w} : worker'[v] = worker[v]
  BY StepWorker
<1>2. CASE pc \notin {"idle", "ack", "failing"} \/ ~Active(w)
  <2>1. Tokens \subseteq Tokens'
    BY <1>1, <1>2, NothingLost DEF Active
  <2>2. QED
    BY <2>1 DEF AllStandIn, StandsIn
<1>3. CASE StandsIn(TaskOf(w))
  <2> SUFFICES ASSUME NEW x \in Tokens PROVE StandsIn(x.msg.task)
    BY DEF AllStandIn
  <2>1. CASE x.at = "hand" /\ x.by = w
    <3>1. x.msg = worker[w].msg
      BY <2>1 DEF Tokens, Lives, MsgOf
    <3>2. QED
      BY <1>3, <3>1 DEF TaskOf
  <2>2. CASE ~(x.at = "hand" /\ x.by = w)
    <3>1. x \in Tokens'
      BY <1>1, <2>2 DEF Tokens, Lives, Active, MsgOf
    <3>2. QED
      BY <3>1 DEF StandsIn
  <2>3. QED
    BY <2>1, <2>2
<1>4. QED
  BY <1>2, <1>3

\* The stream is read, a message is taken, a retry wakes up.
LEMMA MovedStandsIn ==
  ASSUME IInv, NEW w \in Schedulers, Read(w) \/ Handle(w) \/ FireRetry(w) PROVE AllStandIn
<1> USE DEF IInv
<1> SUFFICES ASSUME NEW x \in Tokens PROVE \E y \in Tokens' : y.msg = x.msg
  BY DEF AllStandIn, StandsIn
<1>1. x \in Token /\ x.msg \in Message
  BY DEF Tokens, Token
<1>2. CASE Read(w)
  <2>1. PICK ms \in SUBSET stream : /\ stream' = stream \ ms
                                    /\ worker' = [worker EXCEPT ![w].batch = ms]
    BY <1>2 DEF Read
  <2>2. /\ worker'[w].batch = ms /\ worker[w].pc = "idle" /\ worker[w].batch = {}
        /\ \A v \in Schedulers \ {w} : worker'[v] = worker[v]
        /\ timers' = timers
    BY <1>2, <2>1 DEF Read, At, TypeOK, Worker
  <2>3. CASE x.at = "stream" /\ x.msg \in ms
    <3>1. BatchToken(w, x.msg) \in Tokens' /\ BatchToken(w, x.msg).msg = x.msg
      BY <1>1, <2>2, <2>3, TokenPlace DEF Tokens, Lives, BatchToken
    <3>2. QED
      BY <3>1
  <2>4. CASE ~(x.at = "stream" /\ x.msg \in ms)
    <3>1. x \in Tokens'
      BY <2>1, <2>2, <2>4 DEF Tokens, Lives, Active, MsgOf
    <3>2. QED
      BY <3>1
  <2>5. QED
    BY <2>3, <2>4
<1>3. CASE Handle(w)
  <2>1. PICK m \in worker[w].batch :
          worker' = [worker EXCEPT ![w] = [batch |-> worker[w].batch \ {m}, msg |-> m,
                                           pc |-> "snapshot", station |-> NULL]]
    BY <1>3 DEF Handle
  <2>2. /\ worker'[w].batch = worker[w].batch \ {m} /\ worker'[w].msg = m
        /\ worker'[w].pc = "snapshot" /\ worker[w].pc = "idle"
        /\ \A v \in Schedulers \ {w} : worker'[v] = worker[v]
        /\ stream' = stream /\ timers' = timers
    BY <1>3, <2>1 DEF Handle, At, TypeOK, Worker, redisVars
  <2>3. CASE x.at = "batch" /\ x.by = w /\ x.msg = m
    <3>1. HandToken(w, x.msg) \in Tokens' /\ HandToken(w, x.msg).msg = x.msg
      BY <1>1, <2>2, <2>3, TokenPlace DEF Tokens, Lives, HandToken, Active, MsgOf
    <3>2. QED
      BY <3>1
  <2>4. CASE ~(x.at = "batch" /\ x.by = w /\ x.msg = m)
    <3>1. x \in Tokens'
      BY <2>2, <2>4 DEF Tokens, Lives, Active, MsgOf
    <3>2. QED
      BY <3>1
  <2>5. QED
    BY <2>3, <2>4
<1>4. CASE FireRetry(w)
  <2>1. PICK m \in timers[w] : /\ timers' = [timers EXCEPT ![w] = @ \ {m}]
                               /\ stream' = stream \union {m}
    BY <1>4 DEF FireRetry
  <2>2. /\ timers'[w] = timers[w] \ {m} /\ \A v \in Schedulers \ {w} : timers'[v] = timers[v]
        /\ worker' = worker
    BY <1>4, <2>1 DEF FireRetry, TypeOK
  <2>3. CASE x.at = "timer" /\ x.by = w /\ x.msg = m
    <3>1. StreamToken(x.msg) \in Tokens' /\ StreamToken(x.msg).msg = x.msg
      BY <1>1, <2>1, <2>3, TokenPlace DEF Tokens, Lives, StreamToken
    <3>2. QED
      BY <3>1
  <2>4. CASE ~(x.at = "timer" /\ x.by = w /\ x.msg = m)
    <3>1. x \in Tokens'
      BY <2>1, <2>2, <2>4 DEF Tokens, Lives, Active, MsgOf
    <3>2. QED
      BY <3>1
  <2>5. QED
    BY <2>3, <2>4
<1>5. QED
  BY <1>2, <1>3, <1>4

\* The other steps of a scheduler that does not fail.
LEMMA RunStandsIn ==
  ASSUME IInv, NEW w \in Schedulers,
         \/ GetTaskSnapshot(w) \/ GetDispatchReadiness(w) \/ SendDelivery(w) \/ CallFails(w)
         \/ DispatchFailedFails(w) \/ ScheduleRetry(w) \/ MoveToDLQ(w) \/ Ack(w)
  PROVE  AllStandIn
<1> USE DEF IInv
<1>1. CASE Ack(w)
  <2>1. /\ worker'[w].pc = "idle" /\ worker'[w].batch = worker[w].batch /\ worker[w].pc = "ack"
        /\ \A v \in Schedulers \ {w} : worker'[v] = worker[v]
        /\ stream' = stream /\ timers' = timers
    BY <1>1, ReturnWorker DEF Ack, At
  <2>2. Tokens \subseteq Tokens'
    BY <2>1, NothingLost
  <2>3. QED
    BY <2>2 DEF AllStandIn, StandsIn
<1>2. CASE SendDelivery(w)
  <2>1. /\ worker'[w].msg = worker[w].msg /\ worker'[w].batch = worker[w].batch
        /\ worker'[w].pc \in {"retry", "delivering"} /\ timers' = timers /\ stream' = stream
        /\ \A v \in Schedulers \ {w} : worker'[v] = worker[v]
    BY <1>2 DEF SendDelivery, Step, TypeOK, Worker, redisVars
  <2>2. Tokens \subseteq Tokens'
    BY <2>1, NothingLost
  <2>3. QED
    BY <2>2 DEF AllStandIn, StandsIn
<1>3. CASE GetTaskSnapshot(w) \/ GetDispatchReadiness(w) \/ CallFails(w) \/ DispatchFailedFails(w)
  <2>1. worker[w].pc # "idle" /\ stream' = stream /\ timers' = timers /\ status' = status
    BY <1>3 DEF GetTaskSnapshot, GetDispatchReadiness, CallFails, DispatchFailedFails, At,
       fulfillmentVars, redisVars
  <2>2. \/ \E pc \in {"readiness", "candidates", "retry"} : Step(w, pc)
        \/ Step(w, "ack") /\ (status[TaskOf(w)] \notin {"created", "queued"} \/ worker[w].pc = "failing")
    BY <1>3 DEF GetTaskSnapshot, GetDispatchReadiness, CallFails, DispatchFailedFails, At, isTerminal
  <2>3. CASE \E pc \in {"readiness", "candidates", "retry"} : Step(w, pc)
    BY <2>1, <2>3, StepStandsIn DEF Pcs
  <2>4. CASE Step(w, "ack") /\ (status[TaskOf(w)] \notin {"created", "queued"} \/ worker[w].pc = "failing")
    <3>1. StandsIn(TaskOf(w)) \/ ~Active(w)
      BY <2>1, <2>4 DEF StandsIn, Active
    <3>2. QED
      BY <2>1, <2>4, <3>1, StepStandsIn DEF Pcs
  <2>5. QED
    BY <2>2, <2>3, <2>4
<1>4. CASE ScheduleRetry(w)
  <2>1. /\ worker[w].pc = "retry" /\ Step(w, "ack") /\ stream' = stream
        /\ timers' = [timers EXCEPT ![w] = @ \union {NextAttempt(w)}]
    BY <1>4 DEF ScheduleRetry, At, redisVars
  <2>2. NextAttempt(w) \in Message /\ NextAttempt(w).task = TaskOf(w)
    <3>1. MsgOf(w) \in Message
      BY <2>1 DEF AtWork
    <3>2. QED
      BY <1>4, <3>1, BoundsType
      DEF ScheduleRetry, NextAttempt, Exhausted, Message, TaskOf, MsgOf
  <2>3. TimerToken(w, NextAttempt(w)) \in Tokens'
    BY <2>1, <2>2, TokenPlace DEF Tokens, Lives, TimerToken, TypeOK
  <2>4. StandsIn(TaskOf(w))
    BY <2>2, <2>3 DEF StandsIn, TimerToken
  <2>5. \A v \in Schedulers : timers[v] \subseteq timers'[v]
    BY <2>1 DEF TypeOK
  <2>6. QED
    BY <2>1, <2>4, <2>5, StepStandsIn DEF Pcs
<1>5. CASE MoveToDLQ(w)
  <2>1. /\ worker[w].pc = "retry" /\ Step(w, "failing") /\ stream' = stream /\ timers' = timers
        /\ dlq' = dlq \union {MsgOf(w)}
    BY <1>5 DEF MoveToDLQ, At
  <2>2. StandsIn(TaskOf(w))
    BY <2>1 DEF StandsIn, TaskOf, MsgOf
  <2>3. QED
    BY <2>1, <2>2, StepStandsIn DEF Pcs
<1>6. QED
  BY <1>1, <1>2, <1>3, <1>4, <1>5

\* An answer of a service: the scheduler that marked its task is done with it.
LEMMA ServeStandsIn == ASSUME IInv, NEW c \in calls, Serve(c) PROVE AllStandIn
<1> USE DEF IInv
<1>1. stream' = stream /\ timers' = timers
  BY DEF Serve, ServeDeliver, ServeMark, ServeDispatchFailed, redisVars
<1>2. CASE UNCHANGED worker
  <2>1. Tokens \subseteq Tokens'
    BY <1>1, <1>2, NothingLost
  <2>2. QED
    BY <2>1 DEF AllStandIn, StandsIn
<1>3. ASSUME NEW w \in Schedulers, At(w, "delivering"), NEW pc \in {"retry", "marking"}, Step(w, pc)
      PROVE  AllStandIn
  BY <1>1, <1>3, StepStandsIn DEF At, Pcs
<1>4. ASSUME NEW w \in Schedulers, At(w, "failing"), Step(w, "ack") PROVE AllStandIn
  <2>1. ~Active(w) /\ worker[w].pc # "idle"
    BY <1>4 DEF At, Active
  <2>2. QED
    BY <1>1, <1>4, <2>1, StepStandsIn DEF Pcs
<1>5. ASSUME ServeMark(c), NEW w \in Schedulers, Waits(w, c, "marking"), Step(w, "ack")
      PROVE  AllStandIn
  <2>1. c.msg.task \in Tasks /\ TaskOf(w) = c.msg.task /\ worker[w].pc = "marking"
    BY <1>5, Shapes DEF TypeOK, Waits, At, MsgOf, TaskOf
  <2>2. Moved(c.msg.task)
    BY <1>5 DEF ServeMark, ServiceInv, Justified
  <2>3. status'[c.msg.task] \notin {"created", "queued"}
    BY <1>5, <2>1, <2>2 DEF ServeMark, Lifecycle!Dispatch, fulfillmentVars, TypeOK, Moved
  <2>4. StandsIn(TaskOf(w))
    BY <2>1, <2>3 DEF StandsIn
  <2>5. QED
    BY <1>1, <1>5, <2>1, <2>4, StepStandsIn DEF Pcs
<1>6. QED
  BY <1>2, <1>3, <1>4, <1>5 DEF Serve, ServeDeliver, ServeMark, ServeDispatchFailed, Waits

\* The producer and the cooks take no message away.
LEMMA OthersStandIn ==
  ASSUME IInv, Produce \/ \E t \in Tasks : Claim(t) \/ Complete(t)
  PROVE  AllStandIn
<1>1. stream \subseteq stream' /\ timers' = timers /\ worker' = worker
  BY DEF Produce, CreateOrder, MarkTasksQueued, PublishTask, Claim, Complete, redisVars
<1>2. Tokens \subseteq Tokens'
  BY <1>1, NothingLost
<1>3. QED
  BY <1>2 DEF AllStandIn, StandsIn

\* Only faults are counted, and only POST /orders publishes.
LEMMA NextFrame ==
  ASSUME Next
  PROVE  /\ UNCHANGED faults \/ \E w \in Schedulers : Crash(w) \/ RedisFails(w)
         /\ UNCHANGED published \/ \E t \in Tasks : PublishTask(t)
<1>1. CASE Produce
  BY <1>1 DEF Produce, CreateOrder, MarkTasksQueued, PublishTask
<1>2. ASSUME NEW w \in Schedulers, Run(w)
      PROVE  UNCHANGED <<faults, published>>
  BY <1>2 DEF Run, Read, Handle, GetTaskSnapshot, GetDispatchReadiness, SendDelivery, ScheduleRetry,
     MoveToDLQ, Ack
<1>3. ASSUME NEW w \in Schedulers, FireRetry(w) \/ CallFails(w) \/ DispatchFailedFails(w)
      PROVE  UNCHANGED <<faults, published>>
  BY <1>3 DEF FireRetry, CallFails, DispatchFailedFails
<1>4. ASSUME NEW w \in Schedulers, Crash(w) \/ RedisFails(w)
      PROVE  UNCHANGED published
  BY <1>4 DEF Crash, RedisFails
<1>5. ASSUME NEW c \in calls, Serve(c)
      PROVE  UNCHANGED <<faults, published>>
  BY <1>5 DEF Serve, ServeDeliver, ServeMark, ServeDispatchFailed
<1>6. ASSUME NEW t \in Tasks, Claim(t) \/ Complete(t)
      PROVE  UNCHANGED <<faults, published>>
  BY <1>6 DEF Claim, Complete
<1>7. QED
  BY <1>1, <1>2, <1>3, <1>4, <1>5, <1>6 DEF Next

\* Every step keeps the memory of a task, unless it is a fault.
LEMMA NextRemembers == ASSUME FaultlessInv, Next PROVE NotForgotten'
<1> USE DEF FaultlessInv
<1> SUFFICES ASSUME faults' = 0, NEW t \in published', status'[t] \in {"created", "queued"}
             PROVE  (\E y \in Tokens' : y.msg.task = t) \/ (\E m \in dlq' : m.task = t)
  BY DEF NotForgotten, Remembered
<1>1. /\ \A w \in Schedulers : ~Crash(w) /\ ~RedisFails(w)
      /\ faults = 0
  <2>1. \A w \in Schedulers : ~Crash(w) /\ ~RedisFails(w)
    BY DEF Crash, RedisFails, IInv, TypeOK
  <2>2. QED
    BY <2>1, NextFrame
<1>2. AllStandIn
  BY <1>1, MovedStandsIn, RunStandsIn, ServeStandsIn, OthersStandIn DEF Next, Run
<1>3. StepOK
  BY NextOK
<1>4. CASE t \in published
  <2>1. status[t] \in {"created", "queued"}
    <3>1. t \in Tasks /\ status[t] # "absent"
      BY <1>4 DEF IInv, TypeOK, ServiceInv, CreatedTogether
    <3>2. QED
      BY <1>3, <3>1 DEF StepOK, Forward, StatusForward, Moved
  <2>2. Remembered(t)
    BY <1>1, <1>4, <2>1 DEF NotForgotten
  <2>3. CASE \E m \in dlq : m.task = t
    BY <1>3, <2>3 DEF StepOK, Forward
  <2>4. CASE \E x \in Tokens : x.msg.task = t
    BY <1>2, <2>4 DEF AllStandIn, StandsIn
  <2>5. QED
    BY <2>2, <2>3, <2>4 DEF Remembered
<1>5. CASE t \notin published
  <2>1. t \in Tasks /\ PublishTask(t)
    <3>1. PICK u \in Tasks : PublishTask(u)
      BY <1>5, NextFrame
    <3>2. u = t
      BY <1>5, <3>1 DEF PublishTask
    <3>3. QED
      BY <3>1, <3>2
  <2> DEFINE m == [task |-> t, attempt |-> 1]
  <2>2. m \in Message /\ m \in stream' /\ m.task = t
    BY <2>1, BoundsType DEF PublishTask, Message
  <2> HIDE DEF m
  <2>3. StreamToken(m) \in Tokens' /\ StreamToken(m).msg = m
    BY <2>2, TokenPlace DEF Tokens, Lives, StreamToken
  <2>4. QED
    BY <2>2, <2>3
<1>6. QED
  BY <1>4, <1>5

\* A task leaves "created" with all its siblings, and they have been published.
LEMMA NextMovedPublished == ASSUME FaultlessInv, Next PROVE MovedIsPublished'
<1> USE DEF FaultlessInv
<1>1. published \subseteq published'
  BY NextOK DEF StepOK, Forward
<1>2. ASSUME NEW o \in Orders, MarkTasksQueued(o) PROVE MovedIsPublished'
  BY <1>1, <1>2 DEF MarkTasksQueued, Lifecycle!Queue, Lifecycle!TasksOf, MovedIsPublished, Moved,
     IInv, TypeOK
<1>3. ASSUME NEW o \in Orders, CreateOrder(o) PROVE MovedIsPublished'
  BY <1>1, <1>3 DEF CreateOrder, Lifecycle!Create, MovedIsPublished, Moved, IInv, TypeOK
<1>4. ASSUME NEW t \in Tasks, UNCHANGED published,
             \/ Lifecycle!Dispatch(t) \/ Lifecycle!GiveUp(t)
             \/ Lifecycle!Start(t) \/ Lifecycle!Finish(t)
      PROVE  MovedIsPublished'
  BY <1>1, <1>4 DEF Lifecycle!Dispatch, Lifecycle!GiveUp, Lifecycle!Start, Lifecycle!Finish,
     MovedIsPublished, Moved, IInv, TypeOK
<1>5. CASE UNCHANGED status
  BY <1>1, <1>5 DEF MovedIsPublished, Moved
<1>6. CASE \E c \in calls : Serve(c)
  <2>1. \A c \in calls : c.msg.task \in Tasks
    BY Shapes DEF IInv, TypeOK
  <2>2. QED
    BY <1>4, <1>5, <1>6, <2>1
    DEF Serve, ServeDeliver, ServeMark, ServeDispatchFailed, fulfillmentVars
<1>7. CASE \E t \in Tasks : Claim(t) \/ Complete(t)
  BY <1>4, <1>7 DEF Claim, Complete
<1>8. CASE \E w \in Schedulers :
             \/ Run(w) \/ FireRetry(w) \/ CallFails(w) \/ DispatchFailedFails(w) \/ Crash(w)
             \/ RedisFails(w)
  BY <1>5, <1>8 DEF Run, Read, Handle, GetTaskSnapshot, GetDispatchReadiness, SendDelivery,
     ScheduleRetry, MoveToDLQ, Ack, FireRetry, CallFails, DispatchFailedFails, Crash, RedisFails,
     fulfillmentVars
<1>9. CASE \E t \in Tasks : PublishTask(t)
  BY <1>5, <1>9 DEF PublishTask, fulfillmentVars
<1>10. QED
  BY <1>2, <1>3, <1>6, <1>7, <1>8, <1>9 DEF Next, Produce

\* As long as no scheduler has crashed and no Redis command has failed, a queued
\* task has a message, a retry or a dead letter.
THEOREM QueuedIsNotForgotten == Spec => [](faults = 0 => QueuedIsCarried)
<1>1. Init => MovedIsPublished /\ NotForgotten
  BY DEF Init, Lifecycle!LifecycleInit, MovedIsPublished, Moved, NotForgotten
<1>2. FaultlessInv /\ [Next]_vars => (MovedIsPublished /\ NotForgotten)'
  <2> SUFFICES ASSUME FaultlessInv, [Next]_vars PROVE (MovedIsPublished /\ NotForgotten)'
    OBVIOUS
  <2>1. CASE Next
    BY <2>1, NextRemembers, NextMovedPublished
  <2>2. CASE UNCHANGED vars
    BY <2>2 DEF vars, FaultlessInv, MovedIsPublished, Moved, NotForgotten, Remembered, Tokens,
       Lives, Active, MsgOf
  <2>3. QED
    BY <2>1, <2>2
<1>3. FaultlessInv => (faults = 0 => QueuedIsCarried)
  <2> SUFFICES ASSUME FaultlessInv, faults = 0, NEW t \in Tasks, status[t] = "queued"
               PROVE  Carried(t) \/ \E m \in dlq : m.task = t
    BY DEF QueuedIsCarried
  <2> USE DEF FaultlessInv
  <2>1. Remembered(t)
    BY DEF MovedIsPublished, Moved, NotForgotten
  <2>2. ASSUME NEW x \in Tokens, x.msg.task = t PROVE Carried(t)
    BY <2>2 DEF Tokens, Lives, Active, MsgOf, Carried, Carriers, Held
  <2>3. QED
    BY <2>1, <2>2 DEF Remembered
<1>4. QED
  BY <1>1, <1>2, <1>3, Invariance, PTL DEF Spec, FaultlessInv
=============================================================================
