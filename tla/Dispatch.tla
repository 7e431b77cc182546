------------------------------ MODULE Dispatch ------------------------------
(***************************************************************************)
(* kitchen-scheduler-worker: the Redis stream consumers that bring queued  *)
(* tasks to a kitchen display, composed with the two services they call.   *)
(*                                                                         *)
(* fulfillment-service is represented by TaskLifecycle, the specification  *)
(* Fulfillment is proved to implement; the kitchen display by the effect   *)
(* its deliver, claim and complete requests have when they succeed.        *)
(*                                                                         *)
(* A call with an effect (deliver, mark-displayed, dispatch-failed) is     *)
(* sent, then served.  The scheduler may give up on it in between (HTTP    *)
(* timeout), and a call it gave up on is served late or never.             *)
(***************************************************************************)
EXTENDS Naturals, FiniteSets

CONSTANTS
  Orders, Tasks,
  OrderOf,       \* [Tasks -> Orders]
  DependsOn,     \* [Tasks -> SUBSET Tasks]: task_dependencies
  Stations,      \* station ids, a set of numbers: SelectStation compares them
  Suitable,      \* [Tasks -> SUBSET Stations]: stations of the task's kitchen and type
  BacklogLimit,  \* [Stations -> Nat]: stations.visible_backlog_limit
  Schedulers,    \* worker processes of the consumer group
  MaxAttempts,   \* MAX_DISPATCH_ATTEMPTS
  ReadCount,     \* XREAD_COUNT
  MaxFaults,     \* bound on crashes and failing Redis commands
  NULL

ASSUME OrderOfType == OrderOf \in [Tasks -> Orders]
ASSUME TasksFinite == IsFiniteSet(Tasks)
ASSUME DependsOnType == DependsOn \in [Tasks -> SUBSET Tasks]
ASSUME StationsType == Stations \subseteq Nat /\ NULL \notin Stations
ASSUME DispatchSuitableType == Suitable \in [Tasks -> SUBSET Stations]
ASSUME DispatchLimitType == BacklogLimit \in [Stations -> Nat]
ASSUME BoundsType == MaxAttempts \in Nat \ {0} /\ ReadCount \in Nat \ {0} /\ MaxFaults \in Nat

VARIABLES
  status, order,  \* fulfillment-service: kitchen_tasks.status, orders.status
  assigned,       \* fulfillment-service: kitchen_tasks.station_id
  kds,            \* kitchen-service: rows of kds_station_tasks
  published,      \* tasks POST /orders has added to the stream
  stream,         \* entries not yet read by the group
  pending,        \* entries read and not acknowledged
  dlq,            \* entries of the dead letter stream
  worker,         \* schedulers: the batch read and the message being handled
  timers,         \* schedulers: goroutines sleeping before they add a retry
  calls,          \* calls sent and not served
  faults          \* crashes and Redis failures so far

fulfillmentVars == <<status, order, assigned>>
redisVars == <<stream, pending, dlq>>
vars == <<status, order, assigned, kds, published, stream, pending, dlq, worker, timers,
          calls, faults>>

Lifecycle == INSTANCE TaskLifecycle

-----------------------------------------------------------------------------
(* Messages, workers, calls *)

Message == [task : Tasks, attempt : 1..MaxAttempts]
NoMessage == [task |-> NULL, attempt |-> 0]
Pcs == {"idle", "snapshot", "readiness", "candidates", "delivering", "marking",
        "retry", "failing", "ack"}

Worker == [batch : SUBSET Message, msg : Message \union {NoMessage}, pc : Pcs,
           station : Stations \union {NULL}]
Resting == [batch |-> {}, msg |-> NoMessage, pc |-> "idle", station |-> NULL]

\* Calls are told apart by the attempt that sends them.
Call == [op : {"deliver", "mark"}, msg : Message, station : Stations]
        \union [op : {"failed"}, msg : Message]

Row == [status : {"absent", "displayed", "claimed", "completed"},
        station_id : Stations \union {NULL}]
AbsentRow == [status |-> "absent", station_id |-> NULL]

Displayed(s) == {t \in Tasks : kds[t].status = "displayed" /\ kds[t].station_id = s}
Claimed(s) == {t \in Tasks : kds[t].status = "claimed" /\ kds[t].station_id = s}

At(w, pc) == worker[w].pc = pc
MsgOf(w) == worker[w].msg
TaskOf(w) == worker[w].msg.task
Step(w, pc) == worker' = [worker EXCEPT ![w].pc = pc]

-----------------------------------------------------------------------------
(* The producer: POST /orders publishes a task's message, later queues the tasks *)

CreateOrder(o) ==
  /\ Lifecycle!Create(o)
  /\ UNCHANGED <<assigned, kds, published, redisVars, worker, timers, calls, faults>>

PublishTask(t) ==
  /\ status[t] = "created" /\ t \notin published
  /\ published' = published \union {t}
  /\ stream' = stream \union {[task |-> t, attempt |-> 1]}
  /\ UNCHANGED <<fulfillmentVars, kds, pending, dlq, worker, timers, calls, faults>>

MarkTasksQueued(o) ==
  /\ Lifecycle!TasksOf(o) \subseteq published
  /\ Lifecycle!Queue(o)
  /\ UNCHANGED <<assigned, kds, published, redisVars, worker, timers, calls, faults>>

-----------------------------------------------------------------------------
(* The consumer loop (cmd/worker run, Consumer.Read) *)

\* Faulty: XREAD, which leaves the entries to every reader.
ReadWithoutGroup(w) ==
  /\ At(w, "idle") /\ worker[w].batch = {}
  /\ \E ms \in SUBSET stream :
       /\ ms # {} /\ Cardinality(ms) <= ReadCount
       /\ worker' = [worker EXCEPT ![w].batch = ms]
  /\ UNCHANGED <<fulfillmentVars, kds, published, redisVars, timers, calls, faults>>

\* XREADGROUP with ">": entries never read by the group, and only those.
Read(w) ==
  /\ At(w, "idle") /\ worker[w].batch = {}
  /\ \E ms \in SUBSET stream :
       /\ ms # {} /\ Cardinality(ms) <= ReadCount
       /\ stream' = stream \ ms
       /\ pending' = pending \union ms
       /\ worker' = [worker EXCEPT ![w].batch = ms]
  /\ UNCHANGED <<fulfillmentVars, kds, published, dlq, timers, calls, faults>>

\* The loop hands the next message of the batch to Dispatcher.Handle.
Handle(w) ==
  /\ At(w, "idle")
  /\ \E m \in worker[w].batch :
       worker' = [worker EXCEPT ![w] = [batch |-> worker[w].batch \ {m}, msg |-> m,
                                        pc |-> "snapshot", station |-> NULL]]
  /\ UNCHANGED <<fulfillmentVars, kds, published, redisVars, timers, calls, faults>>

\* Handle returns to the loop.
Return(w) == worker' = [worker EXCEPT ![w] = [Resting EXCEPT !.batch = worker[w].batch]]

Ack(w) ==
  /\ At(w, "ack")
  /\ pending' = pending \ {MsgOf(w)}
  /\ Return(w)
  /\ UNCHANGED <<fulfillmentVars, kds, published, stream, dlq, timers, calls, faults>>

-----------------------------------------------------------------------------
(* Dispatcher.Handle *)

isTerminal(st) == st \in {"displayed", "in_progress", "done", "cancelled", "failed"}
isDispatchable(st) == st \in {"queued", "retrying"}

GetTaskSnapshot(w) ==
  /\ At(w, "snapshot")
  /\ Step(w, IF isTerminal(status[TaskOf(w)]) THEN "ack"
             ELSE IF isDispatchable(status[TaskOf(w)]) THEN "readiness" ELSE "retry")
  /\ UNCHANGED <<fulfillmentVars, kds, published, redisVars, timers, calls, faults>>

\* Faulty: the dependencies are not asked for.
ReadyByStatus(t) == isDispatchable(status[t])

\* dispatch_readiness of fulfillment-service, with unfinished_dependencies.
Ready(t) == isDispatchable(status[t]) /\ \A d \in DependsOn[t] : status[d] = "done"

GetDispatchReadiness(w) ==
  /\ At(w, "readiness")
  /\ Step(w, IF Ready(TaskOf(w)) THEN "candidates" ELSE "retry")
  /\ UNCHANGED <<fulfillmentVars, kds, published, redisVars, timers, calls, faults>>

\* dispatch_candidates of kitchen-service.
RoomAt(s) == Cardinality(Displayed(s)) < BacklogLimit[s]
Candidates(t) == {s \in Suitable[t] : RoomAt(s)}

\* The order SelectStation sorts by: visible backlog, busy slots, id.
Before(s, u) ==
  LET backlog(x) == Cardinality(Displayed(x))
      busy(x)    == Cardinality(Claimed(x)) IN
  \/ backlog(s) < backlog(u)
  \/ backlog(s) = backlog(u) /\ busy(s) < busy(u)
  \/ backlog(s) = backlog(u) /\ busy(s) = busy(u) /\ s < u

SelectStation(candidates) == CHOOSE s \in candidates : \A u \in candidates \ {s} : Before(s, u)

\* GetDispatchCandidates, SelectStation and the sending of DeliverTaskToKDS.
SendDelivery(w) ==
  /\ At(w, "candidates")
  /\ LET candidates == Candidates(TaskOf(w))
         s          == SelectStation(candidates) IN
     \/ /\ candidates = {}
        /\ Step(w, "retry")
        /\ UNCHANGED calls
     \/ /\ candidates # {}
        /\ worker' = [worker EXCEPT ![w].pc = "delivering", ![w].station = s]
        /\ calls' = calls \union {[op |-> "deliver", msg |-> MsgOf(w), station |-> s]}
  /\ UNCHANGED <<fulfillmentVars, kds, published, redisVars, timers, faults>>

\* The answer reaches the scheduler that still waits for it.
Waits(w, c, pc) == At(w, pc) /\ MsgOf(w) = c.msg

\* Faulty: a full station refuses nothing.
NeverRefused(c) == FALSE

\* The 409 of deliver_task: a new task and no room for it.
Refused(c) == kds[c.msg.task].status = "absent" /\ ~RoomAt(c.station)

\* deliver_task: the row of a known idempotency key, a new row, or a 409.  The
\* client takes a 409 for success without a KDS task id, and mark-displayed
\* refuses the empty id (422), which leads to a retry.
ServeDeliver(c) ==
  /\ c \in calls /\ c.op = "deliver"
  /\ LET t    == c.msg.task
         mark == [op |-> "mark", msg |-> c.msg, station |-> c.station] IN
     /\ kds' = IF kds[t].status = "absent" /\ RoomAt(c.station)
               THEN [kds EXCEPT ![t] = [status |-> "displayed", station_id |-> c.station]]
               ELSE kds
     /\ \/ /\ \A w \in Schedulers : ~Waits(w, c, "delivering")
           /\ calls' = calls \ {c}
           /\ UNCHANGED worker
        \/ \E w \in Schedulers :
             /\ Waits(w, c, "delivering")
             /\ IF Refused(c)
                THEN Step(w, "retry") /\ calls' = calls \ {c}
                ELSE Step(w, "marking") /\ calls' = (calls \ {c}) \union {mark}
  /\ UNCHANGED <<fulfillmentVars, published, redisVars, timers, faults>>

\* mark_displayed: a refusal (409) counts as success for the client, too.
ServeMark(c) ==
  /\ c \in calls /\ c.op = "mark"
  /\ LET t == c.msg.task IN
     \/ /\ Lifecycle!Dispatch(t)
        /\ assigned' = [assigned EXCEPT ![t] = c.station]
     \/ /\ status[t] # "queued"
        /\ UNCHANGED fulfillmentVars
  /\ calls' = calls \ {c}
  /\ \/ (\A w \in Schedulers : ~Waits(w, c, "marking")) /\ UNCHANGED worker
     \/ \E w \in Schedulers : Waits(w, c, "marking") /\ Step(w, "ack")
  /\ UNCHANGED <<kds, published, redisVars, timers, faults>>

\* Faulty: the message is acknowledged instead of retried.
CallFailsSilently(w) ==
  /\ worker[w].pc \in {"snapshot", "readiness", "candidates", "delivering", "marking"}
  /\ Step(w, "ack")
  /\ UNCHANGED <<fulfillmentVars, kds, published, redisVars, timers, calls, faults>>

\* A call failed: an error status, a refused connection or the HTTP timeout.
\* What was sent may still be served.
CallFails(w) ==
  /\ worker[w].pc \in {"snapshot", "readiness", "candidates", "delivering", "marking"}
  /\ Step(w, "retry")
  /\ UNCHANGED <<fulfillmentVars, kds, published, redisVars, timers, calls, faults>>

-----------------------------------------------------------------------------
(* Dispatcher.retryOrDLQ *)

\* Faulty: off by one.
ExhaustedLate(w) == MsgOf(w).attempt > MaxAttempts
Exhausted(w) == MsgOf(w).attempt >= MaxAttempts

\* Faulty: the attempt is not counted.
SameAttempt(w) == MsgOf(w)
\* ValuesWithAttempt(nextAttempt)
NextAttempt(w) == [task |-> TaskOf(w), attempt |-> MsgOf(w).attempt + 1]

\* The retry sleeps in a goroutine while the message is acknowledged.
ScheduleRetry(w) ==
  /\ At(w, "retry") /\ ~Exhausted(w)
  /\ timers' = [timers EXCEPT ![w] = @ \union {NextAttempt(w)}]
  /\ Step(w, "ack")
  /\ UNCHANGED <<fulfillmentVars, kds, published, redisVars, calls, faults>>

FireRetry(w) ==
  /\ \E m \in timers[w] :
       /\ timers' = [timers EXCEPT ![w] = @ \ {m}]
       /\ stream' = stream \union {m}
  /\ UNCHANGED <<fulfillmentVars, kds, published, pending, dlq, worker, calls, faults>>

\* Faulty: dispatch-failed without the dead letter.
FailWithoutDLQ(w) ==
  /\ At(w, "retry") /\ Exhausted(w)
  /\ calls' = calls \union {[op |-> "failed", msg |-> MsgOf(w)]}
  /\ Step(w, "failing")
  /\ UNCHANGED <<fulfillmentVars, kds, published, redisVars, timers, faults>>

MoveToDLQ(w) ==
  /\ At(w, "retry") /\ Exhausted(w)
  /\ dlq' = dlq \union {MsgOf(w)}
  /\ calls' = calls \union {[op |-> "failed", msg |-> MsgOf(w)]}
  /\ Step(w, "failing")
  /\ UNCHANGED <<fulfillmentVars, kds, published, stream, pending, timers, faults>>

\* dispatch_failed; its answer is ignored.
ServeDispatchFailed(c) ==
  /\ c \in calls /\ c.op = "failed"
  /\ \/ Lifecycle!GiveUp(c.msg.task)
     \/ status[c.msg.task] # "queued" /\ UNCHANGED <<status, order>>
  /\ calls' = calls \ {c}
  /\ \/ (\A w \in Schedulers : ~Waits(w, c, "failing")) /\ UNCHANGED worker
     \/ \E w \in Schedulers : Waits(w, c, "failing") /\ Step(w, "ack")
  /\ UNCHANGED <<assigned, kds, published, redisVars, timers, faults>>

DispatchFailedFails(w) ==
  /\ At(w, "failing")
  /\ Step(w, "ack")
  /\ UNCHANGED <<fulfillmentVars, kds, published, redisVars, timers, calls, faults>>

-----------------------------------------------------------------------------
(* The kitchen floor: a claim and a completion that succeed at both services *)

Claim(t) ==
  /\ kds[t].status = "displayed"
  /\ kds[t].station_id = assigned[t]
  /\ Lifecycle!Start(t)
  /\ kds' = [kds EXCEPT ![t].status = "claimed"]
  /\ UNCHANGED <<assigned, published, redisVars, worker, timers, calls, faults>>

Complete(t) ==
  /\ kds[t].status = "claimed"
  /\ Lifecycle!Finish(t)
  /\ kds' = [kds EXCEPT ![t].status = "completed"]
  /\ UNCHANGED <<assigned, published, redisVars, worker, timers, calls, faults>>

-----------------------------------------------------------------------------
(* Faults *)

\* The process dies and is restarted under its WORKER_ID: what it had read
\* stays pending, its sleeping retries are gone.
Crash(w) ==
  /\ faults < MaxFaults
  /\ faults' = faults + 1
  /\ worker' = [worker EXCEPT ![w] = Resting]
  /\ timers' = [timers EXCEPT ![w] = {}]
  /\ UNCHANGED <<fulfillmentVars, kds, published, redisVars, calls>>

\* A Redis command fails.  XACK or the XADD to the dead letter stream: Handle
\* returns the error, which is logged, and the entry stays pending.  The XADD
\* of a retry: the goroutine logs it.  A command that fails has had no effect and
\* one that succeeds was sent once: the re-sends of the Redis client after a lost
\* reply, which may store an entry twice, are not modelled.
RedisFails(w) ==
  /\ faults < MaxFaults
  /\ faults' = faults + 1
  /\ \/ /\ At(w, "ack") \/ (At(w, "retry") /\ Exhausted(w))
        /\ Return(w)
        /\ UNCHANGED timers
     \/ /\ \E m \in timers[w] : timers' = [timers EXCEPT ![w] = @ \ {m}]
        /\ UNCHANGED worker
  /\ UNCHANGED <<fulfillmentVars, kds, published, redisVars, calls>>

-----------------------------------------------------------------------------
Init ==
  /\ Lifecycle!LifecycleInit
  /\ assigned = [t \in Tasks |-> NULL]
  /\ kds = [t \in Tasks |-> AbsentRow]
  /\ published = {} /\ stream = {} /\ pending = {} /\ dlq = {} /\ calls = {}
  /\ worker = [w \in Schedulers |-> Resting]
  /\ timers = [w \in Schedulers |-> {}]
  /\ faults = 0

Produce ==
  \/ \E o \in Orders : CreateOrder(o) \/ MarkTasksQueued(o)
  \/ \E t \in Tasks : PublishTask(t)

\* A step of scheduler w that needs no answer of a service.
Run(w) ==
  \/ Read(w) \/ Handle(w) \/ GetTaskSnapshot(w) \/ GetDispatchReadiness(w) \/ SendDelivery(w)
  \/ ScheduleRetry(w) \/ MoveToDLQ(w) \/ Ack(w)

Serve(c) == ServeDeliver(c) \/ ServeMark(c) \/ ServeDispatchFailed(c)

Next ==
  \/ Produce
  \/ \E w \in Schedulers :
       Run(w) \/ FireRetry(w) \/ CallFails(w) \/ DispatchFailedFails(w) \/ Crash(w) \/ RedisFails(w)
  \/ \E c \in calls : Serve(c)
  \/ \E t \in Tasks : Claim(t) \/ Complete(t)

Spec == Init /\ [][Next]_vars

\* The consumer loop keeps running, the http client has a timeout and a sleeping
\* goroutine wakes up.  Nothing is assumed of the services: they may never answer.
Fairness ==
  \A w \in Schedulers :
    /\ WF_vars(Run(w))
    /\ WF_vars(FireRetry(w))
    /\ WF_vars(CallFails(w) /\ worker[w].pc \in {"delivering", "marking"})
    /\ WF_vars(DispatchFailedFails(w))

FairSpec == Spec /\ Fairness

-----------------------------------------------------------------------------
(* Properties *)

\* State has its shape; no message goes beyond MAX_DISPATCH_ATTEMPTS.
TypeOK ==
  /\ status \in [Tasks -> {"absent", "created", "queued", "displayed", "in_progress", "done",
                           "failed"}]
  /\ order \in [Orders -> {"absent", "created", "cooking", "ready_for_pickup"}]
  /\ assigned \in [Tasks -> Stations \union {NULL}]
  /\ kds \in [Tasks -> Row]
  /\ published \subseteq Tasks
  /\ stream \subseteq Message /\ pending \subseteq Message /\ dlq \subseteq Message
  /\ worker \in [Schedulers -> Worker]
  /\ timers \in [Schedulers -> SUBSET Message]
  /\ calls \subseteq Call
  /\ faults \in 0..MaxFaults

\* Messages scheduler w still has to bring somewhere: being past its retry
\* (pc "ack") or past the dead letter stream, a message is not carried any more.
Held(w) ==
  worker[w].batch
    \union (IF worker[w].pc \in {"idle", "ack", "failing"} THEN {} ELSE {MsgOf(w)})
    \union timers[w]

\* The messages a task depends on to get anywhere.
Carriers(t) == {m \in stream \union UNION {Held(w) : w \in Schedulers} : m.task = t}
Carried(t) == Carriers(t) # {}

\* No task is ever in the hands of two schedulers, or of one scheduler and a
\* retry that waits: the acknowledged message and its successor never live
\* side by side, through crashes and Redis commands that fail without an effect.
OneCarrier ==
  \A t \in Tasks :
    /\ Cardinality(Carriers(t)) <= 1
    /\ \A w \in Schedulers : \A m \in Held(w) : m.task = t =>
         /\ m \notin stream
         /\ \A v \in Schedulers \ {w} : m \notin Held(v)

\* A task reaches a display only after everything it depends on is done, late
\* and repeated deliveries included.
DependenciesFirst ==
  \A t \in Tasks : kds[t].status # "absent" => \A d \in DependsOn[t] : status[d] = "done"

\* A task that fulfillment-service shows as displayed has a row on a display,
\* even when the delivery was answered with a conflict.
DisplayedIsDelivered ==
  \A t \in Tasks : status[t] \in {"displayed", "in_progress", "done"} => kds[t].status # "absent"

\* A task is failed only if its message can be inspected in the dead letter
\* stream, and then nothing carries it any more.
FailedIsDeadLettered ==
  \A t \in Tasks : status[t] = "failed" =>
    (\E m \in dlq : m.task = t) /\ ~Carried(t)

\* A queued task is never forgotten: a message, a retry or the dead letter
\* stream still speaks of it.
QueuedIsCarried ==
  \A t \in Tasks : status[t] = "queued" => Carried(t) \/ \E m \in dlq : m.task = t

\* A message is acknowledged only when its task needs it no more or something
\* else speaks of the task: a later entry, a retry that sleeps, the dead letter
\* stream.
AckedIsSafe ==
  \A t \in Tasks : status[t] = "queued" =>
    \E m \in stream \union pending \union dlq \union UNION {timers[w] : w \in Schedulers} :
      m.task = t

\* The two services agree on where a task is displayed, so that the cook who
\* sees it can start it.
StationAgrees ==
  \A t \in Tasks : status[t] = "displayed" => assigned[t] = kds[t].station_id

\* Dispatching a task comes to an end, whatever the services answer.
DispatchSettles == \A t \in Tasks : Carried(t) ~> ~Carried(t)
=============================================================================
