----------------------- MODULE FulfillmentEventsProofs -----------------------
(***************************************************************************)
(* Proofs about what is told of Fulfillment, for any orders, tasks and     *)
(* requests: by its event log (FulfillmentEvents) and, at the end, by the  *)
(* smoke test that polls it (SmokeDemo).                                   *)
(*                                                                         *)
(* The log says what happened, and all that happened: an event is known    *)
(* (stored, on its way, lost with a failed insert or a dead writer) if and *)
(* only if the database holds what it tells.  An event is therefore new    *)
(* when it is announced, because what it tells has only just become true;  *)
(* this is why none is announced twice.                                    *)
(***************************************************************************)
EXTENDS FulfillmentEvents, SmokeDemo, FulfillmentProofs, FiniteSetTheorems, SequenceTheorems

OrderEvent == [type : OrderEvents, of : Orders]
TaskEvent == [type : TaskEvents \union {"DispatchFailed"}, of : Tasks]
Basic == OrderEvent \union TaskEvent
Report(e) == Event("MongoEventWriteFailed", e)
EventSet == Basic \union {Report(e) : e \in Basic}

OutboxOK == outbox \in [Writers -> Seq(EventSet)]

\* Only a completion counts the tasks of its order.
CountedCompletes == \A r \in Requests : req[r].pc = "counted" => req[r].call.op = "complete"

\* A request in progress and an order to come have nothing to write.
WritersQuiet ==
  /\ \A r \in Requests : req[r].pc # "idle" => outbox[r] = <<>>
  /\ \A o \in Orders : creator[o] = "none" => outbox[o] = <<>>

\* The events of an order are on their way in the hands of its POST /orders only,
\* and not any more when its tasks are published.
OrderEventsOwn ==
  \A o \in Orders, w \in Writers : \A e \in Range(OrderCreatedEvents(o)) :
    e \in Range(outbox[w]) => w = o /\ creator[o] = "publishing"

\* What is on its way has not arrived, and is there once.
Once ==
  /\ \A w \in Writers : \A i \in DOMAIN outbox[w] : outbox[w][i] \notin log \union dropped \union failed
  /\ \A w, v \in Writers : \A i \in DOMAIN outbox[w], j \in DOMAIN outbox[v] :
       outbox[w][i] = outbox[v][j] => w = v /\ i = j

\* What event e tells.
Happened(e) ==
  \/ e.type \in {"OrderCreated", "KitchenTasksCreated"} /\ order[e.of] # "absent"
  \/ e.type = "OrderReadyForPickup" /\ order[e.of] = "ready_for_pickup"
  \/ e.type = "TaskQueued" /\ creator[OrderOf[e.of]] = "finished"
  \/ e.type = "TaskDisplayed" /\ task[e.of].status \in {"displayed", "in_progress", "done"}
  \/ e.type = "TaskStarted" /\ task[e.of].status \in {"in_progress", "done"}
  \/ e.type = "TaskCompleted" /\ task[e.of].status = "done"
  \/ e.type \in {"TaskDispatchFailed", "DispatchFailed"} /\ task[e.of].status = "failed"

\* What is known is what happened, and failed inserts of it are reported.
BasicKnown == \A e \in Basic : e \in Known <=> Happened(e)
FailureKnown == \A e \in EventSet : Report(e) \in Known <=> e \in failed /\ ~IsAudit(e)

LogOK == OutboxOK /\ Once /\ BasicKnown /\ FailureKnown /\ failed \subseteq EventSet
LogInv == LogOK /\ CountedCompletes /\ WritersQuiet /\ OrderEventsOwn

\* The inductive invariant.
EInv == IInv /\ LogInv
-----------------------------------------------------------------------------
(* Events and outboxes *)

\* Events are told apart by their type and their subject.
LEMMA EventEq ==
  /\ \A a, b, x, y : Event(a, x) = Event(b, y) <=> a = b /\ x = y
  /\ \A a, x : Event(a, x).type = a /\ Event(a, x).of = x
  BY DEF Event

\* A report is no event of an order or a task, and is not reported on.
LEMMA EventShape ==
  /\ \A a \in OrderEvents, o \in Orders : Event(a, o) \in Basic
  /\ \A a \in TaskEvents \union {"DispatchFailed"}, t \in Tasks : Event(a, t) \in Basic
  /\ \A e \in Basic : Report(e) \in EventSet /\ e \in EventSet
  /\ \A e : Report(e) \notin Basic /\ IsAudit(Report(e))
  /\ \A e, f : Report(e) = Report(f) => e = f
  /\ \A e \in EventSet : ~IsAudit(e) => e \in Basic
<1>1. /\ \A a \in OrderEvents, o \in Orders : Event(a, o) \in Basic
      /\ \A a \in TaskEvents \union {"DispatchFailed"}, t \in Tasks : Event(a, t) \in Basic
  BY DEF Event, Basic, OrderEvent, TaskEvent
<1>2. \A e \in Basic : Report(e) \in EventSet /\ e \in EventSet
  BY DEF EventSet
<1>3. \A e : Report(e).type = "MongoEventWriteFailed"
  BY EventEq DEF Report
<1>4. \A e \in Basic : e.type # "MongoEventWriteFailed"
  BY DEF Basic, OrderEvent, TaskEvent, OrderEvents, TaskEvents
<1>5. \A e : Report(e) \notin Basic /\ IsAudit(Report(e))
  BY <1>3, <1>4 DEF IsAudit, AuditEvents
<1>6. \A e, f : Report(e) = Report(f) => e = f
  BY EventEq DEF Report
<1>7. \A e \in EventSet : ~IsAudit(e) => e \in Basic
  BY <1>5 DEF EventSet
<1>8. QED
  BY <1>1, <1>2, <1>5, <1>6, <1>7

\* What a list of one or two events holds.
LEMMA ShortLists ==
  /\ DOMAIN <<>> = {} /\ Range(<<>>) = {}
  /\ \A e : DOMAIN <<e>> = {1} /\ <<e>>[1] = e /\ Range(<<e>>) = {e}
  /\ \A e, f : DOMAIN <<e, f>> = {1, 2} /\ <<e, f>>[1] = e /\ <<e, f>>[2] = f
                /\ Range(<<e, f>>) = {e, f}
<1>1. DOMAIN <<>> = {} /\ Range(<<>>) = {}
  BY DEF Range
<1>2. ASSUME NEW e PROVE DOMAIN <<e>> = {1} /\ <<e>>[1] = e /\ Range(<<e>>) = {e}
  <2>1. DOMAIN <<e>> = {1} /\ <<e>>[1] = e
    OBVIOUS
  <2>2. QED
    BY <2>1 DEF Range
<1>3. ASSUME NEW e, NEW f
      PROVE  /\ DOMAIN <<e, f>> = {1, 2} /\ <<e, f>>[1] = e /\ <<e, f>>[2] = f
             /\ Range(<<e, f>>) = {e, f}
  <2>1. DOMAIN <<e, f>> = {1, 2} /\ <<e, f>>[1] = e /\ <<e, f>>[2] = f
    OBVIOUS
  <2>2. QED
    BY <2>1 DEF Range
<1>4. QED
  BY <1>1, <1>2, <1>3

\* Two events one after the other.
LEMMA PairList == ASSUME NEW x, NEW y PROVE <<x>> \o <<y>> = <<x, y>>
<1> DEFINE s == <<x>> \o <<y>>
<1>1. /\ <<x>> \in Seq({x, y}) /\ <<y>> \in Seq({x, y}) /\ <<x, y>> \in Seq({x, y})
      /\ Len(<<x>>) = 1 /\ Len(<<y>>) = 1 /\ Len(<<x, y>>) = 2
      /\ <<x>>[1] = x /\ <<y>>[1] = y /\ <<x, y>>[1] = x /\ <<x, y>>[2] = y
  OBVIOUS
<1>2. s \in Seq({x, y}) /\ Len(s) = 2
  BY <1>1
<1>3. /\ s[1] = <<x>>[1]
      /\ s[2] = <<y>>[2 - 1]
  BY <1>1, <1>2
<1>4. Len(s) = Len(<<x, y>>) /\ \A i \in 1..Len(s) : s[i] = <<x, y>>[i]
  BY <1>1, <1>2, <1>3
<1> HIDE DEF s
<1>5. s = <<x, y>>
  BY <1>1, <1>2, <1>4, SeqEqual
<1>6. QED
  BY <1>5 DEF s

\* A list holds its first event and the rest.
LEMMA HeadRange ==
  ASSUME NEW S, NEW s \in Seq(S), s # <<>>
  PROVE  Head(s) \in S /\ Tail(s) \in Seq(S) /\ Range(s) = {Head(s)} \union Range(Tail(s))
<1>1. Head(s) \in S /\ Tail(s) \in Seq(S)
  OBVIOUS
<1>2. /\ Len(s) \in Nat \ {0} /\ DOMAIN s = 1..Len(s) /\ Head(s) = s[1]
      /\ DOMAIN Tail(s) = 1..(Len(s) - 1)
      /\ \A i \in 1..(Len(s) - 1) : Tail(s)[i] = s[i + 1]
  OBVIOUS
<1>3. ASSUME NEW i \in 1..Len(s) PROVE s[i] \in {Head(s)} \union Range(Tail(s))
  <2>1. CASE i = 1
    BY <1>2, <2>1
  <2>2. CASE i # 1
    <3>1. i - 1 \in DOMAIN Tail(s) /\ Tail(s)[i - 1] = s[i]
      BY <1>2, <2>2
    <3>2. QED
      BY <3>1 DEF Range
  <2>3. QED
    BY <2>1, <2>2
<1>4. ASSUME NEW i \in DOMAIN Tail(s) PROVE Tail(s)[i] \in Range(s)
  <2>1. i + 1 \in DOMAIN s /\ Tail(s)[i] = s[i + 1]
    BY <1>2
  <2>2. QED
    BY <2>1 DEF Range
<1>5. Head(s) \in Range(s)
  <2>1. 1 \in DOMAIN s
    BY <1>2
  <2>2. QED
    BY <1>2, <2>1 DEF Range
<1>6. Range(s) \subseteq {Head(s)} \union Range(Tail(s))
  BY <1>2, <1>3 DEF Range
<1>7. Range(Tail(s)) \subseteq Range(s)
  BY <1>4 DEF Range
<1>8. QED
  BY <1>1, <1>5, <1>6, <1>7

\* The outbox of writer w becomes box.
LEMMA BoxStep ==
  ASSUME OutboxOK, NEW w \in Writers, NEW box \in Seq(EventSet), outbox' = [outbox EXCEPT ![w] = box]
  PROVE  /\ OutboxOK' /\ outbox'[w] = box
         /\ \A v \in Writers \ {w} : outbox'[v] = outbox[v]
         /\ \A a : a \in Pending' <=>
              a \in Range(box) \/ \E v \in Writers \ {w} : a \in Range(outbox[v])
         /\ \A a : a \in Pending <=>
              a \in Range(outbox[w]) \/ \E v \in Writers \ {w} : a \in Range(outbox[v])
<1>1. /\ OutboxOK' /\ outbox'[w] = box
      /\ \A v \in Writers \ {w} : outbox'[v] = outbox[v]
  BY DEF OutboxOK
<1>2. \A a : a \in Pending' <=> \E v \in Writers : a \in Range(outbox'[v])
  BY DEF Pending
<1>3. \A a : a \in Pending <=> \E v \in Writers : a \in Range(outbox[v])
  BY DEF Pending
<1>4. QED
  BY <1>1, <1>2, <1>3

\* Such a step keeps events apart if box holds different events that are nowhere else.
LEMMA BoxOnce ==
  ASSUME OutboxOK, Once, NEW w \in Writers, NEW box \in Seq(EventSet),
         outbox' = [outbox EXCEPT ![w] = box],
         \A i, j \in DOMAIN box : box[i] = box[j] => i = j,
         \A i \in DOMAIN box :
           /\ box[i] \notin log' \union dropped' \union failed'
           /\ \A v \in Writers \ {w} : box[i] \notin Range(outbox[v]),
         \A v \in Writers \ {w} : \A i \in DOMAIN outbox[v] :
           outbox[v][i] \notin log' \union dropped' \union failed'
  PROVE  Once'
<1>1. outbox'[w] = box /\ \A v \in Writers \ {w} : outbox'[v] = outbox[v]
  BY BoxStep
<1>2. \A v \in Writers : \A i \in DOMAIN outbox'[v] :
        outbox'[v][i] \notin log' \union dropped' \union failed'
  BY <1>1
<1>3. ASSUME NEW u \in Writers, NEW v \in Writers, NEW i \in DOMAIN outbox'[u],
             NEW j \in DOMAIN outbox'[v], outbox'[u][i] = outbox'[v][j]
      PROVE  u = v /\ i = j
  <2>1. \A x \in Writers : \A k \in DOMAIN outbox[x] : outbox[x][k] \in Range(outbox[x])
    BY DEF Range
  <2>2. CASE u = w /\ v = w
    BY <1>1, <1>3, <2>2
  <2>3. CASE u = w /\ v # w
    BY <1>1, <1>3, <2>1, <2>3
  <2>4. CASE u # w /\ v = w
    BY <1>1, <1>3, <2>1, <2>4
  <2>5. CASE u # w /\ v # w
    BY <1>1, <1>3, <2>5 DEF Once
  <2>6. QED
    BY <2>2, <2>3, <2>4, <2>5
<1>4. QED
  BY <1>2, <1>3 DEF Once

-----------------------------------------------------------------------------
(* Steps of the log *)

\* Writers go on with what they had to write, reports aside.
Shrinks ==
  \A v \in Writers :
    /\ outbox[v] = <<>> => outbox'[v] = <<>>
    /\ \A e \in Range(outbox'[v]) : e \in Range(outbox[v]) \/ e \notin Basic

SameFacts == \A e \in Basic : Happened(e)' <=> Happened(e)

\* An event is stored.
LEMMA InsertLog ==
  ASSUME LogOK, NEW w \in Writers, Insert(w), SameFacts PROVE LogOK' /\ Shrinks
<1> USE DEF LogOK
<1> DEFINE s == outbox[w]
           box == Tail(s)
<1>1. s \in Seq(EventSet) /\ s # <<>> /\ outbox' = [outbox EXCEPT ![w] = box]
  BY DEF Insert, OutboxOK
<1>2. log' = log \union {s[1]} /\ failed' = failed /\ dropped' = dropped
  BY <1>1 DEF Insert
<1>3. /\ box \in Seq(EventSet) /\ Len(s) \in Nat \ {0} /\ DOMAIN s = 1..Len(s)
      /\ DOMAIN box = 1..(Len(s) - 1) /\ \A i \in DOMAIN box : box[i] = s[i + 1]
  BY <1>1
<1>4. 1 \in DOMAIN s /\ \A i \in DOMAIN box : i + 1 \in DOMAIN s /\ i + 1 # 1
  BY <1>3
<1>6. Range(s) = {s[1]} \union Range(box)
  BY <1>1, HeadRange
<1>7. \A i, j \in DOMAIN s : s[i] = s[j] => i = j
  BY DEF Once
<1>8. \A i \in DOMAIN s : /\ s[i] \notin log \union dropped \union failed
                          /\ \A v \in Writers \ {w} : s[i] \notin Range(outbox[v])
  BY DEF Once, Range
<1> HIDE DEF s, box
<1>9. \A i, j \in DOMAIN box : box[i] = box[j] => i = j
  <2> SUFFICES ASSUME NEW i \in DOMAIN box, NEW j \in DOMAIN box, box[i] = box[j] PROVE i = j
    OBVIOUS
  <2>1. i + 1 = j + 1 /\ i \in Int /\ j \in Int
    BY <1>3, <1>4, <1>7
  <2>2. QED
    BY <2>1
<1>10. \A i \in DOMAIN box : /\ box[i] \notin log' \union dropped' \union failed'
                             /\ \A v \in Writers \ {w} : box[i] \notin Range(outbox[v])
  BY <1>2, <1>3, <1>4, <1>7, <1>8
<1>11. \A v \in Writers \ {w} : \A i \in DOMAIN outbox[v] :
         outbox[v][i] \notin log' \union dropped' \union failed'
  <2> SUFFICES ASSUME NEW v \in Writers \ {w}, NEW i \in DOMAIN outbox[v]
               PROVE  outbox[v][i] \notin log' \union dropped' \union failed'
    OBVIOUS
  <2>1. outbox[v][i] \in Range(outbox[v]) /\ outbox[v][i] \notin log \union dropped \union failed
    BY DEF Range, Once
  <2>2. QED
    BY <1>2, <1>4, <1>8, <2>1
<1>12. OutboxOK' /\ Once'
  BY <1>1, <1>3, <1>9, <1>10, <1>11, BoxStep, BoxOnce
<1>13. /\ outbox'[w] = box /\ \A v \in Writers \ {w} : outbox'[v] = outbox[v]
       /\ \A a : a \in Pending' <=>
            a \in Range(box) \/ \E v \in Writers \ {w} : a \in Range(outbox[v])
       /\ \A a : a \in Pending <=>
            a \in Range(s) \/ \E v \in Writers \ {w} : a \in Range(outbox[v])
  BY <1>1, <1>3, BoxStep DEF s
<1>14. Known' = Known
  BY <1>2, <1>6, <1>13 DEF Known
<1>15. LogOK'
  BY <1>2, <1>12, <1>14 DEF SameFacts, BasicKnown, FailureKnown
<1>16. Shrinks
  BY <1>1, <1>6, <1>13 DEF Shrinks, s
<1>17. QED
  BY <1>15, <1>16

\* A writer dies with what it had still to write.
LEMMA DeathLog ==
  ASSUME LogOK, NEW w \in Writers, SameFacts, outbox' = [outbox EXCEPT ![w] = <<>>],
         dropped' = dropped \union Range(outbox[w]), UNCHANGED <<log, failed>>
  PROVE  LogOK' /\ Shrinks
<1> USE DEF LogOK
<1>1. <<>> \in Seq(EventSet)
  OBVIOUS
<1>2. /\ OutboxOK' /\ outbox'[w] = <<>> /\ \A v \in Writers \ {w} : outbox'[v] = outbox[v]
      /\ \A a : a \in Pending' <=>
           a \in Range(<<>>) \/ \E v \in Writers \ {w} : a \in Range(outbox[v])
      /\ \A a : a \in Pending <=>
           a \in Range(outbox[w]) \/ \E v \in Writers \ {w} : a \in Range(outbox[v])
  BY <1>1, BoxStep
<1>3. \A v \in Writers \ {w} : \A i \in DOMAIN outbox[v] :
        outbox[v][i] \notin log' \union dropped' \union failed'
  BY DEF Once, Range
<1>4. Once'
  BY <1>1, <1>3, BoxOnce, ShortLists
<1>5. Known' = Known
  BY <1>2, ShortLists DEF Known
<1>6. QED
  BY <1>2, <1>4, <1>5, ShortLists DEF SameFacts, BasicKnown, FailureKnown, Shrinks

\* An insert raises, and is reported unless it was one of an audit event.
LEMMA FailureLog ==
  ASSUME LogOK, NEW w \in Writers, InsertFails(w), SameFacts PROVE LogOK' /\ Shrinks
<1> USE DEF LogOK
<1> DEFINE s == outbox[w]
           e == s[1]
           news == IF IsAudit(e) THEN {} ELSE {Report(e)}
<1>1. s \in Seq(EventSet) /\ s # <<>> /\ s \in Seq(EventSet) /\ Head(s) = e
  BY DEF InsertFails, OutboxOK
<1>2. /\ log' \in {log, log \union {e}} /\ failed' = failed \union {e} /\ dropped' = dropped
      /\ outbox' = [outbox EXCEPT ![w] = AfterFailure(e, Tail(s))]
  BY <1>1 DEF InsertFails
<1>3. /\ Len(s) \in Nat \ {0} /\ DOMAIN s = 1..Len(s) /\ 1 \in DOMAIN s /\ e \in EventSet
      /\ Tail(s) \in Seq(EventSet) /\ DOMAIN Tail(s) = 1..(Len(s) - 1)
      /\ \A i \in DOMAIN Tail(s) : Tail(s)[i] = s[i + 1] /\ i + 1 \in DOMAIN s
  BY <1>1
<1>4. \A i, j \in DOMAIN s : s[i] = s[j] => i = j
  BY DEF Once
<1>5. \A i \in DOMAIN s : /\ s[i] \notin log \union dropped \union failed
                          /\ \A v \in Writers \ {w} : s[i] \notin Range(outbox[v])
  BY DEF Once, Range
<1>6. e \notin failed
  BY <1>3, <1>5
<1>7. /\ Report(e) \notin Known
      /\ ~IsAudit(e) => Report(e) \in EventSet /\ Report(e) # e
  BY <1>3, <1>6, EventShape DEF FailureKnown
<1>8. PICK box \in Seq(EventSet) :
        /\ outbox' = [outbox EXCEPT ![w] = box]
        /\ Range(box) = Range(Tail(s)) \union news
        /\ \A i, j \in DOMAIN box : box[i] = box[j] => i = j
  <2>1. CASE IsAudit(e)
    <3>1. outbox' = [outbox EXCEPT ![w] = Tail(s)]
      BY <1>2, <2>1 DEF AfterFailure
    <3>2. ASSUME NEW i \in DOMAIN Tail(s), NEW j \in DOMAIN Tail(s), Tail(s)[i] = Tail(s)[j]
          PROVE  i = j
      <4>1. i + 1 = j + 1 /\ i \in Int /\ j \in Int
        BY <1>3, <1>4, <3>2
      <4>2. QED
        BY <4>1
    <3>3. QED
      BY <1>3, <2>1, <3>1, <3>2
  <2>2. CASE ~IsAudit(e)
    <3> DEFINE b == <<Report(e)>> \o Tail(s)
    <3>1. outbox' = [outbox EXCEPT ![w] = b]
      BY <1>2, <2>2 DEF AfterFailure, Report
    <3>2. /\ b \in Seq(EventSet) /\ DOMAIN b = DOMAIN s /\ b[1] = Report(e)
          /\ \A i \in DOMAIN b \ {1} : b[i] = s[i] /\ i - 1 \in DOMAIN Tail(s) /\ Tail(s)[i - 1] = s[i]
      <4>1. <<Report(e)>> \in Seq(EventSet) /\ Len(<<Report(e)>>) = 1 /\ <<Report(e)>>[1] = Report(e)
        BY <1>7, <2>2
      <4>2. b \in Seq(EventSet) /\ Len(Tail(s)) = Len(s) - 1
        BY <1>1, <1>3, <4>1
      <4>3. Len(b) = Len(s) /\ DOMAIN b = DOMAIN s
        BY <1>3, <4>1, <4>2
      <4>4. b[1] = Report(e)
        BY <1>3, <4>1, <4>3
      <4>5. ASSUME NEW i \in DOMAIN b \ {1}
            PROVE  b[i] = s[i] /\ i - 1 \in DOMAIN Tail(s) /\ Tail(s)[i - 1] = s[i]
        <5>1. i - 1 \in DOMAIN Tail(s) /\ Tail(s)[i - 1] = s[i]
          BY <1>3, <4>3
        <5>2. b[i] = Tail(s)[i - 1]
          BY <1>3, <4>1, <4>2, <4>3
        <5>3. QED
          BY <5>1, <5>2
      <4>6. QED
        BY <4>2, <4>3, <4>4, <4>5
    <3>3. \A i \in DOMAIN s : s[i] # Report(e)
      <4>1. \A i \in DOMAIN s : s[i] \in Known
        BY DEF Known, Pending, Range
      <4>2. QED
        BY <1>7, <4>1
    <3>4. \A i \in DOMAIN Tail(s) : i + 1 \in DOMAIN b \ {1} /\ b[i + 1] = Tail(s)[i]
      BY <1>3, <3>2
    <3>5. Range(b) = Range(Tail(s)) \union {Report(e)}
      <4>1. 1 \in DOMAIN b
        BY <1>3, <3>2
      <4>2. QED
        BY <3>2, <3>4, <4>1 DEF Range
    <3>6. \A i, j \in DOMAIN b : b[i] = b[j] => i = j
      BY <1>4, <3>2, <3>3
    <3> HIDE DEF b
    <3>7. QED
      BY <2>2, <3>1, <3>2, <3>5, <3>6
  <2>3. QED
    BY <2>1, <2>2
<1>9. Range(s) = {e} \union Range(Tail(s))
  BY <1>1, HeadRange
<1>10. e \notin Range(Tail(s))
  BY <1>3, <1>4 DEF Range
<1>11. \A a \in Range(Tail(s)) : /\ a \notin log \union dropped \union failed
                                 /\ \A v \in Writers \ {w} : a \notin Range(outbox[v])
  BY <1>3, <1>5 DEF Range
<1>12. \A a \in news : /\ a \notin log \union dropped \union failed /\ a # e
                       /\ \A v \in Writers \ {w} : a \notin Range(outbox[v])
  <2>1. \A a \in news : a \notin Known /\ a # e
    BY <1>7
  <2>2. QED
    BY <2>1 DEF Known, Pending
<1>13. e \in Range(s) /\ \A v \in Writers \ {w} : e \notin Range(outbox[v])
  BY <1>3, <1>5 DEF Range
<1> HIDE DEF s, e, news
<1>14. \A i \in DOMAIN box : /\ box[i] \notin log' \union dropped' \union failed'
                             /\ \A v \in Writers \ {w} : box[i] \notin Range(outbox[v])
  <2>1. \A i \in DOMAIN box : box[i] \in Range(Tail(s)) \union news
    <3>1. \A i \in DOMAIN box : box[i] \in Range(box)
      BY DEF Range
    <3>2. QED
      BY <1>8, <3>1
  <2>2. QED
    BY <1>2, <1>10, <1>11, <1>12, <2>1
<1>15. \A v \in Writers \ {w} : \A i \in DOMAIN outbox[v] :
         outbox[v][i] \notin log' \union dropped' \union failed'
  <2>1. \A v \in Writers \ {w} : \A i \in DOMAIN outbox[v] :
          /\ outbox[v][i] \in Range(outbox[v])
          /\ outbox[v][i] \notin log \union dropped \union failed
    BY DEF Range, Once
  <2>2. QED
    BY <1>2, <1>13, <2>1
<1>16. OutboxOK' /\ Once'
  BY <1>8, <1>14, <1>15, BoxStep, BoxOnce
<1>17. /\ outbox'[w] = box /\ \A v \in Writers \ {w} : outbox'[v] = outbox[v]
       /\ \A a : a \in Pending' <=>
            a \in Range(box) \/ \E v \in Writers \ {w} : a \in Range(outbox[v])
       /\ \A a : a \in Pending <=>
            a \in Range(s) \/ \E v \in Writers \ {w} : a \in Range(outbox[v])
  BY <1>8, BoxStep DEF s
<1>18. Known' = Known \union news
  BY <1>2, <1>8, <1>9, <1>17 DEF Known
<1>19. news \intersect Basic = {}
  BY EventShape DEF news
<1>20. BasicKnown'
  BY <1>18, <1>19 DEF BasicKnown, SameFacts
<1>21. FailureKnown'
  <2> SUFFICES ASSUME NEW f \in EventSet
               PROVE  Report(f) \in Known' <=> f \in failed' /\ ~IsAudit(f)
    BY DEF FailureKnown, Report, Event, IsAudit
  <2>1. Report(f) \in news <=> f = e /\ ~IsAudit(e)
    BY EventShape DEF news
  <2>2. QED
    BY <1>2, <1>18, <2>1 DEF FailureKnown
<1>22. failed' \subseteq EventSet
  BY <1>2, <1>3
<1>23. Shrinks
  BY <1>1, <1>8, <1>9, <1>17, <1>19 DEF Shrinks, s
<1>24. QED
  BY <1>16, <1>20, <1>21, <1>22, <1>23

\* A writer with an empty outbox announces what has just happened.
LEMMA AnnounceLog ==
  ASSUME LogOK, NEW w \in Writers, NEW events \in Seq(Basic), Announce(w, events), outbox[w] = <<>>,
         \A i, j \in DOMAIN events : events[i] = events[j] => i = j,
         \A e \in Range(events) : ~Happened(e),
         \A e \in Basic : Happened(e)' <=> Happened(e) \/ e \in Range(events)
  PROVE  LogOK' /\ outbox'[w] = events /\ \A v \in Writers \ {w} : outbox'[v] = outbox[v]
<1> USE DEF LogOK
<1>1. events \in Seq(EventSet) /\ \A i \in DOMAIN events : events[i] \in Basic
  BY DEF EventSet
<1>2. outbox' = [outbox EXCEPT ![w] = events] /\ UNCHANGED <<log, failed, dropped>>
  <2>1. <<>> \o events = events
    OBVIOUS
  <2>2. QED
    BY <2>1 DEF Announce, OutboxOK
<1>3. Range(events) \subseteq Basic /\ Range(events) \intersect Known = {}
  BY <1>1 DEF Range, BasicKnown
<1>4. \A i \in DOMAIN events : /\ events[i] \notin log' \union dropped' \union failed'
                               /\ \A v \in Writers \ {w} : events[i] \notin Range(outbox[v])
  <2>1. \A i \in DOMAIN events : events[i] \notin Known
    BY <1>3 DEF Range
  <2>2. QED
    BY <1>2, <2>1 DEF Known, Pending
<1>5. OutboxOK' /\ Once'
  BY <1>1, <1>2, <1>4, BoxStep, BoxOnce DEF Once
<1>6. /\ outbox'[w] = events /\ \A v \in Writers \ {w} : outbox'[v] = outbox[v]
      /\ \A a : a \in Pending' <=>
           a \in Range(events) \/ \E v \in Writers \ {w} : a \in Range(outbox[v])
      /\ \A a : a \in Pending <=>
           a \in Range(outbox[w]) \/ \E v \in Writers \ {w} : a \in Range(outbox[v])
  BY <1>1, <1>2, BoxStep
<1>7. Known' = Known \union Range(events)
  BY <1>2, <1>6, ShortLists DEF Known
<1>8. BasicKnown'
  BY <1>7 DEF BasicKnown
<1>9. FailureKnown'
  <2> SUFFICES ASSUME NEW f \in EventSet
               PROVE  Report(f) \in Known' <=> f \in failed' /\ ~IsAudit(f)
    BY DEF FailureKnown, Report, Event, IsAudit
  <2>1. Report(f) \notin Range(events)
    BY <1>3, EventShape
  <2>2. QED
    BY <1>2, <1>7, <2>1 DEF FailureKnown
<1>10. QED
  BY <1>2, <1>5, <1>6, <1>8, <1>9

-----------------------------------------------------------------------------
(* What the steps of the service make happen *)

\* Events of orders and of tasks.
LEMMA BasicShape ==
  ASSUME NEW e \in Basic
  PROVE  /\ \/ e.type \in OrderEvents /\ e.of \in Orders
            \/ e.type \in TaskEvents \union {"DispatchFailed"} /\ e.of \in Tasks
         /\ \A a, x : e = Event(a, x) <=> e.type = a /\ e.of = x
  BY DEF Basic, OrderEvent, TaskEvent, Event

\* Steps that move neither a task, nor an order, nor a creation to its end.
LEMMA QuietFacts ==
  ASSUME order' = order, \A t \in Tasks : task'[t] = task[t],
         \A o \in Orders : creator'[o] = "finished" <=> creator[o] = "finished"
  PROVE  SameFacts
<1> SUFFICES ASSUME NEW e \in Basic PROVE Happened(e)' <=> Happened(e)
  BY DEF SameFacts
<1>1. CASE e.type \in OrderEvents /\ e.of \in Orders
  BY <1>1 DEF Happened, OrderEvents
<1>2. CASE e.type \in TaskEvents \union {"DispatchFailed"} /\ e.of \in Tasks
  <2>1. OrderOf[e.of] \in Orders
    BY <1>2, OrderOfType
  <2>2. QED
    BY <1>2, <2>1 DEF Happened, TaskEvents
<1>3. QED
  BY <1>1, <1>2, BasicShape

\* The events of a new order are two, and tell what has just happened.
LEMMA CreateFacts ==
  ASSUME IInv, NEW o \in Orders, CreateOrder(o)
  PROVE  /\ OrderCreatedEvents(o) \in Seq(Basic)
         /\ \A i, j \in DOMAIN OrderCreatedEvents(o) :
              OrderCreatedEvents(o)[i] = OrderCreatedEvents(o)[j] => i = j
         /\ \A e \in Range(OrderCreatedEvents(o)) : ~Happened(e)
         /\ \A e \in Basic : Happened(e)' <=> Happened(e) \/ e \in Range(OrderCreatedEvents(o))
<1> DEFINE c == Event("OrderCreated", o)
           k == Event("KitchenTasksCreated", o)
<1>1. /\ c \in Basic /\ k \in Basic /\ c # k /\ c.of = o /\ k.of = o
      /\ c.type = "OrderCreated" /\ k.type = "KitchenTasksCreated"
  BY EventShape, EventEq DEF OrderEvents
<1>2. OrderCreatedEvents(o) = <<c, k>>
  BY DEF OrderCreatedEvents
<1>3. Range(<<c, k>>) = {c, k} /\ DOMAIN <<c, k>> = {1, 2} /\ <<c, k>>[1] = c /\ <<c, k>>[2] = k
  BY ShortLists
<1>4. /\ order[o] = "absent" /\ order'[o] = "created"
      /\ \A p \in Orders \ {o} : order'[p] = order[p] /\ creator'[p] = creator[p]
      /\ creator[o] = "none" /\ creator'[o] = "publishing"
  BY DEF CreateOrder, IInv, TypeOK, CreatedTogether
<1>5. \A t \in Tasks : /\ OrderOf[t] # o => task'[t] = task[t]
                       /\ OrderOf[t] = o => task[t].status = "absent" /\ task'[t].status = "created"
  <2>1. [Absent EXCEPT !.status = "created"].status = "created"
    BY DEF Absent
  <2>2. QED
    BY <2>1 DEF CreateOrder, IInv, CreatedTogether
<1>6. ASSUME NEW e \in Basic PROVE Happened(e)' <=> Happened(e) \/ e \in {c, k}
  <2>1. e \in {c, k} <=> e.type \in {"OrderCreated", "KitchenTasksCreated"} /\ e.of = o
    BY BasicShape
  <2>2. CASE e.type \in OrderEvents /\ e.of \in Orders
    BY <1>4, <2>1, <2>2 DEF Happened, OrderEvents
  <2>3. CASE e.type \in TaskEvents \union {"DispatchFailed"} /\ e.of \in Tasks
    <3>1. OrderOf[e.of] \in Orders
      BY <2>3, OrderOfType
    <3>2. QED
      BY <1>4, <1>5, <2>1, <2>3, <3>1 DEF Happened, TaskEvents
  <2>4. QED
    BY <2>2, <2>3, BasicShape
<1>7. ~Happened(c) /\ ~Happened(k)
  BY <1>1, <1>4 DEF Happened
<1> HIDE DEF c, k
<1>8. <<c, k>> \in Seq(Basic)
  BY <1>1
<1>9. QED
  BY <1>1, <1>2, <1>3, <1>6, <1>7, <1>8

\* The TaskQueued events of an order are those of its tasks, each once.
LEMMA QueuedEvents ==
  ASSUME NEW o \in Orders
  PROVE  /\ TaskQueuedEvents(o) \in Seq(Basic)
         /\ \A i, j \in DOMAIN TaskQueuedEvents(o) :
              TaskQueuedEvents(o)[i] = TaskQueuedEvents(o)[j] => i = j
         /\ Range(TaskQueuedEvents(o)) = {Event("TaskQueued", t) : t \in TasksOf(o)}
<1> DEFINE n == Cardinality(TasksOf(o))
           T(i) == CHOOSE t \in TasksOf(o) : BuildIndex[t] = i
           q == TaskQueuedEvents(o)
<1>1. n \in Nat
  <2>1. TasksOf(o) \subseteq Tasks
    BY DEF TasksOf
  <2>2. QED
    BY <2>1, BuildList, FS_Subset, FS_CardinalityType
<1>2. \A i \in 1..n : T(i) \in TasksOf(o) /\ BuildIndex[T(i)] = i
  BY BuildList
<1>3. \A t \in TasksOf(o) : t \in Tasks /\ BuildIndex[t] \in 1..n
  BY BuildList DEF TasksOf
<1>4. \A t \in TasksOf(o) : T(BuildIndex[t]) = t
  <2> SUFFICES ASSUME NEW t \in TasksOf(o) PROVE T(BuildIndex[t]) = t
    OBVIOUS
  <2>1. T(BuildIndex[t]) \in TasksOf(o) /\ BuildIndex[T(BuildIndex[t])] = BuildIndex[t]
    BY <1>2, <1>3
  <2> HIDE DEF T
  <2>2. QED
    BY <2>1, BuildList DEF TasksOf
<1>5. q = [i \in 1..n |-> Event("TaskQueued", T(i))]
  BY DEF TaskQueuedEvents
<1> HIDE DEF n, T, q
<1>6. DOMAIN q = 1..n /\ \A i \in 1..n : q[i] = Event("TaskQueued", T(i))
  BY <1>5
<1>7. \A i \in 1..n : q[i] \in Basic
  BY <1>2, <1>3, <1>6, EventShape DEF TaskEvents
<1>8. q \in Seq(Basic)
  BY <1>1, <1>5, <1>6, <1>7
<1>9. \A i, j \in DOMAIN q : q[i] = q[j] => i = j
  BY <1>2, <1>6, EventEq
<1>10. Range(q) = {Event("TaskQueued", t) : t \in TasksOf(o)}
  BY <1>2, <1>3, <1>4, <1>6 DEF Range
<1>11. QED
  BY <1>8, <1>9, <1>10 DEF q

\* mark_tasks_queued ends the creation of its order, and nothing else happens.
LEMMA QueuedFacts ==
  ASSUME IInv, NEW o \in Orders, MarkTasksQueued(o)
  PROVE  /\ \A e \in Range(TaskQueuedEvents(o)) : ~Happened(e)
         /\ \A e \in Basic : Happened(e)' <=> Happened(e) \/ e \in Range(TaskQueuedEvents(o))
<1>1. /\ creator[o] = "publishing" /\ creator'[o] = "finished" /\ order' = order
      /\ \A p \in Orders \ {o} : creator'[p] = creator[p]
  BY DEF MarkTasksQueued, IInv, TypeOK
<1>2. \A t \in Tasks :
        /\ OrderOf[t] # o => task'[t] = task[t]
        /\ OrderOf[t] = o => task[t].status = "created" /\ task'[t].status = "queued"
  BY MarkTasksQueuedWrites
<1>3. Range(TaskQueuedEvents(o)) = {Event("TaskQueued", t) : t \in TasksOf(o)}
  BY QueuedEvents
<1>4. ASSUME NEW e \in Basic
      PROVE  Happened(e)' <=> Happened(e) \/ e \in Range(TaskQueuedEvents(o))
  <2>1. e \in Range(TaskQueuedEvents(o)) <=> e.type = "TaskQueued" /\ e.of \in TasksOf(o)
    BY <1>3, BasicShape
  <2>2. CASE e.type \in OrderEvents /\ e.of \in Orders
    BY <1>1, <2>1, <2>2 DEF Happened, OrderEvents
  <2>3. CASE e.type \in TaskEvents \union {"DispatchFailed"} /\ e.of \in Tasks
    <3>1. OrderOf[e.of] \in Orders /\ (e.of \in TasksOf(o) <=> OrderOf[e.of] = o)
      BY <2>3, OrderOfType DEF TasksOf
    <3>2. QED
      BY <1>1, <1>2, <2>1, <2>3, <3>1 DEF Happened, TaskEvents
  <2>4. QED
    BY <2>2, <2>3, BasicShape
<1>5. ASSUME NEW t \in TasksOf(o) PROVE ~Happened(Event("TaskQueued", t))
  BY <1>1, EventEq DEF Happened, TasksOf
<1>6. QED
  BY <1>3, <1>4, <1>5

\* The commit of request r moves its task t from one of the statuses in from.
Moves(r, t, from, to) ==
  /\ t \in Tasks /\ t = req[r].call.task /\ OrderOf[t] \in Orders
  /\ task[t].status \in from /\ task'[t].status = to
  /\ \A u \in Tasks \ {t} : task'[u] = task[u]
  /\ \A o \in Orders \ {OrderOf[t]} : order'[o] = order[o]
  /\ order[OrderOf[t]] \notin {"absent", "ready_for_pickup"}
  /\ Release(r) /\ creator' = creator

\* What the commits do: the four transitions and what they announce.
Displays(r, t) ==
  /\ Moves(r, t, {"queued", "retrying"}, "displayed") /\ order' = order
  /\ Announced(r) = <<Event("TaskDisplayed", t)>>
Starts(r, t) ==
  /\ Moves(r, t, {"displayed"}, "in_progress")
  /\ order'[OrderOf[t]] \notin {"absent", "ready_for_pickup"}
  /\ Announced(r) = <<Event("TaskStarted", t)>>
GivesUp(r, t) ==
  /\ Moves(r, t, {"queued", "retrying"}, "failed") /\ order' = order
  /\ Announced(r) = <<Event("TaskDispatchFailed", t), Event("DispatchFailed", t)>>
Completes(r, t) ==
  /\ Moves(r, t, {"in_progress"}, "done") /\ order' = order
  /\ Announced(r) = <<Event("TaskCompleted", t)>>
Closes(r, t) ==
  /\ Moves(r, t, {"in_progress"}, "done") /\ order'[OrderOf[t]] = "ready_for_pickup"
  /\ Announced(r) = <<Event("TaskCompleted", t), Event("OrderReadyForPickup", OrderOf[t])>>

\* The commits, sorted by what they do.
LEMMA CommitStep ==
  ASSUME EInv, NEW r \in Requests, Commits(r), Handler(r)
  PROVE  \E t \in Tasks :
           Displays(r, t) \/ Starts(r, t) \/ GivesUp(r, t) \/ Completes(r, t) \/ Closes(r, t)
<1> IInv /\ LogInv /\ TypeOK
  BY DEF EInv, IInv
<1>1. req[r].pc # "idle"
  BY DEF Commits, At
<1>2. PICK t \in Tasks : t = req[r].call.task
  BY <1>1, SessionShape
<1>3. /\ req[r].row = task[t] /\ task[t] \in Row /\ OrderOf[t] \in Orders
      /\ task[t].status # "absent" /\ order[OrderOf[t]] # "absent"
      /\ task[t].status # "done" => order[OrderOf[t]] # "ready_for_pickup"
  BY <1>1, <1>2, OrderOfType DEF IInv, SessionCurrent, TypeOK, CreatedTogether, ReadyMeansAllDone
<1>4. CASE At(r, "mark_displayed")
  <2>1. ~Already(r, "displayed") /\ MayDisplay(r) /\ MarkDisplayed(r)
    BY <1>4 DEF Commits, Handler, At, StartTask, CompleteTask, CompleteCommit, DispatchFailed
  <2>2. /\ task' = [task EXCEPT ![t] = [task[t] EXCEPT !.status = "displayed",
                      !.station_id = req[r].call.station_id, !.kds_task_id = req[r].call.kds_task_id]]
        /\ Release(r) /\ UNCHANGED <<order, creator>>
    BY <1>2, <2>1 DEF MarkDisplayed
  <2>3. task[t].status \in {"queued", "retrying"}
    BY <1>3, <2>1 DEF MayDisplay, can_transition, ALLOWED_TRANSITIONS
  <2>4. task'[t].status = "displayed" /\ \A u \in Tasks \ {t} : task'[u] = task[u]
    BY <1>3, <2>2 DEF TypeOK, Row
  <2>5. Announced(r) = <<Event("TaskDisplayed", t)>>
    BY <1>2, <1>4 DEF Announced, At
  <2>6. QED
    BY <1>2, <1>3, <2>2, <2>3, <2>4, <2>5 DEF Displays, Moves
<1>5. CASE At(r, "start")
  <2>1. ~Already(r, "in_progress") /\ MayStart(r) /\ StartTask(r)
    BY <1>5 DEF Commits, Handler, At, MarkDisplayed, CompleteTask, CompleteCommit, DispatchFailed
  <2>2. /\ task' = [task EXCEPT ![t] = [task[t] EXCEPT !.status = "in_progress",
                                                       !.started_at = req[r].call.at]]
        /\ order' \in {order, [order EXCEPT ![OrderOf[t]] = "cooking"]}
        /\ Release(r) /\ UNCHANGED creator
    BY <1>2, <2>1 DEF StartTask, OrderIdOf
  <2>3. task[t].status = "displayed"
    BY <1>3, <2>1 DEF MayStart, can_transition, ALLOWED_TRANSITIONS
  <2>4. task'[t].status = "in_progress" /\ \A u \in Tasks \ {t} : task'[u] = task[u]
    BY <1>3, <2>2 DEF TypeOK, Row
  <2>5. /\ order'[OrderOf[t]] \notin {"absent", "ready_for_pickup"}
        /\ \A o \in Orders \ {OrderOf[t]} : order'[o] = order[o]
    BY <1>3, <2>2, <2>3 DEF TypeOK
  <2>6. Announced(r) = <<Event("TaskStarted", t)>>
    BY <1>2, <1>5 DEF Announced, At
  <2>7. QED
    BY <1>2, <1>3, <2>2, <2>3, <2>4, <2>5, <2>6 DEF Starts, Moves
<1>6. CASE At(r, "dispatch_failed")
  <2>1. ~Already(r, "failed") /\ can_transition(req[r].row.status, "failed") /\ DispatchFailed(r)
    BY <1>6 DEF Commits, Handler, At, MarkDisplayed, StartTask, CompleteTask, CompleteCommit
  <2>2. PICK n : /\ task' = [task EXCEPT ![t] = [task[t] EXCEPT !.status = "failed", !.attempts = n]]
                 /\ Release(r) /\ UNCHANGED <<order, creator>>
    BY <1>2, <2>1 DEF DispatchFailed
  <2>3. task[t].status \in {"queued", "retrying"}
    BY <1>3, <2>1 DEF can_transition, ALLOWED_TRANSITIONS
  <2>4. task'[t].status = "failed" /\ \A u \in Tasks \ {t} : task'[u] = task[u]
    BY <1>3, <2>2 DEF TypeOK, Row
  <2>5. Announced(r) = <<Event("TaskDispatchFailed", t), Event("DispatchFailed", t)>>
    BY <1>2, <1>6 DEF Announced, At
  <2>6. QED
    BY <1>2, <1>3, <2>2, <2>3, <2>4, <2>5 DEF GivesUp, Moves
<1>7. CASE req[r].pc = "counted"
  <2>1. CompleteCommit(r) /\ req[r].call.op = "complete" /\ req[r].order_ready \in BOOLEAN
    BY <1>1, <1>7, SessionShape DEF Handler, At, MarkDisplayed, StartTask, CompleteTask, DispatchFailed,
       LogInv, CountedCompletes
  <2>2. /\ task' = [task EXCEPT ![t] = [task[t] EXCEPT !.status = "done"]]
        /\ Release(r) /\ UNCHANGED creator
        /\ order' = IF req[r].order_ready
                    THEN [order EXCEPT ![OrderOf[t]] = "ready_for_pickup"] ELSE order
    BY <1>2, <2>1 DEF CompleteCommit, OrderIdOf
  <2>3. task[t].status = "in_progress"
    BY <1>3, <1>7 DEF IInv, CountStands
  <2>4. task'[t].status = "done" /\ \A u \in Tasks \ {t} : task'[u] = task[u]
    BY <1>3, <2>2 DEF TypeOK, Row
  <2>5. Announced(r) = <<Event("TaskCompleted", t)>>
                       \o IF req[r].order_ready
                          THEN <<Event("OrderReadyForPickup", OrderOf[t])>> ELSE <<>>
    BY <1>2, <2>1 DEF Announced
  <2>6. CASE req[r].order_ready
    <3>1. Announced(r) = <<Event("TaskCompleted", t), Event("OrderReadyForPickup", OrderOf[t])>>
      <4>1. Announced(r) = <<Event("TaskCompleted", t)>> \o <<Event("OrderReadyForPickup", OrderOf[t])>>
        BY <2>5, <2>6
      <4>2. QED
        BY <4>1, PairList
    <3>2. /\ order'[OrderOf[t]] = "ready_for_pickup"
          /\ \A o \in Orders \ {OrderOf[t]} : order'[o] = order[o]
      BY <1>3, <2>2, <2>6 DEF TypeOK
    <3>3. QED
      BY <1>2, <1>3, <2>2, <2>3, <2>4, <3>1, <3>2 DEF Closes, Moves
  <2>7. CASE ~req[r].order_ready
    <3>1. Announced(r) = <<Event("TaskCompleted", t)>>
      BY <2>5, <2>7
    <3>2. order' = order
      BY <2>2, <2>7
    <3>3. QED
      BY <1>2, <1>3, <2>2, <2>3, <2>4, <3>1, <3>2 DEF Completes, Moves
  <2>8. QED
    BY <2>6, <2>7
<1>8. QED
  BY <1>4, <1>5, <1>6, <1>7 DEF Commits

\* A commit announces what it makes happen, and that is new.
LEMMA CommitFacts ==
  ASSUME EInv, NEW r \in Requests, Commits(r), Handler(r)
  PROVE  /\ Announced(r) \in Seq(Basic)
         /\ \A i, j \in DOMAIN Announced(r) : Announced(r)[i] = Announced(r)[j] => i = j
         /\ \A e \in Range(Announced(r)) : ~Happened(e)
         /\ \A e \in Basic : Happened(e)' <=> Happened(e) \/ e \in Range(Announced(r))
         /\ creator' = creator /\ Release(r)
         /\ \A e \in Range(Announced(r)) : e.type \notin {"OrderCreated", "KitchenTasksCreated"}
<1>1. PICK t \in Tasks :
        Displays(r, t) \/ Starts(r, t) \/ GivesUp(r, t) \/ Completes(r, t) \/ Closes(r, t)
  BY CommitStep
<1> DEFINE o == OrderOf[t]
           news == Range(Announced(r))
<1>2. \E from, to : Moves(r, t, from, to)
  BY <1>1 DEF Displays, Starts, GivesUp, Completes, Closes
<1>3. /\ o \in Orders /\ creator' = creator /\ Release(r)
      /\ \A u \in Tasks \ {t} : task'[u] = task[u]
      /\ \A p \in Orders \ {o} : order'[p] = order[p]
      /\ order[o] \notin {"absent", "ready_for_pickup"}
  BY <1>2 DEF Moves
<1>4. /\ \A a \in OrderEvents : Event(a, o) \in Basic
      /\ \A a \in TaskEvents \union {"DispatchFailed"} : Event(a, t) \in Basic
  BY <1>3, EventShape
<1>5. /\ Announced(r) \in Seq(Basic)
      /\ \A i, j \in DOMAIN Announced(r) : Announced(r)[i] = Announced(r)[j] => i = j
  <2>1. \A x \in Basic : <<x>> \in Seq(Basic) /\ \A i, j \in DOMAIN <<x>> : i = j
    BY ShortLists
  <2>2. \A x, y \in Basic : x # y =>
          <<x, y>> \in Seq(Basic) /\ \A i, j \in DOMAIN <<x, y>> : <<x, y>>[i] = <<x, y>>[j] => i = j
    <3> SUFFICES ASSUME NEW x \in Basic, NEW y \in Basic, x # y
                 PROVE  /\ <<x, y>> \in Seq(Basic)
                        /\ \A i, j \in DOMAIN <<x, y>> : <<x, y>>[i] = <<x, y>>[j] => i = j
      OBVIOUS
    <3>1. <<x, y>> \in Seq(Basic)
      OBVIOUS
    <3>2. DOMAIN <<x, y>> = {1, 2} /\ <<x, y>>[1] = x /\ <<x, y>>[2] = y
      BY ShortLists
    <3>3. QED
      BY <3>1, <3>2
  <2>3. CASE Displays(r, t) \/ Starts(r, t) \/ Completes(r, t)
    <3>1. PICK x \in Basic : Announced(r) = <<x>>
      BY <1>4, <2>3 DEF Displays, Starts, Completes, TaskEvents
    <3>2. QED
      BY <2>1, <3>1
  <2>4. CASE GivesUp(r, t) \/ Closes(r, t)
    <3>1. PICK x \in Basic, y \in Basic : x # y /\ Announced(r) = <<x, y>>
      BY <1>4, <2>4, EventEq DEF GivesUp, Closes, TaskEvents, OrderEvents
    <3>2. QED
      BY <2>2, <3>1
  <2>5. QED
    BY <1>1, <2>3, <2>4
<1>6. ASSUME NEW e \in Basic
      PROVE  /\ Happened(e)' <=> Happened(e) \/ e \in news
             /\ e \in news => ~Happened(e) /\ e.type \notin {"OrderCreated", "KitchenTasksCreated"}
  <2>0. \A a, x : e = Event(a, x) <=> e.type = a /\ e.of = x
    BY BasicShape
  <2>1. CASE Displays(r, t)
    <3>1. /\ e \in news <=> e.type = "TaskDisplayed" /\ e.of = t
          /\ task[t].status \in {"queued", "retrying"} /\ task'[t].status = "displayed" /\ order' = order
      BY <2>0, <2>1, ShortLists DEF Displays, Moves
    <3>2. QED
      BY <1>3, <3>1, BasicShape DEF Happened, OrderEvents, TaskEvents
  <2>2. CASE Starts(r, t)
    <3>1. /\ e \in news <=> e.type = "TaskStarted" /\ e.of = t
          /\ task[t].status = "displayed" /\ task'[t].status = "in_progress"
          /\ order'[o] \notin {"absent", "ready_for_pickup"}
      BY <2>0, <2>2, ShortLists DEF Starts, Moves
    <3>2. QED
      BY <1>3, <3>1, BasicShape DEF Happened, OrderEvents, TaskEvents
  <2>3. CASE GivesUp(r, t)
    <3>1. /\ e \in news <=> e.type \in {"TaskDispatchFailed", "DispatchFailed"} /\ e.of = t
          /\ task[t].status \in {"queued", "retrying"} /\ task'[t].status = "failed" /\ order' = order
      BY <2>0, <2>3, ShortLists DEF GivesUp, Moves
    <3>2. QED
      BY <1>3, <3>1, BasicShape DEF Happened, OrderEvents, TaskEvents
  <2>4. CASE Completes(r, t)
    <3>1. /\ e \in news <=> e.type = "TaskCompleted" /\ e.of = t
          /\ task[t].status = "in_progress" /\ task'[t].status = "done" /\ order' = order
      BY <2>0, <2>4, ShortLists DEF Completes, Moves
    <3>2. QED
      BY <1>3, <3>1, BasicShape DEF Happened, OrderEvents, TaskEvents
  <2>5. CASE Closes(r, t)
    <3>1. /\ e \in news <=> \/ e.type = "TaskCompleted" /\ e.of = t
                            \/ e.type = "OrderReadyForPickup" /\ e.of = o
          /\ task[t].status = "in_progress" /\ task'[t].status = "done"
          /\ order'[o] = "ready_for_pickup"
      BY <2>0, <2>5, ShortLists DEF Closes, Moves
    <3>2. QED
      BY <1>3, <3>1, BasicShape DEF Happened, OrderEvents, TaskEvents
  <2>6. QED
    BY <1>1, <2>1, <2>2, <2>3, <2>4, <2>5
<1>7. news \subseteq Basic
  BY <1>5 DEF Range
<1>8. QED
  BY <1>3, <1>5, <1>6, <1>7

-----------------------------------------------------------------------------
(* Steps of the service and of the writers *)

\* A step that adds no order or task event to an outbox.
LEMMA QuietWriters ==
  ASSUME LogInv, Shrinks,
         \A r \in Requests : req'[r].pc # "idle" => outbox[r] = <<>>,
         \A o \in Orders : creator'[o] = "none" => creator[o] = "none",
         \A o \in Orders : creator[o] = "publishing" /\ outbox'[o] # <<>> => creator'[o] = "publishing"
  PROVE  WritersQuiet' /\ OrderEventsOwn'
<1>1. WritersQuiet'
  BY DEF LogInv, WritersQuiet, Shrinks, Writers
<1>2. ASSUME NEW o \in Orders, NEW w \in Writers, NEW e \in Range(OrderCreatedEvents(o)),
             e \in Range(outbox'[w])
      PROVE  w = o /\ creator'[o] = "publishing"
  <2>1. e \in Basic
    BY EventShape, ShortLists DEF OrderCreatedEvents, OrderEvents
  <2>2. e \in Range(outbox[w]) /\ outbox'[w] # <<>>
    BY <1>2, <2>1, ShortLists DEF Shrinks
  <2>3. QED
    BY <2>2 DEF LogInv, OrderEventsOwn
<1>3. OrderEventsOwn'
  BY <1>2 DEF OrderEventsOwn, OrderCreatedEvents, Event
<1>4. QED
  BY <1>1, <1>3

\* A step that leaves the log alone and moves no task.
LEMMA QuietLog ==
  ASSUME LogOK, UNCHANGED logVars, SameFacts PROVE LogOK' /\ Shrinks
<1>1. outbox' = outbox /\ log' = log /\ failed' = failed /\ dropped' = dropped
  BY DEF logVars
<1>2. Known' = Known
  BY <1>1 DEF Known, Pending
<1>3. OutboxOK' /\ Once'
  BY <1>1 DEF LogOK, OutboxOK, Once
<1>4. BasicKnown' /\ FailureKnown'
  BY <1>1, <1>2 DEF LogOK, BasicKnown, FailureKnown, SameFacts
<1>5. QED
  BY <1>1, <1>3, <1>4 DEF LogOK, Shrinks

\* A step that announces events.
LEMMA AnnouncingWriters ==
  ASSUME LogInv, NEW w \in Writers, NEW events,
         outbox'[w] = events, \A v \in Writers \ {w} : outbox'[v] = outbox[v],
         \A r \in Requests : req'[r].pc # "idle" => r # w /\ req[r].pc # "idle",
         \A o \in Orders : creator'[o] = "none" => o # w /\ creator[o] = "none",
         \A o \in Orders \ {w} : creator'[o] = creator[o],
         \A o \in Orders : \A e \in Range(OrderCreatedEvents(o)) :
           e \in Range(events) => w = o /\ creator'[o] = "publishing"
  PROVE  WritersQuiet' /\ OrderEventsOwn'
<1>1. WritersQuiet'
  BY DEF LogInv, WritersQuiet, Writers
<1>2. ASSUME NEW o \in Orders, NEW v \in Writers, NEW e \in Range(OrderCreatedEvents(o)),
             e \in Range(outbox'[v])
      PROVE  v = o /\ creator'[o] = "publishing"
  BY <1>2 DEF LogInv, OrderEventsOwn
<1>3. OrderEventsOwn'
  BY <1>2 DEF OrderEventsOwn, OrderCreatedEvents, Event
<1>4. QED
  BY <1>1, <1>3

\* POST /orders announces its order, publishes its tasks and announces them.
LEMMA CreationStepInv ==
  ASSUME EInv, NEW o \in Orders, CreationStep(o) PROVE LogInv'
<1> IInv /\ LogInv /\ LogOK /\ TypeOK /\ o \in Writers
  BY DEF EInv, IInv, LogInv, Writers
<1>1. CASE CreateOrder(o) /\ Announce(o, OrderCreatedEvents(o))
  <2>1. creator[o] = "none" /\ outbox[o] = <<>>
    BY <1>1 DEF CreateOrder, IInv, CreatedTogether, LogInv, WritersQuiet
  <2>2. /\ req' = req /\ creator'[o] = "publishing"
        /\ \A p \in Orders \ {o} : creator'[p] = creator[p]
    BY <1>1 DEF CreateOrder, TypeOK
  <2>3. /\ LogOK' /\ outbox'[o] = OrderCreatedEvents(o)
        /\ \A v \in Writers \ {o} : outbox'[v] = outbox[v]
    BY <1>1, <2>1, CreateFacts, AnnounceLog
  <2>4. \A p \in Orders : \A e \in Range(OrderCreatedEvents(p)) :
          e \in Range(OrderCreatedEvents(o)) => o = p
    BY EventEq, ShortLists DEF OrderCreatedEvents
  <2>5. \A r \in Requests : r # o
    BY WritersDiffer
  <2>6. WritersQuiet' /\ OrderEventsOwn'
    BY <2>2, <2>3, <2>4, <2>5, AnnouncingWriters
  <2>7. CountedCompletes'
    BY <2>2 DEF LogInv, CountedCompletes
  <2>8. QED
    BY <2>3, <2>6, <2>7 DEF LogInv
<1>2. CASE (\E t \in TasksOf(o) : PublishTask(t)) /\ UNCHANGED logVars
  <2>1. UNCHANGED <<task, order, creator, req, outbox>>
    BY <1>2 DEF PublishTask, logVars
  <2>2. LogOK' /\ Shrinks
    BY <1>2, <2>1, QuietFacts, QuietLog
  <2>3. WritersQuiet' /\ OrderEventsOwn'
    BY <2>1, <2>2, QuietWriters DEF LogInv, WritersQuiet
  <2>4. QED
    BY <2>1, <2>2, <2>3 DEF LogInv, CountedCompletes
<1>3. CASE CreationMayGoOn(o) /\ MarkTasksQueued(o) /\ Announce(o, TaskQueuedEvents(o))
  <2>1. /\ outbox[o] = <<>> /\ req' = req /\ creator'[o] = "finished"
        /\ \A p \in Orders \ {o} : creator'[p] = creator[p]
    BY <1>3 DEF CreationMayGoOn, MarkTasksQueued, TypeOK
  <2>2. /\ LogOK' /\ outbox'[o] = TaskQueuedEvents(o)
        /\ \A v \in Writers \ {o} : outbox'[v] = outbox[v]
    BY <1>3, <2>1, QueuedEvents, QueuedFacts, AnnounceLog
  <2>3. \A p \in Orders : \A e \in Range(OrderCreatedEvents(p)) : e \notin Range(TaskQueuedEvents(o))
    BY EventEq, ShortLists, QueuedEvents DEF OrderCreatedEvents
  <2>4. \A r \in Requests : r # o
    BY WritersDiffer
  <2>5. WritersQuiet' /\ OrderEventsOwn'
    BY <2>1, <2>2, <2>3, <2>4, AnnouncingWriters
  <2>6. QED
    BY <2>1, <2>2, <2>5 DEF LogInv, CountedCompletes
<1>4. QED
  BY <1>1, <1>2, <1>3 DEF CreationStep

\* POST /orders stops in its publish loop, or dies with what it had to write.
LEMMA CreationStopsInv ==
  ASSUME EInv, NEW o \in Orders, CreationStops(o) PROVE LogInv'
<1> IInv /\ LogInv /\ LogOK /\ TypeOK /\ o \in Writers
  BY DEF EInv, IInv, LogInv, Writers
<1>1. /\ UNCHANGED <<task, order, req>>
      /\ creator' = [creator EXCEPT ![o] = IF creator[o] = "publishing" THEN "abandoned" ELSE creator[o]]
  BY DEF CreationStops, AbandonCreation
<1>2. \A p \in Orders :
        /\ creator'[p] = "finished" <=> creator[p] = "finished"
        /\ creator'[p] = "none" <=> creator[p] = "none"
        /\ p # o => creator'[p] = creator[p]
  BY <1>1 DEF TypeOK
<1>3. SameFacts
  BY <1>1, <1>2, QuietFacts
<1>4. LogOK' /\ Shrinks /\ outbox'[o] = <<>>
  <2>1. CASE outbox[o] = <<>>
    <3>1. UNCHANGED logVars
      BY <2>1 DEF CreationStops
    <3>2. QED
      BY <1>3, <2>1, <3>1, QuietLog DEF logVars
  <2>2. CASE outbox[o] # <<>>
    <3>1. /\ outbox' = [outbox EXCEPT ![o] = <<>>] /\ UNCHANGED <<log, failed>>
          /\ dropped' = dropped \union Range(outbox[o])
      BY <2>2 DEF CreationStops, CreationMayGoOn
    <3>2. outbox'[o] = <<>>
      BY <3>1 DEF LogOK, OutboxOK
    <3>3. QED
      BY <1>3, <3>1, <3>2, DeathLog
  <2>3. QED
    BY <2>1, <2>2
<1>5. WritersQuiet' /\ OrderEventsOwn'
  BY <1>1, <1>2, <1>4, QuietWriters DEF LogInv, WritersQuiet
<1>6. QED
  BY <1>1, <1>4, <1>5 DEF LogInv, CountedCompletes

\* Requests other than r keep their sessions.
LEMMA ReleaseSession ==
  ASSUME TypeOK, NEW r \in Requests, Release(r)
  PROVE  req'[r].pc = "idle" /\ \A q \in Requests \ {r} : req'[q] = req[q]
  BY IdleInSession DEF Release, TypeOK

\* A step of a request that commits nothing moves its own session only.
LEMMA QuietRequest ==
  ASSUME EInv, NEW r \in Requests,
         \/ outbox[r] = <<>> /\ \E call \in Call : GetForUpdate(r, call)
         \/ ~Commits(r) /\ Handler(r)
         \/ Rollback(r)
  PROVE  /\ UNCHANGED <<task, order, creator>> /\ outbox[r] = <<>>
         /\ \A q \in Requests \ {r} : req'[q] = req[q]
         /\ req'[r].pc = "counted" => req'[r].call.op = "complete"
<1> IInv /\ LogInv /\ TypeOK
  BY DEF EInv, IInv
<1>1. req[r].pc # "idle" => outbox[r] = <<>>
  BY DEF LogInv, WritersQuiet
<1>2. CASE outbox[r] = <<>> /\ \E call \in Call : GetForUpdate(r, call)
  BY <1>2 DEF GetForUpdate, TypeOK
<1>3. CASE req[r].pc # "idle" /\ AnswerUnchanged(r)
  BY <1>1, <1>3, ReleaseSession DEF AnswerUnchanged
<1>4. CASE ~Commits(r) /\ Handler(r)
  <2>1. CASE CompleteTask(r) /\ ~AnswerUnchanged(r)
    <3>1. /\ UNCHANGED <<task, order, creator>>
          /\ req[r].pc # "idle" /\ req[r].call.op = "complete"
          /\ req' = [req EXCEPT ![r] = [pc |-> "counted", call |-> req[r].call, row |-> req[r].row,
                       order |-> req[r].order, order_ready |-> AllOrderTasksDone(req[r].call.task)]]
      BY <2>1 DEF CompleteTask, At
    <3>2. QED
      BY <1>1, <3>1 DEF TypeOK
  <2>2. CASE ~CompleteTask(r)
    <3>1. req[r].pc # "idle" /\ AnswerUnchanged(r)
      BY <1>4, <2>2 DEF Handler, Commits, At, MarkDisplayed, StartTask, CompleteCommit, DispatchFailed
    <3>2. QED
      BY <1>3, <3>1
  <2>3. CASE CompleteTask(r) /\ AnswerUnchanged(r)
    BY <1>3, <2>3 DEF CompleteTask, At
  <2>4. QED
    BY <2>1, <2>2, <2>3
<1>5. CASE Rollback(r)
  BY <1>3, <1>5 DEF Rollback
<1>6. QED
  BY <1>2, <1>4, <1>5

\* A transition request announces what it commits, and nothing else.
LEMMA RequestStepInv ==
  ASSUME EInv, NEW r \in Requests, RequestStep(r) PROVE LogInv'
<1> IInv /\ LogInv /\ LogOK /\ TypeOK /\ r \in Writers
  BY DEF EInv, IInv, LogInv, Writers
<1>1. CASE Commits(r) /\ Handler(r) /\ Announce(r, Announced(r))
  <2>1. outbox[r] = <<>>
    <3>1. req[r].pc # "idle"
      BY <1>1 DEF Commits, At
    <3>2. QED
      BY <3>1 DEF LogInv, WritersQuiet
  <2>2. /\ creator' = creator /\ req'[r].pc = "idle"
        /\ \A q \in Requests \ {r} : req'[q] = req[q]
    BY <1>1, CommitFacts, ReleaseSession
  <2>3. /\ LogOK' /\ outbox'[r] = Announced(r)
        /\ \A v \in Writers \ {r} : outbox'[v] = outbox[v]
    BY <1>1, <2>1, CommitFacts, AnnounceLog
  <2>4. \A o \in Orders : \A e \in Range(OrderCreatedEvents(o)) : e \notin Range(Announced(r))
    <3>1. \A o \in Orders : \A e \in Range(OrderCreatedEvents(o)) :
            e.type \in {"OrderCreated", "KitchenTasksCreated"}
      BY EventEq, ShortLists DEF OrderCreatedEvents
    <3>2. QED
      BY <1>1, <3>1, CommitFacts
  <2>5. \A o \in Orders : o # r
    BY WritersDiffer
  <2>6. WritersQuiet' /\ OrderEventsOwn'
    BY <2>2, <2>3, <2>4, <2>5, AnnouncingWriters
  <2>7. CountedCompletes'
    BY <2>2 DEF LogInv, CountedCompletes
  <2>8. QED
    BY <2>3, <2>6, <2>7 DEF LogInv
<1>2. CASE /\ UNCHANGED logVars
           /\ \/ outbox[r] = <<>> /\ \E call \in Call : GetForUpdate(r, call)
              \/ ~Commits(r) /\ Handler(r)
              \/ Rollback(r)
  <2>1. /\ UNCHANGED <<task, order, creator>> /\ outbox[r] = <<>>
        /\ \A q \in Requests \ {r} : req'[q] = req[q]
        /\ req'[r].pc = "counted" => req'[r].call.op = "complete"
    BY <1>2, QuietRequest
  <2>2. LogOK' /\ Shrinks
    BY <1>2, <2>1, QuietFacts, QuietLog
  <2>3. WritersQuiet' /\ OrderEventsOwn'
    BY <2>1, <2>2, QuietWriters DEF LogInv, WritersQuiet
  <2>4. CountedCompletes'
    BY <2>1 DEF LogInv, CountedCompletes
  <2>5. QED
    BY <2>2, <2>3, <2>4 DEF LogInv
<1>3. QED
  BY <1>1, <1>2 DEF RequestStep

\* Inserts, failed inserts and the death of a request leave the database alone.
LEMMA WriterStepInv ==
  ASSUME EInv, \/ \E w \in Writers : Insert(w) \/ InsertFails(w)
               \/ \E r \in Requests : WriterDies(r)
  PROVE  LogInv'
<1> LogInv /\ LogOK
  BY DEF EInv, LogInv
<1>1. UNCHANGED <<task, order, creator, req>>
  BY DEF Insert, InsertFails, WriterDies, vars
<1>2. SameFacts
  BY <1>1, QuietFacts
<1>3. LogOK' /\ Shrinks
  BY <1>2, InsertLog, FailureLog, DeathLog DEF WriterDies, Writers
<1>4. WritersQuiet' /\ OrderEventsOwn'
  BY <1>1, <1>3, QuietWriters DEF LogInv, WritersQuiet
<1>5. QED
  BY <1>1, <1>3, <1>4 DEF LogInv, CountedCompletes

-----------------------------------------------------------------------------
(* The service with its log is the service *)

\* No writer, and nothing known, in the beginning.
LEMMA EventsInitInv == EventsInit => EInv
<1> SUFFICES ASSUME EventsInit PROVE EInv
  OBVIOUS
<1>1. IInv
  BY InitIInv DEF EventsInit
<1>2. /\ \A w \in Writers : outbox[w] = <<>> /\ Range(outbox[w]) = {}
      /\ log = {} /\ failed = {} /\ dropped = {}
  BY ShortLists DEF EventsInit
<1>3. OutboxOK /\ Once
  BY <1>2, ShortLists DEF EventsInit, OutboxOK, Once
<1>4. Known = {}
  BY <1>2 DEF Known, Pending
<1>5. ASSUME NEW e \in Basic PROVE ~Happened(e)
  <2>1. /\ \A o \in Orders : order[o] = "absent" /\ creator[o] = "none"
        /\ \A t \in Tasks : task[t].status = "absent"
    BY DEF EventsInit, Init, Absent
  <2>2. CASE e.type \in OrderEvents /\ e.of \in Orders
    BY <2>1, <2>2 DEF Happened, OrderEvents
  <2>3. CASE e.type \in TaskEvents \union {"DispatchFailed"} /\ e.of \in Tasks
    <3>1. OrderOf[e.of] \in Orders
      BY <2>3, OrderOfType
    <3>2. QED
      BY <2>1, <2>3, <3>1 DEF Happened, TaskEvents
  <2>4. QED
    BY <2>2, <2>3, BasicShape
<1>6. LogOK
  BY <1>2, <1>3, <1>4, <1>5 DEF LogOK, BasicKnown, FailureKnown
<1>7. CountedCompletes
  BY DEF EventsInit, Init, Idle, CountedCompletes
<1>8. WritersQuiet /\ OrderEventsOwn
  BY <1>2 DEF WritersQuiet, OrderEventsOwn, Writers
<1>9. QED
  BY <1>1, <1>6, <1>7, <1>8 DEF EInv, LogInv

\* A step with its announcements is a step of the service or leaves it alone.
LEMMA EventsImplement == EInv /\ [EventsNext]_eventVars => [Next]_vars
<1> SUFFICES ASSUME EInv, [EventsNext]_eventVars PROVE [Next]_vars
  OBVIOUS
<1>1. ASSUME NEW o \in Orders, CreationStep(o) PROVE Next
  <2>1. TasksOf(o) \subseteq Tasks
    BY DEF TasksOf
  <2>2. QED
    BY <1>1, <2>1 DEF CreationStep, Next, Creation
<1>2. ASSUME NEW o \in Orders, CreationStops(o) PROVE [Next]_vars
  <2>1. CASE AbandonCreation(o)
    BY <2>1 DEF Next, Creation
  <2>2. CASE /\ creator' = [creator EXCEPT ![o] = IF @ = "publishing" THEN "abandoned" ELSE @]
             /\ UNCHANGED <<task, order, published, req>>
    <3>1. CASE creator[o] = "publishing"
      <4>1. AbandonCreation(o)
        BY <2>2, <3>1 DEF AbandonCreation
      <4>2. QED
        BY <2>1, <4>1
    <3>2. CASE creator[o] # "publishing"
      <4>1. creator' = creator
        BY <2>2, <3>2 DEF EInv, IInv, TypeOK
      <4>2. QED
        BY <2>2, <4>1 DEF vars
    <3>3. QED
      BY <3>1, <3>2
  <2>3. QED
    BY <1>2, <2>1, <2>2 DEF CreationStops
<1>3. ASSUME NEW r \in Requests, RequestStep(r) PROVE Next
  BY <1>3 DEF RequestStep, Next
<1>4. CASE \/ \E w \in Writers : Insert(w) \/ InsertFails(w)
           \/ \E r \in Requests : WriterDies(r)
  BY <1>4 DEF Insert, InsertFails, WriterDies
<1>5. CASE UNCHANGED eventVars
  BY <1>5 DEF eventVars
<1>6. QED
  BY <1>1, <1>2, <1>3, <1>4, <1>5 DEF EventsNext

\* Every step of the service and of its writers preserves the invariant.
LEMMA EventsNextInv == EInv /\ [EventsNext]_eventVars => EInv'
<1> SUFFICES ASSUME EInv, [EventsNext]_eventVars PROVE EInv'
  OBVIOUS
<1>1. IInv'
  BY EventsImplement, NextIInv DEF EInv
<1>2. CASE EventsNext
  <2>1. LogInv'
    BY <1>2, CreationStepInv, CreationStopsInv, RequestStepInv, WriterStepInv DEF EventsNext
  <2>2. QED
    BY <1>1, <2>1 DEF EInv
<1>3. CASE UNCHANGED eventVars
  <2>1. UNCHANGED <<task, order, creator, req, outbox, logVars>>
    BY <1>3 DEF eventVars, vars, logVars
  <2>2. LogOK' /\ Shrinks
    BY <2>1, QuietFacts, QuietLog DEF EInv, LogInv
  <2>3. LogInv'
    BY <2>1, <2>2, QuietWriters DEF EInv, LogInv, WritersQuiet, CountedCompletes
  <2>4. QED
    BY <1>1, <2>3 DEF EInv
<1>4. QED
  BY <1>2, <1>3

\* The log and the outboxes agree with the database in every reachable state.
THEOREM EventsInvariance == EventsSpec => []EInv
  BY EventsInitInv, EventsNextInv, PTL DEF EventsSpec

\* Writing events, failing to and dying while writing never makes the service do
\* what it does not do without its log: all that is proved of Fulfillment holds.
THEOREM EventsImplementFulfillment == EventsSpec => Spec
<1>1. EventsInit => Init
  BY DEF EventsInit
<1>2. QED
  BY <1>1, EventsImplement, EventsInvariance, PTL DEF EventsSpec, Spec

\* No event is written twice, whoever announces it.
THEOREM NoEventTwice == EventsSpec => []AnnouncedOnce
<1>1. EInv => AnnouncedOnce
  BY DEF EInv, LogInv, LogOK, Once, AnnouncedOnce
<1>2. QED
  BY <1>1, EventsInvariance, PTL

\* What the log tells is in the database, and stays there.
THEOREM LogTellsTheTruth == EventsSpec => []LogIsTrue
<1>1. ASSUME EInv PROVE LogIsTrue
  <2>1. \A e \in Basic : e \in Known => Happened(e)
    BY <1>1 DEF EInv, LogInv, LogOK, BasicKnown
  <2>2. \A o \in Orders : Event("OrderReadyForPickup", o) \in Known => order[o] = "ready_for_pickup"
    <3> SUFFICES ASSUME NEW o \in Orders, Event("OrderReadyForPickup", o) \in Known
                 PROVE  order[o] = "ready_for_pickup"
      OBVIOUS
    <3>1. Happened(Event("OrderReadyForPickup", o))
      BY <2>1, EventShape DEF OrderEvents
    <3>2. QED
      BY <3>1, EventEq DEF Happened
  <2>3. ASSUME NEW t \in Tasks, NEW a \in TaskEvents, Event(a, t) \in Known
        PROVE  Happened(Event(a, t)) /\ Event(a, t).type = a /\ Event(a, t).of = t
    BY <2>1, <2>3, EventShape, EventEq
  <2>4. ASSUME NEW t \in Tasks
        PROVE  /\ Event("TaskCompleted", t) \in Known => task[t].status = "done"
               /\ Event("TaskStarted", t) \in Known => task[t].status \in {"in_progress", "done"}
               /\ Event("TaskDisplayed", t) \in Known =>
                    task[t].status \in {"displayed", "in_progress", "done"}
               /\ Event("TaskDispatchFailed", t) \in Known => task[t].status = "failed"
    BY <2>3 DEF Happened, TaskEvents
  <2>5. QED
    BY <2>2, <2>4 DEF LogIsTrue
<1>2. QED
  BY <1>1, EventsInvariance, PTL

\* What is in the database was announced; an insert that failed was reported.
THEOREM LogTellsEverything == EventsSpec => []LogIsComplete
<1>1. ASSUME EInv PROVE LogIsComplete
  <2>1. /\ \A e \in Basic : Happened(e) => e \in Known
        /\ \A e \in EventSet : e \in failed /\ ~IsAudit(e) => Report(e) \in Known
        /\ failed \subseteq EventSet
    BY <1>1 DEF EInv, LogInv, LogOK, BasicKnown, FailureKnown
  <2>2. ASSUME NEW o \in Orders
        PROVE  /\ order[o] # "absent" => Range(OrderCreatedEvents(o)) \subseteq Known
               /\ order[o] = "ready_for_pickup" => Event("OrderReadyForPickup", o) \in Known
    <3>1. ASSUME NEW a \in OrderEvents, Happened(Event(a, o)) PROVE Event(a, o) \in Known
      BY <2>1, <3>1, EventShape
    <3>2. /\ order[o] # "absent" => /\ Happened(Event("OrderCreated", o))
                                    /\ Happened(Event("KitchenTasksCreated", o))
          /\ order[o] = "ready_for_pickup" => Happened(Event("OrderReadyForPickup", o))
      BY EventEq DEF Happened
    <3>3. Range(OrderCreatedEvents(o)) = {Event("OrderCreated", o), Event("KitchenTasksCreated", o)}
      BY ShortLists DEF OrderCreatedEvents
    <3>4. QED
      BY <3>1, <3>2, <3>3 DEF OrderEvents
  <2>3. ASSUME NEW t \in Tasks
        PROVE  /\ creator[OrderOf[t]] = "finished" => Event("TaskQueued", t) \in Known
               /\ task[t].status \in {"displayed", "in_progress", "done"} =>
                    Event("TaskDisplayed", t) \in Known
               /\ task[t].status \in {"in_progress", "done"} => Event("TaskStarted", t) \in Known
               /\ task[t].status = "done" => Event("TaskCompleted", t) \in Known
               /\ task[t].status = "failed" => Event("DispatchFailed", t) \in Known
    <3>1. ASSUME NEW a \in TaskEvents \union {"DispatchFailed"}, Happened(Event(a, t))
          PROVE  Event(a, t) \in Known
      BY <2>1, <3>1, EventShape
    <3>2. /\ creator[OrderOf[t]] = "finished" => Happened(Event("TaskQueued", t))
          /\ task[t].status \in {"displayed", "in_progress", "done"} =>
               Happened(Event("TaskDisplayed", t))
          /\ task[t].status \in {"in_progress", "done"} => Happened(Event("TaskStarted", t))
          /\ task[t].status = "done" => Happened(Event("TaskCompleted", t))
          /\ task[t].status = "failed" => Happened(Event("DispatchFailed", t))
      BY EventEq DEF Happened
    <3>3. QED
      BY <3>1, <3>2 DEF TaskEvents
  <2>4. \A e \in failed : IsAudit(e) \/ Event("MongoEventWriteFailed", e) \in Known
    BY <2>1 DEF Report
  <2>5. QED
    BY <2>2, <2>3, <2>4 DEF LogIsComplete
<1>2. QED
  BY <1>1, EventsInvariance, PTL

\* The events of an order are written, lost or given up before the first event of
\* one of its tasks is stored.
THEOREM OrderIsToldFirst == EventsSpec => []OrderEventsFirst
<1>1. ASSUME EInv PROVE OrderEventsFirst
  <2> SUFFICES ASSUME NEW t \in Tasks, NEW a \in TaskEvents, Event(a, t) \in log
               PROVE  Range(OrderCreatedEvents(OrderOf[t])) \intersect Pending = {}
    BY DEF OrderEventsFirst
  <2>1. IInv /\ LogInv /\ OrderOf[t] \in Orders
    BY <1>1, OrderOfType DEF EInv
  <2>2. Happened(Event(a, t))
    BY <2>1, EventShape DEF LogInv, LogOK, BasicKnown, Known
  <2>3. creator[OrderOf[t]] = "finished" \/ task[t].status \notin {"absent", "created"}
    BY <2>2, EventEq DEF Happened, TaskEvents
  <2>4. creator[OrderOf[t]] # "publishing"
    BY <2>1, <2>3 DEF IInv, UnqueuedTasksWait
  <2>5. QED
    BY <2>1, <2>4 DEF LogInv, OrderEventsOwn, Pending
<1>2. QED
  BY <1>1, EventsInvariance, PTL

-----------------------------------------------------------------------------
(* The smoke test                                                          *)
(*                                                                         *)
(* It reads the order and its tasks at different moments, yet its verdict  *)
(* can be relied on for any order: the script's memory is never ahead of   *)
(* the database, because ready_for_pickup is final, and once the order is  *)
(* ready every list of tasks read afterwards shows them done.              *)

\* What the script remembers of the order still holds.
MemoryStands ==
  /\ smoke.pc \notin {"ordering", "failed"} => order[DemoOrder] # "absent"
  /\ smoke.last_order = "ready_for_pickup" => order[DemoOrder] = "ready_for_pickup"
  /\ smoke.pc \in {"succeeded", "not_observed"} => smoke.last_order = "ready_for_pickup"
  /\ /\ smoke.pc = "tasks_read" /\ smoke.last_order = "ready_for_pickup"
     /\ ~smoke.tasks_unread
     => smoke.observed_displayed /\ smoke.observed_progress_or_done

SmokeInv ==
  /\ smoke \in Smoke
  /\ MemoryStands
  /\ smoke.pc = "not_observed" => smoke.tasks_unread

\* The service goes on as specified while it is watched.
LEMMA SmokeImplements == SmokeSpec => Spec
<1>1. SmokeInit => Init
  BY DEF SmokeInit
<1>2. [SmokeNext]_smokeVars => [Next]_vars
  BY DEF SmokeNext, smokeVars, vars, Ordered, ReadOrder, ReadTasks, Judge, Raises
<1>3. QED
  BY <1>1, <1>2, PTL DEF SmokeSpec, Spec

\* An order never disappears, and one that is ready stays ready.
LEMMA ReadyIsFinal ==
  ASSUME IInv, [Next]_vars, NEW o \in Orders
  PROVE  /\ order[o] # "absent" => order'[o] # "absent"
         /\ order[o] = "ready_for_pickup" => order'[o] = "ready_for_pickup"
<1>1. \/ UNCHANGED <<[t \in Tasks |-> task[t].status], order>>
      \/ Lifecycle!LifecycleNext
  BY NextRefines DEF Lifecycle!lifecycleVars
<1>2. ASSUME NEW t \in Tasks, Lifecycle!Start(t)
      PROVE  /\ order[OrderOf[t]] # "ready_for_pickup"
             /\ order' = [order EXCEPT ![OrderOf[t]] = "cooking"]
  BY <1>2 DEF Lifecycle!Start, IInv, ReadyMeansAllDone
<1>3. QED
  BY <1>1, <1>2, OrderOfType DEF IInv, TypeOK, Lifecycle!LifecycleNext, Lifecycle!Create,
     Lifecycle!Queue, Lifecycle!Dispatch, Lifecycle!GiveUp, Lifecycle!Finish

\* All tasks of a ready order are listed as done.
LEMMA ReadyStatuses ==
  ASSUME IInv, TasksOf(DemoOrder) # {}, order[DemoOrder] = "ready_for_pickup"
  PROVE  Statuses = {"done"}
  BY DEF IInv, ReadyMeansAllDone, Statuses, TasksOf

\* Every step of the service and of the script keeps the memory sound.
LEMMA NextSmokeInv ==
  ASSUME TasksOf(DemoOrder) # {}, IInv, SmokeInv, [SmokeNext]_smokeVars
  PROVE  SmokeInv'
<1>1. CASE UNCHANGED smoke /\ [Next]_vars
  BY <1>1, ReadyIsFinal, DemoOrderType DEF SmokeInv, MemoryStands
<1>2. CASE Ordered
  BY <1>2, DemoOrderType DEF Ordered, IInv, CreatedTogether, SmokeInv, MemoryStands, Smoke, vars
<1>3. CASE ReadOrder
  <2>1. order[DemoOrder] \in OrderStatus
    BY <1>3, DemoOrderType DEF ReadOrder, IInv, TypeOK, SmokeInv, MemoryStands
  <2>2. QED
    BY <1>3, <2>1 DEF ReadOrder, SmokeInv, MemoryStands, Smoke, vars
<1>4. CASE ReadTasks
  <2>1. order[DemoOrder] = "ready_for_pickup" => Statuses = {"done"}
    BY ReadyStatuses
  <2>2. QED
    BY <1>4, <2>1 DEF ReadTasks, SmokeInv, MemoryStands, Smoke, vars
<1>5. CASE Judge
  <2> DEFINE ready == smoke.last_order = "ready_for_pickup"
             seen == smoke.observed_displayed /\ smoke.observed_progress_or_done
             verdict == IF ~ready THEN "polling" ELSE IF seen THEN "succeeded" ELSE "not_observed"
  <2>1. smoke' = [smoke EXCEPT !.pc = verdict]
    BY <1>5 DEF Judge
  <2>2. smoke \in Smoke
    BY DEF SmokeInv
  <2>a. smoke'.pc = verdict
    BY <2>1, <2>2 DEF Smoke
  <2>3. \/ ~ready /\ smoke'.pc = "polling"
        \/ ready /\ seen /\ smoke'.pc = "succeeded"
        \/ ready /\ ~seen /\ smoke'.pc = "not_observed"
    BY <2>a
  <2>4. smoke' \in Smoke
    BY <2>1, <2>2, <2>3 DEF Smoke
  <2>5. /\ smoke'.last_order = smoke.last_order
        /\ smoke'.tasks_unread = smoke.tasks_unread
    BY <2>1, <2>2 DEF Smoke
  <2>6. ready /\ ~seen => smoke.tasks_unread
    BY <1>5 DEF Judge, SmokeInv, MemoryStands
  <2>7. smoke'.pc = "not_observed" => smoke'.tasks_unread
    BY <2>3, <2>5, <2>6
  <2>8. MemoryStands'
    BY <1>5, <2>3, <2>5 DEF Judge, SmokeInv, MemoryStands, vars
  <2>9. QED
    BY <2>4, <2>7, <2>8 DEF SmokeInv
<1>6. CASE Raises
  BY <1>6 DEF Raises, SmokeInv, MemoryStands, Smoke, vars
<1>7. QED
  BY <1>1, <1>2, <1>3, <1>4, <1>5, <1>6 DEF SmokeNext, smokeVars, vars

\* "Demo succeeded" means that every task of the order is done and the order is
\* ready; progress goes unobserved only when the tasks could not be listed.
\* The order has a task because a line without recipe steps is refused.
THEOREM VerdictIsReliable ==
  ASSUME TasksOf(DemoOrder) # {}
  PROVE  SmokeSpec => []VerdictIsSound
<1>1. SmokeInit => SmokeInv
  BY DEF SmokeInit, SmokeInv, MemoryStands, Smoke
<1>2. IInv /\ SmokeInv /\ [SmokeNext]_smokeVars => SmokeInv'
  BY NextSmokeInv
<1>3. IInv /\ SmokeInv => VerdictIsSound
  BY ReadyStatuses DEF SmokeInv, MemoryStands, VerdictIsSound
<1>4. QED
  BY SmokeImplements, Invariance, <1>1, <1>2, <1>3, PTL DEF SmokeSpec
=============================================================================
