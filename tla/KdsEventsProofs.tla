--------------------------- MODULE KdsEventsProofs ---------------------------
(***************************************************************************)
(* Proofs about KdsEvents for any stations, tasks, workers and requests.   *)
(*                                                                         *)
(* The log is compared with rows that other requests change between two    *)
(* inserts.  A delivery is announced by the one request that inserted the  *)
(* row, alone in its outbox; a claim is announced after its request has    *)
(* stopped being able to take it back, which is what keeps announcement    *)
(* and compensation apart.                                                 *)
(***************************************************************************)
EXTENDS KdsEvents, KdsProofs

DisplayedEvent(t) == Event("KdsTaskDisplayed", t)
ClaimedEvent(t) == Event("KdsTaskClaimed", t)

EventTypes == Announcements \union AuditEvents \union
              {"KdsTaskClaimRejected", "StationBusySlotOccupied", "StationBusySlotReleased"}
Events == [type : EventTypes, task : Tasks]
Log == Pending \union settled

\* A claim of t is committed and not answered.
UnderWay(t) == \E r \in Requests : req[r].pc \in ClaimPcs /\ req[r].task = t

\* The announcement of a delivery is the only event of one outbox.
DisplayAlone ==
  \A r \in Requests, t \in Tasks : DisplayedEvent(t) \in Range(outbox[r]) =>
    /\ outbox[r] = <<DisplayedEvent(t)>>
    /\ DisplayedEvent(t) \notin settled
    /\ \A q \in Requests \ {r} : DisplayedEvent(t) \notin Range(outbox[q])

DisplayLogged ==
  \A t \in Tasks : kds[t].status # "absent" <=> DisplayedEvent(t) \in Log

\* A claim is announced, or still under way.
ClaimLogged ==
  \A t \in Tasks : kds[t].status = "claimed" => ClaimedEvent(t) \in Log \/ UnderWay(t)

\* What is announced is beyond the reach of compensations.
ClaimSettled ==
  \A t \in Tasks : ClaimedEvent(t) \in Log =>
    kds[t].status \in {"claimed", "completed"} /\ ~UnderWay(t)

\* A completion that passed validation has a row.
CompletionKnown ==
  \A r \in Requests : req[r].pc \in CompletePcs => kds[req[r].task].status # "absent"

OutboxOK == outbox \in [Requests -> Seq(Events)]
LogInv ==
  /\ OutboxOK /\ CompletionKnown
  /\ DisplayAlone /\ DisplayLogged /\ ClaimLogged /\ ClaimSettled

\* The inductive invariant.
EInv == IInv /\ ClaimInv /\ LogInv

-----------------------------------------------------------------------------
(* Sequences of events *)

\* What short outboxes hold.
LEMMA ShortRanges ==
  /\ Range(<<>>) = {}
  /\ \A e : Range(<<e>>) = {e}
  /\ \A e, f : Range(<<e, f>>) = {e, f}
<1>1. Range(<<>>) = {}
  BY DEF Range
<1>2. ASSUME NEW e PROVE Range(<<e>>) = {e}
  <2>1. DOMAIN <<e>> = {1} /\ <<e>>[1] = e
    OBVIOUS
  <2>2. QED
    BY <2>1 DEF Range
<1>3. ASSUME NEW e, NEW f PROVE Range(<<e, f>>) = {e, f}
  <2>1. DOMAIN <<e, f>> = {1, 2} /\ <<e, f>>[1] = e /\ <<e, f>>[2] = f
    OBVIOUS
  <2>2. QED
    BY <2>1 DEF Range
<1>4. QED
  BY <1>1, <1>2, <1>3

\* An outbox holds its first event and the rest.
LEMMA HeadRange ==
  ASSUME NEW S, NEW s \in Seq(S), s # <<>>
  PROVE  Head(s) \in S /\ Tail(s) \in Seq(S) /\ Range(s) = {Head(s)} \union Range(Tail(s))
<1>1. Head(s) \in S /\ Tail(s) \in Seq(S)
  OBVIOUS
<1>2. /\ Len(s) \in Nat \ {0} /\ DOMAIN s = 1..Len(s) /\ Head(s) = s[1]
      /\ DOMAIN Tail(s) = 1..(Len(s) - 1)
      /\ \A i \in 1..(Len(s) - 1) : Tail(s)[i] = s[i + 1]
  OBVIOUS
<1>3. ASSUME NEW i \in 1..Len(s) PROVE s[i] \in {Head(s)} \union Range(Tail(s))
  <2>1. CASE i = 1
    BY <1>2, <2>1
  <2>2. CASE i # 1
    <3>1. i - 1 \in DOMAIN Tail(s) /\ Tail(s)[i - 1] = s[i]
      BY <1>2, <2>2
    <3>2. QED
      BY <3>1 DEF Range
  <2>3. QED
    BY <2>1, <2>2
<1>4. ASSUME NEW i \in DOMAIN Tail(s) PROVE Tail(s)[i] \in Range(s)
  <2>1. i + 1 \in DOMAIN s /\ Tail(s)[i] = s[i + 1]
    BY <1>2
  <2>2. QED
    BY <2>1 DEF Range
<1>5. Head(s) \in Range(s)
  <2>1. 1 \in DOMAIN s
    BY <1>2
  <2>2. QED
    BY <1>2, <2>1 DEF Range
<1>6. Range(s) \subseteq {Head(s)} \union Range(Tail(s))
  BY <1>2, <1>3 DEF Range
<1>7. Range(Tail(s)) \subseteq Range(s)
  BY <1>4 DEF Range
<1>8. QED
  BY <1>1, <1>5, <1>6, <1>7

\* A report in front of an outbox.
LEMMA ReportRange ==
  ASSUME NEW S, NEW s \in Seq(S), NEW e \in S
  PROVE  <<e>> \o s \in Seq(S) /\ Range(<<e>> \o s) = {e} \union Range(s)
<1>1. <<e>> \o s \in Seq(S) /\ <<e>> \o s # <<>>
  OBVIOUS
<1>2. Head(<<e>> \o s) = e /\ Tail(<<e>> \o s) = s
  OBVIOUS
<1>3. QED
  BY <1>1, <1>2, HeadRange

\* Announcements are told apart by their kind and their task.
LEMMA EventShape ==
  /\ \A type \in EventTypes, t \in Tasks : Event(type, t) \in Events
  /\ \A type \in EventTypes, t, x \in Tasks :
       /\ DisplayedEvent(x) = Event(type, t) <=> type = "KdsTaskDisplayed" /\ x = t
       /\ ClaimedEvent(x) = Event(type, t) <=> type = "KdsTaskClaimed" /\ x = t
  /\ \A t \in Tasks : /\ DisplayedEvent(t).type = "KdsTaskDisplayed"
                      /\ ClaimedEvent(t).type = "KdsTaskClaimed"
                      /\ DisplayedEvent(t).type \in Announcements
                      /\ ClaimedEvent(t).type \in Announcements
  BY DEF Event, Events, EventTypes, DisplayedEvent, ClaimedEvent, Announcements

\* One request's outbox changes.
LEMMA OutboxStep ==
  ASSUME OutboxOK, NEW r \in Requests, NEW box \in Seq(Events), outbox' = [outbox EXCEPT ![r] = box]
  PROVE  /\ OutboxOK' /\ outbox'[r] = box
         /\ \A q \in Requests \ {r} : outbox'[q] = outbox[q]
         /\ \A a : a \in Pending' <=>
              a \in Range(box) \/ \E q \in Requests \ {r} : a \in Range(outbox[q])
         /\ \A a : a \in Pending <=>
              a \in Range(outbox[r]) \/ \E q \in Requests \ {r} : a \in Range(outbox[q])
<1>1. /\ OutboxOK' /\ outbox'[r] = box
      /\ \A q \in Requests \ {r} : outbox'[q] = outbox[q]
  BY DEF OutboxOK
<1>2. \A a : a \in Pending' <=> \E q \in Requests : a \in Range(outbox'[q])
  BY DEF Pending
<1>3. \A a : a \in Pending <=> \E q \in Requests : a \in Range(outbox[q])
  BY DEF Pending
<1>4. QED
  BY <1>1, <1>2, <1>3

-----------------------------------------------------------------------------
(* Steps that write *)

\* What a step makes its request write.
LEMMA WrittenEvents ==
  ASSUME TypeOK, NEW r \in Requests, req[r].pc # "idle"
  PROVE  /\ Written(r) \in Seq(Events)
         /\ \A t \in Tasks : DisplayedEvent(t) \in Range(Written(r)) =>
              /\ req[r].pc = "deliver_insert" /\ kds' # kds /\ t = req[r].task
              /\ Written(r) = <<DisplayedEvent(t)>>
         /\ req[r].pc = "deliver_insert" /\ kds' # kds =>
              DisplayedEvent(req[r].task) \in Range(Written(r))
         /\ \A t \in Tasks : ClaimedEvent(t) \in Range(Written(r)) <=>
              req[r].pc = "start_call" /\ req'[r] = Idle /\ t = req[r].task
<1>1. PICK t \in Tasks : t = req[r].task
  BY RequestTask
<1>2. ASSUME NEW type \in EventTypes, NEW x \in Tasks
      PROVE  /\ Event(type, t) \in Events
             /\ DisplayedEvent(x) = Event(type, t) <=> type = "KdsTaskDisplayed" /\ x = t
             /\ ClaimedEvent(x) = Event(type, t) <=> type = "KdsTaskClaimed" /\ x = t
  BY EventShape
<1>3. CASE req[r].pc = "deliver_insert" /\ kds' # kds
  <2>1. Written(r) = <<Event("KdsTaskDisplayed", t)>>
    BY <1>1, <1>3 DEF Written
  <2>2. Range(Written(r)) = {Event("KdsTaskDisplayed", t)}
    BY <2>1, ShortRanges
  <2>3. /\ Event("KdsTaskDisplayed", t) \in Events
        /\ \A x \in Tasks : /\ DisplayedEvent(x) = Event("KdsTaskDisplayed", t) <=> x = t
                            /\ ClaimedEvent(x) # Event("KdsTaskDisplayed", t)
    BY <1>2 DEF EventTypes, Announcements, AuditEvents
  <2>4. Written(r) \in Seq(Events)
    BY <2>1, <2>3
  <2>5. QED
    BY <1>1, <1>3, <2>1, <2>2, <2>3, <2>4
<1>4. CASE req[r].pc = "start_call" /\ req'[r] = Idle
  <2>1. Written(r) = <<Event("KdsTaskClaimed", t), Event("StationBusySlotOccupied", t)>>
    BY <1>1, <1>4 DEF Written
  <2>2. Range(Written(r)) = {Event("KdsTaskClaimed", t), Event("StationBusySlotOccupied", t)}
    BY <2>1, ShortRanges
  <2>3. /\ Event("KdsTaskClaimed", t) \in Events
        /\ \A x \in Tasks : /\ DisplayedEvent(x) # Event("KdsTaskClaimed", t)
                            /\ ClaimedEvent(x) = Event("KdsTaskClaimed", t) <=> x = t
        /\ Event("StationBusySlotOccupied", t) \in Events
        /\ \A x \in Tasks : /\ DisplayedEvent(x) # Event("StationBusySlotOccupied", t)
                            /\ ClaimedEvent(x) # Event("StationBusySlotOccupied", t)
    BY <1>2 DEF EventTypes, Announcements, AuditEvents
  <2>4. Written(r) \in Seq(Events)
    BY <2>1, <2>3
  <2>5. QED
    BY <1>1, <1>4, <2>1, <2>2, <2>3, <2>4
<1>5. CASE \/ req[r].pc = "start_call" /\ req'[r] # Idle
           \/ req[r].pc = "complete_call" /\ req'[r] = Idle
  <2>1. Written(r) = <<Event("FulfillmentCallbackFailed", t)>>
    BY <1>1, <1>5 DEF Written
  <2>2. Range(Written(r)) = {Event("FulfillmentCallbackFailed", t)}
    BY <2>1, ShortRanges
  <2>3. /\ Event("FulfillmentCallbackFailed", t) \in Events
        /\ \A x \in Tasks : /\ DisplayedEvent(x) # Event("FulfillmentCallbackFailed", t)
                            /\ ClaimedEvent(x) # Event("FulfillmentCallbackFailed", t)
    BY <1>2 DEF EventTypes, Announcements, AuditEvents
  <2>4. Written(r) \in Seq(Events)
    BY <2>1, <2>3
  <2>5. QED
    BY <1>1, <1>5, <2>1, <2>2, <2>3, <2>4
<1>6. CASE req[r].pc = "comp_station" /\ req[r].seen_row.status = "claimed"
  <2>1. Written(r) = <<Event("KdsTaskClaimRejected", t), Event("StationBusySlotReleased", t)>>
    BY <1>1, <1>6 DEF Written
  <2>2. Range(Written(r)) = {Event("KdsTaskClaimRejected", t), Event("StationBusySlotReleased", t)}
    BY <2>1, ShortRanges
  <2>3. /\ Event("KdsTaskClaimRejected", t) \in Events
        /\ \A x \in Tasks : /\ DisplayedEvent(x) # Event("KdsTaskClaimRejected", t)
                            /\ ClaimedEvent(x) # Event("KdsTaskClaimRejected", t)
        /\ Event("StationBusySlotReleased", t) \in Events
        /\ \A x \in Tasks : /\ DisplayedEvent(x) # Event("StationBusySlotReleased", t)
                            /\ ClaimedEvent(x) # Event("StationBusySlotReleased", t)
    BY <1>2 DEF EventTypes, Announcements, AuditEvents
  <2>4. Written(r) \in Seq(Events)
    BY <2>1, <2>3
  <2>5. QED
    BY <1>1, <1>6, <2>1, <2>2, <2>3, <2>4
<1>7. CASE req[r].pc = "final_task"
  <2>1. Written(r) = <<Event("KdsTaskCompleted", t), Event("StationBusySlotReleased", t)>>
    BY <1>1, <1>7 DEF Written
  <2>2. Range(Written(r)) = {Event("KdsTaskCompleted", t), Event("StationBusySlotReleased", t)}
    BY <2>1, ShortRanges
  <2>3. /\ Event("KdsTaskCompleted", t) \in Events
        /\ \A x \in Tasks : /\ DisplayedEvent(x) # Event("KdsTaskCompleted", t)
                            /\ ClaimedEvent(x) # Event("KdsTaskCompleted", t)
        /\ Event("StationBusySlotReleased", t) \in Events
        /\ \A x \in Tasks : /\ DisplayedEvent(x) # Event("StationBusySlotReleased", t)
                            /\ ClaimedEvent(x) # Event("StationBusySlotReleased", t)
    BY <1>2 DEF EventTypes, Announcements, AuditEvents
  <2>4. Written(r) \in Seq(Events)
    BY <2>1, <2>3
  <2>5. QED
    BY <1>1, <1>7, <2>1, <2>2, <2>3, <2>4
<1>8. CASE /\ ~(req[r].pc = "deliver_insert" /\ kds' # kds) /\ req[r].pc # "start_call"
           /\ ~(req[r].pc = "complete_call" /\ req'[r] = Idle) /\ req[r].pc # "final_task"
           /\ ~(req[r].pc = "comp_station" /\ req[r].seen_row.status = "claimed")
  <2>1. Written(r) = <<>>
    BY <1>8 DEF Written
  <2>2. QED
    BY <1>8, <2>1, ShortRanges
<1>9. QED
  BY <1>3, <1>4, <1>5, <1>6, <1>7, <1>8

\* Rows appear by deliveries and never disappear.
LEMMA RowsAppear ==
  ASSUME EInv, NEW r \in Requests, Kind(r), NEW t \in Tasks
  PROVE  kds'[t].status # "absent" <=>
           kds[t].status # "absent" \/ (req[r].pc = "deliver_insert" /\ kds' # kds /\ t = req[r].task)
<1> TypeOK
  BY DEF EInv, IInv
<1>1. CASE t # req[r].task
  BY <1>1, KindBasics
<1>2. CASE t = req[r].task
  <2>1. kds[t] \in Row
    BY DEF TypeOK
  <2>2. CASE Shows(r)
    BY <1>2, <2>2 DEF Shows, Writes, TypeOK
  <2>3. CASE Claims(r)
    <3>1. kds'[t] = [kds[t] EXCEPT !.status = "claimed", !.claimed_by = req[r].worker]
      BY <1>2, <2>3 DEF Claims, Writes, TypeOK
    <3>2. QED
      BY <1>2, <2>1, <2>3, <3>1 DEF Row, Claims
  <2>4. CASE Undoes(r)
    <3>1. kds'[t] = [kds[t] EXCEPT !.status = "displayed", !.claimed_by = NULL]
      BY <1>2, <2>4 DEF Undoes, Writes, TypeOK
    <3>2. kds[t].status # "absent"
      BY <1>2, <2>4 DEF Undoes, EInv, ClaimInv, ClaimStands, ClaimPcs
    <3>3. QED
      BY <1>2, <2>1, <2>4, <3>1, <3>2 DEF Row, Undoes
  <2>5. CASE Finishes(r)
    <3>1. kds'[t] = [kds[t] EXCEPT !.status = "completed"]
      BY <1>2, <2>5 DEF Finishes, Writes, TypeOK
    <3>2. kds[t].status # "absent"
      BY <1>2, <2>5 DEF Finishes, EInv, LogInv, CompletionKnown, CompletePcs
    <3>3. QED
      BY <1>2, <2>1, <2>5, <3>1, <3>2 DEF Row, Finishes
  <2>6. CASE Counts(r) \/ Advances(r) \/ Stops(r)
    BY <2>6 DEF Counts, Advances, Stops
  <2>7. QED
    BY <2>2, <2>3, <2>4, <2>5, <2>6 DEF Kind
<1>3. QED
  BY <1>1, <1>2

-----------------------------------------------------------------------------
(* Steps of the log *)

\* The log gains the announcements in news, and no other.
Grows(news) ==
  \A t \in Tasks :
    /\ DisplayedEvent(t) \in Log' <=> DisplayedEvent(t) \in Log \union news
    /\ ClaimedEvent(t) \in Log' <=> ClaimedEvent(t) \in Log \union news

\* One insert moves an announcement from its outbox to the settled ones.
LEMMA InsertLog ==
  ASSUME OutboxOK, DisplayAlone, NEW r \in Requests, Insert(r)
  PROVE  OutboxOK' /\ DisplayAlone' /\ Grows({})
<1> DEFINE e == Head(outbox[r])
           rest == Tail(outbox[r])
<1>1. /\ outbox[r] \in Seq(Events) /\ outbox[r] # <<>>
      /\ settled' = settled \union Remembered({e})
  BY DEF Insert, OutboxOK
<1>2. e \in Events /\ rest \in Seq(Events) /\ Range(outbox[r]) = {e} \union Range(rest)
  BY <1>1, HeadRange
<1>3. PICK box \in Seq(Events) :
        /\ outbox' = [outbox EXCEPT ![r] = box]
        /\ \A t \in Tasks : /\ DisplayedEvent(t) \in Range(box) <=> DisplayedEvent(t) \in Range(rest)
                            /\ ClaimedEvent(t) \in Range(box) <=> ClaimedEvent(t) \in Range(rest)
  <2>1. CASE outbox' = [outbox EXCEPT ![r] = rest]
    BY <1>2, <2>1
  <2>2. CASE outbox' = [outbox EXCEPT ![r] = <<Event("MongoEventWriteFailed", e.task)>> \o rest]
    <3>1. PICK t \in Tasks : t = e.task
      BY <1>2 DEF Events
    <3>2. /\ Event("MongoEventWriteFailed", t) \in Events
          /\ \A x \in Tasks : /\ DisplayedEvent(x) # Event("MongoEventWriteFailed", t)
                              /\ ClaimedEvent(x) # Event("MongoEventWriteFailed", t)
      BY EventShape DEF EventTypes, AuditEvents
    <3> DEFINE box == <<Event("MongoEventWriteFailed", t)>> \o rest
    <3>3. /\ box \in Seq(Events)
          /\ Range(box) = {Event("MongoEventWriteFailed", t)} \union Range(rest)
      BY <1>2, <3>2, ReportRange
    <3>4. outbox' = [outbox EXCEPT ![r] = box]
      BY <2>2, <3>1
    <3> HIDE DEF box, rest
    <3>5. QED
      BY <3>2, <3>3, <3>4
  <2>3. QED
    BY <1>1, <2>1, <2>2 DEF Insert, AfterFailure
<1>4. /\ OutboxOK' /\ outbox'[r] = box /\ \A q \in Requests \ {r} : outbox'[q] = outbox[q]
      /\ \A a : a \in Pending' <=>
           a \in Range(box) \/ \E q \in Requests \ {r} : a \in Range(outbox[q])
      /\ \A a : a \in Pending <=>
           a \in Range(outbox[r]) \/ \E q \in Requests \ {r} : a \in Range(outbox[q])
  BY <1>3, OutboxStep
<1>5. \A t \in Tasks : /\ DisplayedEvent(t) \in settled' <=>
                            DisplayedEvent(t) \in settled \/ DisplayedEvent(t) = e
                       /\ ClaimedEvent(t) \in settled' <=>
                            ClaimedEvent(t) \in settled \/ ClaimedEvent(t) = e
  BY <1>1, EventShape DEF Remembered
<1> HIDE DEF e, rest
<1>6. Grows({})
  BY <1>2, <1>3, <1>4, <1>5 DEF Grows, Log
<1>7. DisplayAlone'
  <2> SUFFICES ASSUME NEW q \in Requests, NEW t \in Tasks, DisplayedEvent(t) \in Range(outbox'[q])
               PROVE  /\ outbox'[q] = <<DisplayedEvent(t)>>
                      /\ DisplayedEvent(t) \notin settled'
                      /\ \A p \in Requests \ {q} : DisplayedEvent(t) \notin Range(outbox'[p])
    BY DEF DisplayAlone, DisplayedEvent, Event
  <2>1. q # r
    <3> SUFFICES ASSUME q = r PROVE FALSE
      OBVIOUS
    <3>1. DisplayedEvent(t) \in Range(rest)
      BY <1>3, <1>4
    <3>2. outbox[r] = <<DisplayedEvent(t)>>
      BY <1>2, <3>1 DEF DisplayAlone
    <3>3. rest = <<>>
      BY <3>2 DEF rest
    <3>4. QED
      BY <3>1, <3>3, ShortRanges
  <2>2. /\ outbox[q] = <<DisplayedEvent(t)>> /\ DisplayedEvent(t) \notin settled
        /\ \A p \in Requests \ {q} : DisplayedEvent(t) \notin Range(outbox[p])
    BY <1>4, <2>1 DEF DisplayAlone
  <2>3. DisplayedEvent(t) # e /\ DisplayedEvent(t) \notin Range(box)
    BY <1>2, <1>3, <2>1, <2>2
  <2>4. QED
    BY <1>4, <1>5, <2>1, <2>2, <2>3
<1>8. QED
  BY <1>4, <1>6, <1>7

\* A step that makes its request write.
LEMMA StepLog ==
  ASSUME EInv, NEW r \in Requests, Step(r)
  PROVE  OutboxOK' /\ DisplayAlone' /\ Grows(Range(Written(r)))
<1> TypeOK /\ LogInv
  BY DEF EInv, IInv
<1>1. /\ outbox[r] = <<>> /\ outbox' = [outbox EXCEPT ![r] = Written(r)] /\ settled' = settled
      /\ Kind(r)
  BY RequestStep DEF Step
<1>2. req[r].pc # "idle"
  BY <1>1, KindBasics
<1>3. Written(r) \in Seq(Events)
  BY <1>2, WrittenEvents
<1>4. /\ OutboxOK' /\ outbox'[r] = Written(r)
      /\ \A q \in Requests \ {r} : outbox'[q] = outbox[q]
      /\ \A a : a \in Pending' <=>
           a \in Range(Written(r)) \/ \E q \in Requests \ {r} : a \in Range(outbox[q])
      /\ \A a : a \in Pending <=>
           a \in Range(outbox[r]) \/ \E q \in Requests \ {r} : a \in Range(outbox[q])
  BY <1>1, <1>3, OutboxStep DEF LogInv
<1>5. Range(outbox[r]) = {}
  BY <1>1, ShortRanges
<1>6. Grows(Range(Written(r)))
  BY <1>1, <1>4, <1>5 DEF Grows, Log
<1>7. DisplayAlone'
  <2> SUFFICES ASSUME NEW q \in Requests, NEW t \in Tasks, DisplayedEvent(t) \in Range(outbox'[q])
               PROVE  /\ outbox'[q] = <<DisplayedEvent(t)>>
                      /\ DisplayedEvent(t) \notin settled'
                      /\ \A p \in Requests \ {q} : DisplayedEvent(t) \notin Range(outbox'[p])
    BY DEF DisplayAlone, DisplayedEvent, Event
  <2>1. ASSUME DisplayedEvent(t) \in Range(Written(r))
        PROVE  /\ Written(r) = <<DisplayedEvent(t)>>
               /\ DisplayedEvent(t) \notin Log
    <3>1. req[r].pc = "deliver_insert" /\ kds' # kds /\ t = req[r].task /\ Written(r) = <<DisplayedEvent(t)>>
      BY <1>2, <2>1, WrittenEvents
    <3>2. Shows(r)
      BY <1>1, <3>1 DEF Kind, Counts, Claims, Advances, Undoes, Finishes, Stops, Moves
    <3>3. kds[t].status = "absent"
      BY <3>1, <3>2 DEF Shows
    <3>4. QED
      BY <3>1, <3>3 DEF LogInv, DisplayLogged
  <2>2. CASE q = r
    BY <1>1, <1>4, <2>1, <2>2 DEF Log
  <2>3. CASE q # r
    <3>1. DisplayedEvent(t) \in Range(outbox[q]) /\ DisplayedEvent(t) \in Log
      BY <1>4, <2>3 DEF Log
    <3>2. DisplayedEvent(t) \notin Range(Written(r))
      BY <2>1, <3>1
    <3>3. QED
      BY <1>1, <1>4, <2>3, <3>1, <3>2 DEF LogInv, DisplayAlone
  <2>4. QED
    BY <2>2, <2>3
<1>8. QED
  BY <1>4, <1>6, <1>7

\* The request of slot r dies, with what it has and would have written.
Dies(r) == Aborts(r) \/ Crashes(r) \/ WriterDies(r)

\* What a request that dies leaves unwritten is lost.
LEMMA DeathLog ==
  ASSUME EInv, NEW r \in Requests, Dies(r)
  PROVE  /\ OutboxOK' /\ DisplayAlone' /\ Grows(Owed(r))
         /\ Ends(r) /\ kds' = kds
<1> TypeOK /\ LogInv
  BY DEF EInv, IInv
<1>1. Ends(r) /\ kds' = kds
  BY EndEnds DEF Dies, Aborts, Crashes, WriterDies, DeadlockAbort, Crash
<1>2. /\ outbox' = [outbox EXCEPT ![r] = <<>>]
      /\ settled' = settled \union Remembered(Range(outbox[r])) \union Owed(r)
  <2>1. CASE Aborts(r) \/ Crashes(r)
    <3>1. outbox[r] = <<>> /\ outbox' = outbox /\ settled' = settled \union Owed(r)
      BY <2>1 DEF Aborts, Crashes
    <3>2. Remembered(Range(outbox[r])) = {}
      BY <3>1, ShortRanges DEF Remembered
    <3>3. QED
      BY <3>1, <3>2 DEF LogInv, OutboxOK
  <2>2. CASE WriterDies(r)
    BY <2>2 DEF WriterDies
  <2>3. QED
    BY <2>1, <2>2 DEF Dies
<1>3. <<>> \in Seq(Events)
  OBVIOUS
<1>4. /\ OutboxOK' /\ outbox'[r] = <<>> /\ \A q \in Requests \ {r} : outbox'[q] = outbox[q]
      /\ \A a : a \in Pending' <=>
           a \in Range(<<>>) \/ \E q \in Requests \ {r} : a \in Range(outbox[q])
      /\ \A a : a \in Pending <=>
           a \in Range(outbox[r]) \/ \E q \in Requests \ {r} : a \in Range(outbox[q])
  BY <1>2, <1>3, OutboxStep DEF LogInv
<1>5. \A t \in Tasks :
        /\ DisplayedEvent(t) \in settled' <=>
             \/ DisplayedEvent(t) \in settled \/ DisplayedEvent(t) \in Range(outbox[r])
             \/ DisplayedEvent(t) \in Owed(r)
        /\ ClaimedEvent(t) \in settled' <=>
             \/ ClaimedEvent(t) \in settled \/ ClaimedEvent(t) \in Range(outbox[r])
             \/ ClaimedEvent(t) \in Owed(r)
  BY <1>2, EventShape DEF Remembered
<1>6. Grows(Owed(r))
  BY <1>4, <1>5, ShortRanges DEF Grows, Log
<1>7. \A t \in Tasks : DisplayedEvent(t) \notin Owed(r)
  BY DEF Owed, DisplayedEvent, Event
<1>8. DisplayAlone'
  <2> SUFFICES ASSUME NEW q \in Requests, NEW t \in Tasks, DisplayedEvent(t) \in Range(outbox'[q])
               PROVE  /\ outbox'[q] = <<DisplayedEvent(t)>>
                      /\ DisplayedEvent(t) \notin settled'
                      /\ \A p \in Requests \ {q} : DisplayedEvent(t) \notin Range(outbox'[p])
    BY DEF DisplayAlone, DisplayedEvent, Event
  <2>1. q # r
    BY <1>4, ShortRanges
  <2>2. /\ outbox[q] = <<DisplayedEvent(t)>> /\ DisplayedEvent(t) \notin settled
        /\ \A p \in Requests \ {q} : DisplayedEvent(t) \notin Range(outbox[p])
    BY <1>4, <2>1 DEF LogInv, DisplayAlone
  <2>3. QED
    BY <1>4, <1>5, <1>7, <2>1, <2>2, ShortRanges
<1>9. QED
  BY <1>1, <1>4, <1>6, <1>8

-----------------------------------------------------------------------------
(* Log and display together *)

\* Of the claims under way a step of the service ends, without a death, only the
\* ones that were confirmed and the compensations that found nothing to undo.
LEMMA ClaimsEnd ==
  ASSUME EInv, NEW r \in Requests, Proceed(r), req[r].pc \in ClaimPcs, Stops(r)
  PROVE  \/ req[r].pc = "start_call" /\ req'[r] = Idle
         \/ kds[req[r].task].status = "completed"
<1> TypeOK /\ ClaimInv
  BY DEF EInv, IInv
<1>1. req'[r] = Idle /\ kds' = kds /\ Idle.pc = "idle"
  BY DEF Stops, Ends, Idle
<1>2. req[r] \in Work /\ req[r].task \in Tasks /\ kds[req[r].task] \in Row
  BY SessionShape, RequestTask DEF ClaimPcs, Pcs, HoldsNothing, HoldsTask
<1>3. CASE req[r].pc \in {"refresh_task", "refresh_station", "comp_task"}
  <2>1. CASE ClaimRefreshTask(r)
    BY <1>1, <1>2, <2>1 DEF ClaimRefreshTask, TypeOK, Work
  <2>2. CASE ClaimRefreshStation(r)
    BY <1>1, <1>2, <2>2 DEF ClaimRefreshStation, TypeOK, Work
  <2>3. CASE CompensateLockTask(r)
    BY <1>1, <1>2, <2>3 DEF CompensateLockTask, GoTo, TypeOK, Work
  <2>4. QED
    BY <1>3, <2>1, <2>2, <2>3 DEF Proceed, Claiming, Compensating, Completing, DeliverCount, DeliverInsert,
       ClaimCommit, StartAnswer, CompensateCommit, CompleteValidate, CompleteAnswer,
       FinalLockStation, CompleteCommit
<1>4. CASE req[r].pc = "comp_station"
  <2>1. CompensateCommit(r)
    BY <1>4 DEF Proceed, Claiming, Compensating, Completing, DeliverCount, DeliverInsert,
       ClaimCommit, ClaimRefreshTask, ClaimRefreshStation, StartAnswer, CompensateLockTask,
       CompleteValidate, CompleteAnswer, FinalLockStation, CompleteCommit
  <2>2. /\ kds[req[r].task].status \in {"claimed", "completed"}
        /\ SawOwnClaim(r) \/ kds[req[r].task].status = "completed"
    BY <1>4 DEF ClaimInv, ClaimStands, ClaimPcs
  <2>3. ASSUME SawOwnClaim(r) PROVE FALSE
    <3>1. kds' = [kds EXCEPT ![req[r].task] =
                    [kds[req[r].task] EXCEPT !.status = "displayed", !.claimed_by = NULL]]
      BY <1>2, <2>1, <2>3 DEF CompensateCommit, SawOwnClaim, TypeOK
    <3>2. kds'[req[r].task].status = "displayed"
      BY <1>2, <3>1 DEF TypeOK, Row
    <3>3. QED
      BY <1>1, <2>2, <3>2
  <2>4. QED
    BY <2>2, <2>3
<1>5. QED
  BY <1>1, <1>3, <1>4 DEF ClaimPcs

\* What is beyond the reach of compensations stays there.
LEMMA SettledKept ==
  ASSUME TypeOK, NEW r \in Requests, Kind(r), NEW t \in Tasks,
         kds[t].status \in {"claimed", "completed"}, ~UnderWay(t)
  PROVE  kds'[t].status \in {"claimed", "completed"} /\ ~UnderWay(t)'
<1>1. Others(r) /\ kds[t] \in Row
  BY KindBasics DEF TypeOK
<1>2. kds'[t].status \in {"claimed", "completed"}
  <2>1. CASE req[r].task # t
    BY <2>1, KindBasics
  <2>2. CASE req[r].task = t
    <3>1. ~Shows(r) /\ ~Claims(r) /\ ~Undoes(r)
      BY <2>2 DEF Shows, Claims, Undoes, UnderWay, ClaimPcs
    <3>2. CASE Finishes(r)
      <4>1. kds'[t] = [kds[t] EXCEPT !.status = "completed"]
        BY <2>2, <3>2 DEF Finishes, Writes, TypeOK
      <4>2. QED
        BY <1>1, <4>1 DEF Row
    <3>3. QED
      BY <3>1, <3>2 DEF Kind, Counts, Advances, Stops
  <2>3. QED
    BY <2>1, <2>2
<1>3. ASSUME NEW q \in Requests, req'[q].pc \in ClaimPcs, req'[q].task = t PROVE FALSE
  <2>1. CASE q # r
    BY <1>1, <1>3, <2>1 DEF Others, UnderWay
  <2>2. CASE q = r
    <3>1. req'[r].task = req[r].task /\ (Claims(r) \/ req[r].pc \in ClaimPcs)
      BY <1>3, <2>2, KindClaims
    <3>2. QED
      BY <1>3, <2>2, <3>1 DEF Claims, UnderWay
  <2>3. QED
    BY <2>1, <2>2
<1>4. QED
  BY <1>2, <1>3 DEF UnderWay

\* The end of the only claim under way of a task.
LEMMA LastClaim ==
  ASSUME ClaimInv, NEW r \in Requests, Ends(r), kds' = kds, req[r].pc \in ClaimPcs
  PROVE  /\ kds'[req[r].task].status \in {"claimed", "completed"}
         /\ \A q \in Requests : req'[q].pc \in ClaimPcs => req'[q].task # req[r].task
<1>1. Idle.pc \notin ClaimPcs
  BY DEF Idle, ClaimPcs
<1>2. QED
  BY <1>1 DEF ClaimInv, ClaimStands, OneClaimant, Ends, Others

\* A step of the service and what it makes its request write.
LEMMA StepLogInv == ASSUME EInv, NEW r \in Requests, Step(r) PROVE LogInv'
<1> TypeOK /\ LogInv /\ ClaimInv
  BY DEF EInv, IInv
<1>1. /\ Kind(r) /\ Proceed(r) /\ OutboxOK' /\ DisplayAlone'
      /\ Grows(Range(Written(r)))
  BY RequestStep, StepLog DEF Step
<1>2. Others(r) /\ req[r].pc # "idle" /\ req[r].task \in Tasks /\ kds[req[r].task] \in Row
  BY <1>1, KindBasics
<1>3. \A t \in Tasks : kds'[t].status # "absent" <=>
        kds[t].status # "absent" \/ (req[r].pc = "deliver_insert" /\ kds' # kds /\ t = req[r].task)
  BY <1>1, RowsAppear
<1>4. DisplayLogged'
  <2> SUFFICES ASSUME NEW t \in Tasks
               PROVE  kds'[t].status # "absent" <=> DisplayedEvent(t) \in Log'
    BY DEF DisplayLogged, DisplayedEvent, Event
  <2>1. DisplayedEvent(t) \in Range(Written(r)) <=>
          req[r].pc = "deliver_insert" /\ kds' # kds /\ t = req[r].task
    BY <1>2, WrittenEvents
  <2>2. QED
    BY <1>1, <1>3, <2>1 DEF Grows, LogInv, DisplayLogged
<1>5. CompletionKnown'
  <2> SUFFICES ASSUME NEW q \in Requests, req'[q].pc \in CompletePcs
               PROVE  kds'[req'[q].task].status # "absent"
    BY DEF CompletionKnown
  <2>1. CASE q # r
    <3>1. req'[q] = req[q] /\ req[q].task \in Tasks /\ kds[req[q].task].status # "absent"
      BY <1>2, <2>1, RequestTask DEF Others, LogInv, CompletionKnown, CompletePcs
    <3>2. QED
      BY <1>3, <3>1
  <2>2. CASE q = r
    <3>1. Advances(r)
      BY <1>1, <2>2 DEF Kind, Counts, Shows, Claims, Onward, Undoes, Finishes, Stops, Ends, Idle, CompletePcs
    <3>2. req'[r].task = req[r].task /\ kds[req[r].task].status # "absent"
      BY <2>2, <3>1 DEF Advances, Moves, Onward, LogInv, CompletionKnown, CompletePcs
    <3>3. QED
      BY <1>2, <1>3, <2>2, <3>2
  <2>3. QED
    BY <2>1, <2>2
<1>6. ClaimLogged'
  <2> SUFFICES ASSUME NEW t \in Tasks, kds'[t].status = "claimed"
               PROVE  \/ ClaimedEvent(t) \in Log'
                      \/ \E q \in Requests : req'[q].pc \in ClaimPcs /\ req'[q].task = t
    BY DEF ClaimLogged, UnderWay, ClaimedEvent, Event
  <2>1. CASE Claims(r) /\ req[r].task = t
    <3>1. req'[r].pc \in ClaimPcs /\ req'[r].task = t
      BY <2>1 DEF Claims, Onward, ClaimPcs
    <3>2. QED
      BY <3>1
  <2>2. CASE ~(Claims(r) /\ req[r].task = t)
    <3>1. kds[t].status = "claimed" /\ (req[r].task = t => Counts(r) \/ Advances(r) \/ Stops(r))
      <4>1. CASE req[r].task # t
        BY <1>1, <4>1, KindBasics
      <4>2. CASE req[r].task = t
        <5>1. ~Shows(r)
          BY <1>2, <4>2 DEF Shows, Writes, TypeOK
        <5>2. ~Undoes(r)
          <6> SUFFICES ASSUME Undoes(r) PROVE FALSE
            OBVIOUS
          <6>1. kds'[t] = [kds[t] EXCEPT !.status = "displayed", !.claimed_by = NULL]
            BY <4>2 DEF Undoes, Writes, TypeOK
          <6>2. QED
            BY <1>2, <4>2, <6>1 DEF Row
        <5>3. ~Finishes(r)
          <6> SUFFICES ASSUME Finishes(r) PROVE FALSE
            OBVIOUS
          <6>1. kds'[t] = [kds[t] EXCEPT !.status = "completed"]
            BY <4>2 DEF Finishes, Writes, TypeOK
          <6>2. QED
            BY <1>2, <4>2, <6>1 DEF Row
        <5>4. QED
          BY <1>1, <2>2, <4>2, <5>1, <5>2, <5>3 DEF Kind, Counts, Advances, Stops
      <4>3. QED
        BY <4>1, <4>2
    <3>2. CASE ClaimedEvent(t) \in Log
      BY <1>1, <3>2 DEF Grows
    <3>3. ASSUME NEW q \in Requests, req[q].pc \in ClaimPcs, req[q].task = t, q # r
          PROVE  req'[q].pc \in ClaimPcs /\ req'[q].task = t
      BY <1>2, <3>3 DEF Others
    <3>4. CASE req[r].pc \in ClaimPcs /\ req[r].task = t
      <4>1. CASE Advances(r)
        <5>1. req'[r].pc \in ClaimPcs /\ req'[r].task = t
          BY <3>4, <4>1 DEF Advances, Moves, Onward, ClaimPcs
        <5>2. QED
          BY <5>1
      <4>2. CASE Stops(r)
        <5>1. req[r].pc = "start_call" /\ req'[r] = Idle
          BY <1>1, <3>1, <3>4, <4>2, ClaimsEnd
        <5>2. ClaimedEvent(t) \in Range(Written(r))
          BY <1>2, <3>4, <5>1, WrittenEvents
        <5>3. QED
          BY <1>1, <5>2 DEF Grows
      <4>3. QED
        BY <3>1, <3>4, <4>1, <4>2 DEF Counts, ClaimPcs
    <3>5. QED
      BY <3>1, <3>2, <3>3, <3>4 DEF LogInv, ClaimLogged, UnderWay
  <2>3. QED
    BY <2>1, <2>2
<1>7. ClaimSettled'
  <2> SUFFICES ASSUME NEW t \in Tasks, ClaimedEvent(t) \in Log'
               PROVE  /\ kds'[t].status \in {"claimed", "completed"}
                      /\ \A q \in Requests : req'[q].pc \in ClaimPcs => req'[q].task # t
    BY DEF ClaimSettled, UnderWay, ClaimedEvent, Event
  <2>1. CASE ClaimedEvent(t) \in Log
    BY <1>1, <2>1, SettledKept DEF LogInv, ClaimSettled, UnderWay
  <2>2. CASE ClaimedEvent(t) \in Range(Written(r))
    <3>1. req[r].pc = "start_call" /\ req'[r] = Idle /\ t = req[r].task
      BY <1>2, <2>2, WrittenEvents
    <3>2. Stops(r)
      BY <1>1, <3>1 DEF Kind, Counts, Shows, Claims, Advances, Undoes, Finishes, Onward, Moves, Idle
    <3>3. Ends(r) /\ kds' = kds /\ req[r].pc \in ClaimPcs
      BY <3>1, <3>2 DEF Stops, ClaimPcs
    <3>4. QED
      BY <3>1, <3>3, LastClaim
  <2>3. QED
    BY <1>1, <2>1, <2>2 DEF Grows
<1>8. QED
  BY <1>1, <1>4, <1>5, <1>6, <1>7 DEF LogInv

\* A request dies, and the announcement it owes with it.
LEMMA DeathLogInv == ASSUME EInv, NEW r \in Requests, Dies(r) PROVE LogInv'
<1> TypeOK /\ LogInv /\ ClaimInv
  BY DEF EInv, IInv
<1>1. OutboxOK' /\ DisplayAlone' /\ Grows(Owed(r)) /\ Ends(r) /\ kds' = kds
  BY DeathLog
<1>2. \A t \in Tasks : DisplayedEvent(t) \notin Owed(r)
  BY DEF Owed, DisplayedEvent, Event
<1>3. \A t \in Tasks : ClaimedEvent(t) \in Owed(r) <=> req[r].pc \in ClaimPcs /\ req[r].task = t
  BY DEF Owed, ClaimedEvent, Event, ClaimPcs
<1>4. \A q \in Requests : req'[q] = req[q] \/ req'[q].pc = "idle"
  BY <1>1 DEF Ends, Others, Idle
<1>5. DisplayLogged'
  BY <1>1, <1>2 DEF LogInv, DisplayLogged, Grows, DisplayedEvent, Event
<1>6. CompletionKnown'
  BY <1>1, <1>4 DEF LogInv, CompletionKnown, CompletePcs
<1>7. ClaimLogged'
  <2> SUFFICES ASSUME NEW t \in Tasks, kds[t].status = "claimed"
               PROVE  \/ ClaimedEvent(t) \in Log'
                      \/ \E q \in Requests : req'[q].pc \in ClaimPcs /\ req'[q].task = t
    BY <1>1 DEF ClaimLogged, UnderWay, ClaimedEvent, Event
  <2>1. CASE ClaimedEvent(t) \in Log \union Owed(r)
    BY <1>1, <2>1 DEF Grows
  <2>2. CASE ClaimedEvent(t) \notin Log \union Owed(r)
    <3>1. PICK q \in Requests : req[q].pc \in ClaimPcs /\ req[q].task = t
      BY <2>2 DEF LogInv, ClaimLogged, UnderWay
    <3>2. q # r
      BY <1>3, <2>2, <3>1
    <3>3. req'[q] = req[q]
      BY <1>1, <3>2 DEF Ends, Others
    <3>4. QED
      BY <3>1, <3>3
  <2>3. QED
    BY <2>1, <2>2
<1>8. ClaimSettled'
  <2> SUFFICES ASSUME NEW t \in Tasks, ClaimedEvent(t) \in Log'
               PROVE  /\ kds'[t].status \in {"claimed", "completed"}
                      /\ \A q \in Requests : req'[q].pc \in ClaimPcs => req'[q].task # t
    BY DEF ClaimSettled, UnderWay, ClaimedEvent, Event
  <2>1. CASE ClaimedEvent(t) \in Log
    BY <1>1, <1>4, <2>1 DEF LogInv, ClaimSettled, UnderWay, ClaimPcs
  <2>2. CASE ClaimedEvent(t) \in Owed(r)
    BY <1>1, <1>3, <2>2, LastClaim
  <2>3. QED
    BY <1>1, <2>1, <2>2 DEF Grows
<1>9. QED
  BY <1>1, <1>5, <1>6, <1>7, <1>8 DEF LogInv

\* Steps that leave rows and claims alone, and the log but for an insert.
LEMMA QuietLogInv ==
  ASSUME EInv, OutboxOK', DisplayAlone', Grows({}), kds' = kds,
         \A q \in Requests :
           /\ req'[q].pc \in ClaimPcs \union CompletePcs => req'[q] = req[q]
           /\ req[q].pc \in ClaimPcs => req'[q] = req[q]
  PROVE  LogInv'
<1> LogInv
  BY DEF EInv
<1>1. DisplayLogged'
  BY DEF LogInv, DisplayLogged, Grows, DisplayedEvent, Event
<1>2. CompletionKnown'
  BY DEF LogInv, CompletionKnown
<1>3. \A t \in Tasks : UnderWay(t)' <=> UnderWay(t)
  BY DEF UnderWay
<1>4. ClaimLogged' /\ ClaimSettled'
  <2> SUFFICES ASSUME NEW t \in Tasks
               PROVE  /\ kds'[t].status = "claimed" => ClaimedEvent(t) \in Log' \/ UnderWay(t)'
                      /\ ClaimedEvent(t) \in Log' =>
                           kds'[t].status \in {"claimed", "completed"} /\ ~UnderWay(t)'
    BY DEF ClaimLogged, ClaimSettled, ClaimedEvent, Event
  <2>1. QED
    BY <1>3 DEF LogInv, ClaimLogged, ClaimSettled, Grows
<1>5. QED
  BY <1>1, <1>2, <1>4 DEF LogInv

\* Nothing is delivered and nothing written at first.
LEMMA InitLogInv == KdsEventsInit => LogInv
<1> SUFFICES ASSUME KdsEventsInit PROVE LogInv
  OBVIOUS
<1>1. OutboxOK /\ \A r \in Requests : outbox[r] = <<>> /\ Range(outbox[r]) = {}
  BY ShortRanges DEF KdsEventsInit, OutboxOK
<1>2. Log = {}
  BY <1>1 DEF Log, Pending, KdsEventsInit
<1>3. /\ \A t \in Tasks : kds[t].status = "absent"
      /\ \A r \in Requests : req[r].pc = "idle"
  BY DEF KdsEventsInit, Init, Absent, Idle
<1>4. QED
  BY <1>1, <1>2, <1>3 DEF LogInv, DisplayAlone, DisplayLogged, ClaimLogged, ClaimSettled,
     CompletionKnown, CompletePcs

-----------------------------------------------------------------------------
(* The theorems *)

\* A step with its events is a step of kitchen-service, or none.
LEMMA EventsImplement ==
  ASSUME TypeOK, [KdsEventsNext]_kdsEventVars PROVE [Next]_vars
<1>1. CASE UNCHANGED kdsEventVars
  BY <1>1 DEF kdsEventVars
<1>2. ASSUME NEW r \in Requests, WriterDies(r) PROVE [Next]_vars
  <2>1. CASE req[r] = Idle
    <3>1. req' = req
      BY <1>2, <2>1 DEF WriterDies, End, TypeOK
    <3>2. QED
      BY <1>2, <3>1 DEF WriterDies, vars, stationVars
  <2>2. CASE req[r] # Idle
    BY <1>2, <2>2 DEF WriterDies, Crash, Next
  <2>3. QED
    BY <2>1, <2>2
<1>3. ASSUME NEW r \in Requests, Insert(r) PROVE UNCHANGED vars
  BY <1>3 DEF Insert
<1>4. QED
  BY <1>1, <1>2, <1>3 DEF KdsEventsNext, Next, Step, Aborts, Crashes

\* Every step preserves the invariant.
LEMMA NextEInv == EInv /\ [KdsEventsNext]_kdsEventVars => EInv'
<1> SUFFICES ASSUME EInv, [KdsEventsNext]_kdsEventVars PROVE EInv'
  OBVIOUS
<1>1. TypeOK /\ IInv' /\ ClaimInv'
  BY EventsImplement, NextIInv, NextClaimInv DEF EInv, IInv
<1>2. ASSUME UNCHANGED logVars PROVE OutboxOK' /\ DisplayAlone' /\ Grows({})
  BY <1>2 DEF logVars, EInv, LogInv, OutboxOK, DisplayAlone, Grows, Log, Pending
<1>3. ASSUME UNCHANGED <<kds, req>>, UNCHANGED logVars PROVE LogInv'
  <2>1. OutboxOK' /\ DisplayAlone' /\ Grows({})
    BY <1>2, <1>3
  <2>2. QED
    BY <1>3, <2>1, QuietLogInv
<1>4. ASSUME Patch PROVE UNCHANGED <<kds, req>>
  BY <1>4 DEF Patch, UpdateStationCapacity, UpdateStationStatus
<1>5. ASSUME NEW r \in Requests, Arrive(r), UNCHANGED logVars PROVE LogInv'
  <2>1. /\ req[r] = Idle /\ Others(r) /\ kds' = kds
        /\ req'[r].pc \in {"deliver_station", "claim_task", "complete_task"}
    BY <1>1, <1>5, ArriveStep
  <2>2. \A q \in Requests :
          /\ req'[q].pc \in ClaimPcs \union CompletePcs => req'[q] = req[q]
          /\ req[q].pc \in ClaimPcs => req'[q] = req[q]
    BY <2>1 DEF Others, Idle, ClaimPcs, CompletePcs
  <2>3. QED
    BY <1>2, <1>5, <2>1, <2>2, QuietLogInv
<1>6. ASSUME NEW r \in Requests, Insert(r) PROVE LogInv'
  <2>1. OutboxOK' /\ DisplayAlone' /\ Grows({})
    BY <1>6, InsertLog DEF EInv, LogInv
  <2>2. UNCHANGED <<kds, req>>
    BY <1>6 DEF Insert, vars
  <2>3. QED
    BY <2>1, <2>2, QuietLogInv
<1>7. LogInv'
  <2>1. CASE UNCHANGED kdsEventVars
    <3>1. UNCHANGED <<kds, req>> /\ UNCHANGED logVars
      BY <2>1 DEF kdsEventVars, vars
    <3>2. QED
      BY <1>3, <3>1
  <2>2. CASE Patch /\ UNCHANGED logVars
    BY <1>3, <1>4, <2>2
  <2>3. ASSUME NEW r \in Requests,
               \/ outbox[r] = <<>> /\ Arrive(r) /\ UNCHANGED logVars
               \/ Step(r) \/ Dies(r) \/ Insert(r)
        PROVE  LogInv'
    BY <1>5, <1>6, <2>3, StepLogInv, DeathLogInv
  <2>4. QED
    BY <2>1, <2>2, <2>3 DEF KdsEventsNext, Dies
<1>8. QED
  BY <1>1, <1>7 DEF EInv

\* The inductive invariant of rows, claims and events.
THEOREM EventsInvariance == KdsEventsSpec => []EInv
<1>1. KdsEventsInit => EInv
  BY InitIInv, InitClaimInv, InitLogInv DEF KdsEventsInit, EInv
<1>2. QED
  BY <1>1, NextEInv, PTL DEF KdsEventsSpec

\* Writing events, MongoDB's failures and deaths between two inserts leave
\* kitchen-service what it is: the theorems of KdsProofs hold with its events.
THEOREM EventsImplementKds == KdsEventsSpec => Spec
<1>1. KdsEventsInit => Init
  BY DEF KdsEventsInit
<1>2. EInv /\ [KdsEventsNext]_kdsEventVars => [Next]_vars
  BY EventsImplement DEF EInv, IInv
<1>3. QED
  BY <1>1, <1>2, EventsInvariance, PTL DEF KdsEventsSpec, Spec

\* Every delivered task is announced once; a claim that stands is announced or at
\* work; a claim once announced is never taken back.
THEOREM LogKeepsUp == KdsEventsSpec => []LogFollowsDisplay
<1>1. EInv => LogFollowsDisplay
  <2> SUFFICES ASSUME EInv, NEW t \in Tasks
               PROVE
    /\ kds[t].status # "absent" <=> DisplayedEvent(t) \in Pending \union settled
    /\ DisplayedEvent(t) \in Pending => DisplayedEvent(t) \notin settled
    /\ kds[t].status = "claimed" =>
         \/ ClaimedEvent(t) \in Pending \union settled
         \/ \E r \in Requests : req[r] # Idle /\ req[r].task = t
    /\ ClaimedEvent(t) \in Pending \union settled => kds[t].status \in {"claimed", "completed"}
    BY DEF LogFollowsDisplay, DisplayedEvent, ClaimedEvent
  <2>1. LogInv
    BY DEF EInv
  <2>2. DisplayedEvent(t) \in Pending => DisplayedEvent(t) \notin settled
    BY <2>1 DEF LogInv, DisplayAlone, Pending
  <2>3. Idle.pc \notin ClaimPcs
    BY DEF Idle, ClaimPcs
  <2>4. UnderWay(t) => \E r \in Requests : req[r] # Idle /\ req[r].task = t
    BY <2>3 DEF UnderWay
  <2>5. QED
    BY <2>1, <2>2, <2>4 DEF LogInv, DisplayLogged, ClaimLogged, ClaimSettled, Log
<1>2. QED
  BY <1>1, EventsInvariance, PTL
=============================================================================
