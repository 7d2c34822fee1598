---------------------------- MODULE OrdersProofs ----------------------------
(***************************************************************************)
(* Proofs about Orders for any orders, workers, workloads and bounds.      *)
(***************************************************************************)
EXTENDS Orders, FiniteSetTheorems, SequenceTheorems, TLAPS

\* A handler that still has orders to see to, and what it knows of the first.
HasOrder == {"update_loaded", "changed", "completed", "bulk", "bulk_loaded", "notify_ready"}

WasReady(o) == \E i \in DOMAIN order_status_logs[o] : order_status_logs[o][i].new = "READY"

RequestInv(s) ==
  /\ request[s].step \in HasOrder => request[s].rest # << >>
  /\ request[s].step \in {"update_loaded", "bulk_loaded"} =>
       request[s].loaded \in OrderStatus /\ Legal(request[s].loaded, request[s].target)
  /\ request[s].step = "completed" => request[s].target = "READY"
  /\ request[s].step = "notify_ready" => WasReady(Order(s))

\* A worker sends rows that are there.
SessionInv(s) ==
  /\ session[s].step \in {"idle", "background", "loaded", "answered"}
  /\ session[s].step # "idle" => session[s].tasks # << >>
  /\ \A i \in DOMAIN session[s].tasks : session[s].tasks[i] \in DOMAIN notifications

Inv ==
  /\ TypeOK
  /\ \A s \in Sessions : RequestInv(s) /\ SessionInv(s)

USE OrdersAssumption, TopicsAssumption, NotificationsAssumption
-----------------------------------------------------------------------------
LEMMA ItemOfSeq ==
  ASSUME NEW S, NEW seq \in Seq(S), NEW i \in DOMAIN seq
  PROVE  seq[i] \in S
BY ElementOfSeq, LenProperties

\* The rows of the tables and the records of the workers, one change at a time.
LEMMA Records ==
  /\ IdleRequest \in RequestRecords /\ IdleSession \in SessionRecords
  /\ \A topic \in Topics, channel \in NotificationChannel : NewRow(topic, channel) \in Rows
  /\ \A row \in Rows, loaded \in Rows \cup {NoRow}, success \in BOOLEAN :
       MarkOutcome(row, loaded, success) \in Rows
<1>1. IdleRequest \in RequestRecords
  <2>1. << >> \in Seq(Orders) /\ NoSummary \in Summaries
    BY DEF NoSummary, Summaries
  <2> QED BY <2>1 DEF IdleRequest, RequestRecords, OrderStatus
<1>2. IdleSession \in SessionRecords
  BY DEF IdleSession, SessionRecords
<1>3. \A topic \in Topics, channel \in NotificationChannel : NewRow(topic, channel) \in Rows
  BY DEF NewRow, Rows, NotificationStatus, NotificationChannel, QUEUED
<1>4. \A row \in Rows, loaded \in Rows \cup {NoRow}, success \in BOOLEAN :
        MarkOutcome(row, loaded, success) \in Rows
  BY DEF MarkOutcome, StatusColumn, Rows, NotificationStatus, NoRow, QUEUED, READ, SENT, FAILED
<1> QED BY <1>1, <1>2, <1>3, <1>4

LEMMA OrderIsThere ==
  ASSUME Inv, NEW s \in Sessions
  PROVE  /\ request[s] \in RequestRecords /\ session[s] \in SessionRecords
         /\ RequestInv(s) /\ SessionInv(s)
         /\ request[s].step \in HasOrder => Order(s) \in Orders
<1>1. request[s] \in RequestRecords /\ session[s] \in SessionRecords /\ RequestInv(s) /\ SessionInv(s)
  BY DEF Inv, TypeOK, NotificationsTypeOK
<1>2. ASSUME request[s].step \in HasOrder PROVE Order(s) \in Orders
  <2>1. request[s].rest \in Seq(Orders) /\ request[s].rest # << >>
    BY <1>1, <1>2 DEF RequestRecords, RequestInv
  <2> QED BY <2>1, HeadTailProperties DEF Order
<1> QED BY <1>1, <1>2

\* The history an order begins with ends in its status, and goes through the
\* pipeline from QUEUED.
LEMMA HistoryFacts ==
  ASSUME NEW status \in (OrderStatus \ {"CANCELLED"}) \cup {ABSENT}
  PROVE  LET log == History(status)
         IN  /\ log \in Seq(LogRows)
             /\ log = << >> => status \in {"QUEUED", ABSENT}
             /\ log # << >> => log[Len(log)].new = status
             /\ \A i \in 1 .. Len(log) :
                  /\ log[i].new = Successor(log[i].previous) /\ log[i].by = "bulk"
                  /\ log[i].previous = (IF i = 1 THEN "QUEUED" ELSE log[i - 1].new)
<1> DEFINE moves == {i \in 1 .. 5 : \E j \in 1 .. 6 : i < j /\ Pipeline[j] = status}
           row(i) == [previous |-> Pipeline[i], new |-> Pipeline[i + 1], by |-> "bulk"]
           log == [i \in moves |-> row(i)]
<1>1. History(status) = log
  BY DEF History
<1>2. \E n \in 0 .. 5 : moves = 1 .. n /\ (n = 0 => status \in {"QUEUED", ABSENT})
                        /\ (n # 0 => Pipeline[n + 1] = status)
  <2>1. /\ Pipeline[1] = "QUEUED" /\ Pipeline[2] = "WASHING" /\ Pipeline[3] = "DRYING"
        /\ Pipeline[4] = "READY" /\ Pipeline[5] = "WAITING_TO_PICK" /\ Pipeline[6] = "PICKED_UP"
    BY DEF Pipeline
  <2>2. CASE status \in {"QUEUED", ABSENT}
    <3>1. moves = 1 .. 0
      BY <2>1, <2>2 DEF ABSENT
    <3> QED BY <2>2, <3>1
  <2>3. ASSUME NEW n \in 1 .. 5, Pipeline[n + 1] = status PROVE moves = 1 .. n
    BY <2>1, <2>3
  <2>4. status \in {"QUEUED", ABSENT} \/ \E n \in 1 .. 5 : Pipeline[n + 1] = status
    BY <2>1 DEF OrderStatus
  <2> QED BY <2>2, <2>3, <2>4
<1>3. PICK n \in 0 .. 5 : moves = 1 .. n /\ (n = 0 => status \in {"QUEUED", ABSENT})
                          /\ (n # 0 => Pipeline[n + 1] = status)
  BY <1>2
<1> HIDE DEF moves
<1>4. \A i \in 1 .. 5 : /\ row(i) \in LogRows
                        /\ row(i).new = Successor(row(i).previous)
  BY DEF Pipeline, LogRows, OrderStatus, Successor
<1>5. log \in Seq(LogRows) /\ Len(log) = n
  <2>1. log \in [1 .. n -> LogRows]
    BY <1>3, <1>4
  <2> QED BY <2>1
<1>6. log = << >> => n = 0
  BY <1>5
<1>7. Pipeline[1] = "QUEUED"
  BY DEF Pipeline
<1>8. \A i \in 1 .. n : log[i] = row(i) /\ (i # 1 => log[i - 1] = row(i - 1))
  BY <1>3
<1>9. log # << >> => n # 0
  <2>1. \A m \in 0 .. 5 : m = 0 => [i \in 1 .. m |-> row(i)] = << >>
    OBVIOUS
  <2> QED BY <1>3, <2>1
<1>10. ASSUME NEW i \in 1 .. n
       PROVE  /\ log[i].new = Successor(log[i].previous) /\ log[i].by = "bulk"
              /\ log[i].new = Pipeline[i + 1]
              /\ log[i].previous = (IF i = 1 THEN "QUEUED" ELSE log[i - 1].new)
  <2>1. \A j \in 1 .. 5 : /\ row(j).previous = Pipeline[j] /\ row(j).new = Pipeline[j + 1]
                          /\ row(j).by = "bulk"
    OBVIOUS
  <2> HIDE DEF row, log
  <2>2. log[i] = row(i) /\ i \in 1 .. 5
    BY <1>8
  <2>3. CASE i = 1
    BY <1>4, <1>7, <2>1, <2>2, <2>3
  <2>4. CASE i # 1
    <3>1. log[i - 1] = row(i - 1) /\ i - 1 \in 1 .. 5
      BY <1>8, <2>4
    <3>2. row(i - 1).new = Pipeline[i - 1 + 1] /\ i - 1 + 1 = i
      BY <2>1, <3>1
    <3> QED BY <1>4, <2>1, <2>2, <2>4, <3>1, <3>2
  <2> QED BY <2>3, <2>4
<1> HIDE DEF log
<1>11. log # << >> => log[Len(log)].new = status
  BY <1>3, <1>5, <1>9, <1>10
<1> QED
  BY <1>1, <1>3, <1>5, <1>6, <1>10, <1>11
-----------------------------------------------------------------------------
\* What a change of one handler's record leaves of it.
Steps == {"idle", "error", "update_loaded", "changed", "completed", "bulk",
          "bulk_loaded", "notify_ready", "counting", "summing", "summary"}

LEMMA NewStep ==
  ASSUME NEW r \in RequestRecords, NEW step \in Steps
  PROVE  LET new == [r EXCEPT !.step = step]
         IN  /\ new \in RequestRecords /\ new.step = step /\ new.rest = r.rest
             /\ new.target = r.target /\ new.loaded = r.loaded /\ new.seen = r.seen
BY DEF RequestRecords, Steps

LEMMA StartFacts ==
  ASSUME Inv, NEW s \in Sessions, NEW entry, NEW step \in Steps, NEW list \in Seq(Orders),
         NEW target \in OrderStatus, NEW loaded \in OrderStatus \cup {ABSENT},
         Start(s, entry, step, list, target, loaded)
  PROVE  \E r \in RequestRecords :
           /\ request' = [request EXCEPT ![s] = r] /\ request[s].step = "idle"
           /\ r.step = step /\ r.rest = list /\ r.target = target /\ r.loaded = loaded
<1> DEFINE r == [IdleRequest EXCEPT !.step = step, !.rest = list, !.target = target,
                                    !.loaded = loaded]
<1>1. request' = [request EXCEPT ![s] = r] /\ request[s].step = "idle"
  BY DEF Start, Free
<1>2. /\ r \in RequestRecords
      /\ r.step = step /\ r.rest = list /\ r.target = target /\ r.loaded = loaded
  BY Records DEF RequestRecords, Steps
<1> QED BY <1>1, <1>2

\* A step of one handler that changes neither orders nor messages.
LEMMA RequestStep ==
  ASSUME Inv, NEW s \in Sessions, NEW r \in RequestRecords,
         request' = [request EXCEPT ![s] = r],
         UNCHANGED <<notificationVars, orders, order_status_logs, workload, raced>>,
         faults' \in 0 .. MaxFaults,
         RequestInv(s)'
  PROVE  Inv'
<1>1. /\ request' \in [Sessions -> RequestRecords]
      /\ \A t \in Sessions \ {s} : request'[t] = request[t] /\ Order(t)' = Order(t)
  BY DEF Inv, TypeOK, Order
<1>2. TypeOK'
  BY <1>1 DEF Inv, TypeOK, NotificationsTypeOK, notificationVars
<1>3. \A t \in Sessions : SessionInv(t)'
  BY DEF Inv, SessionInv, notificationVars
<1>4. \A t \in Sessions \ {s} : RequestInv(t)'
  BY <1>1 DEF Inv, RequestInv, WasReady
<1> QED BY <1>2, <1>3, <1>4 DEF Inv

\* The history of the order grows by one row, the others stay.
LEMMA MoveFacts ==
  ASSUME Inv, NEW s \in Sessions, NEW by \in {"update", "bulk"},
         request[s].step \in {"update_loaded", "bulk_loaded"}, ApplyStatusTransition(s, by)
  PROVE  LET o == Order(s)
             row == [previous |-> request[s].loaded, new |-> request[s].target, by |-> by]
         IN  /\ o \in Orders /\ row \in LogRows
             /\ request[s].target \in OrderStatus
             /\ order_status_logs[o] \in Seq(LogRows)
             /\ order_status_logs'[o] = Append(order_status_logs[o], row)
             /\ order_status_logs' \in [Orders -> Seq(LogRows)]
             /\ orders' = [orders EXCEPT ![o] = request[s].target]
             /\ orders' \in [Orders -> OrderStatus \cup {ABSENT}]
             /\ \A p \in Orders \ {o} : /\ order_status_logs'[p] = order_status_logs[p]
                                        /\ orders'[p] = orders[p]
             /\ raced \subseteq raced' /\ raced' \subseteq raced \cup {o}
             /\ raced' \subseteq Orders
             /\ orders[o] # request[s].loaded => o \in raced'
<1> DEFINE o == Order(s)
           row == [previous |-> request[s].loaded, new |-> request[s].target, by |-> by]
<1>1. /\ o \in Orders /\ request[s] \in RequestRecords
      /\ request[s].loaded \in OrderStatus
  BY OrderIsThere DEF HasOrder, RequestInv
<1>2. row \in LogRows /\ request[s].target \in OrderStatus
  BY <1>1 DEF RequestRecords, LogRows
<1>3. /\ order_status_logs' = [order_status_logs EXCEPT ![o] = Append(order_status_logs[o], row)]
      /\ orders' = [orders EXCEPT ![o] = request[s].target]
      /\ raced' = IF orders[o] = request[s].loaded THEN raced ELSE raced \cup {o}
  BY DEF ApplyStatusTransition, Moved, Previous
<1>4. /\ order_status_logs \in [Orders -> Seq(LogRows)]
      /\ orders \in [Orders -> OrderStatus \cup {ABSENT}] /\ raced \subseteq Orders
  BY DEF Inv, TypeOK
<1> HIDE DEF o, row
<1>5. order_status_logs[o] \in Seq(LogRows) /\ Append(order_status_logs[o], row) \in Seq(LogRows)
  BY <1>1, <1>2, <1>4
<1>6. /\ order_status_logs'[o] = Append(order_status_logs[o], row)
      /\ order_status_logs' \in [Orders -> Seq(LogRows)]
      /\ \A p \in Orders \ {o} : order_status_logs'[p] = order_status_logs[p]
  BY <1>1, <1>3, <1>4, <1>5
<1>7. /\ orders' \in [Orders -> OrderStatus \cup {ABSENT}]
      /\ \A p \in Orders \ {o} : orders'[p] = orders[p]
  BY <1>1, <1>2, <1>3, <1>4
<1>8. /\ raced \subseteq raced' /\ raced' \subseteq raced \cup {o} /\ raced' \subseteq Orders
      /\ orders[o] # request[s].loaded => o \in raced'
  BY <1>1, <1>3, <1>4
<1> QED BY <1>1, <1>2, <1>3, <1>5, <1>6, <1>7, <1>8 DEF o, row

\* A row appended to a history.
LEMMA Longer ==
  ASSUME NEW log \in Seq(LogRows), NEW row \in LogRows
  PROVE  /\ Len(Append(log, row)) = Len(log) + 1 /\ Len(log) \in Nat
         /\ DOMAIN log = 1 .. Len(log)
         /\ DOMAIN Append(log, row) = 1 .. (Len(log) + 1)
         /\ Append(log, row)[Len(log) + 1] = row
         /\ \A i \in 1 .. Len(log) : Append(log, row)[i] = log[i]
BY AppendProperties, LenProperties

LEMMA MoveStep ==
  ASSUME Inv, NEW s \in Sessions, NEW by \in {"update", "bulk"},
         request[s].step \in {"update_loaded", "bulk_loaded"}, ApplyStatusTransition(s, by),
         NEW r \in RequestRecords, request' = [request EXCEPT ![s] = r],
         UNCHANGED <<notificationVars, workload, faults>>,
         RequestInv(s)'
  PROVE  Inv'
<1>1. /\ request' \in [Sessions -> RequestRecords]
      /\ \A t \in Sessions \ {s} : request'[t] = request[t] /\ Order(t)' = Order(t)
  BY DEF Inv, TypeOK, Order
<1>2. TypeOK'
  BY <1>1, MoveFacts DEF Inv, TypeOK, NotificationsTypeOK, notificationVars
<1>3. \A t \in Sessions : SessionInv(t)'
  BY DEF Inv, SessionInv, notificationVars
<1>4. ASSUME NEW o \in Orders, WasReady(o) PROVE WasReady(o)'
  <2>1. CASE o = Order(s)
    <3> DEFINE row == [previous |-> request[s].loaded, new |-> request[s].target, by |-> by]
    <3>1. /\ row \in LogRows /\ order_status_logs[o] \in Seq(LogRows)
          /\ order_status_logs'[o] = Append(order_status_logs[o], row)
      BY <2>1, MoveFacts
    <3> HIDE DEF row
    <3>2. \A i \in DOMAIN order_status_logs[o] :
            i \in DOMAIN order_status_logs'[o] /\ order_status_logs'[o][i] = order_status_logs[o][i]
      BY <3>1, Longer
    <3> QED BY <1>4, <3>2 DEF WasReady
  <2>2. CASE o # Order(s)
    BY <1>4, <2>2, MoveFacts DEF WasReady
  <2> QED BY <2>1, <2>2
<1>5. ASSUME NEW t \in Sessions \ {s} PROVE RequestInv(t)'
  <2>1. request[t].step = "notify_ready" => Order(t) \in Orders
    BY OrderIsThere DEF HasOrder
  <2> QED BY <1>1, <1>4, <2>1 DEF Inv, RequestInv
<1> QED BY <1>2, <1>3, <1>5 DEF Inv

\* A message is queued by worker s.
LEMMA QueueFacts ==
  ASSUME Inv, NEW s \in Sessions, NEW topic \in Topics, NEW channel \in NotificationChannel,
         Queue(s, topic, channel)
  PROVE  /\ NewRow(topic, channel) \in Rows
         /\ notifications' = Append(notifications, NewRow(topic, channel))
         /\ NotificationsTypeOK'
         /\ \A t \in Sessions : SessionInv(t)'
<1> DEFINE n == Len(notifications) + 1
           row == NewRow(topic, channel)
<1>1. /\ row \in Rows /\ notifications \in Seq(Rows) /\ Len(notifications) \in Nat
      /\ Len(notifications) < MaxNotifications
      /\ notifications' = Append(notifications, row)
      /\ DOMAIN notifications = 1 .. Len(notifications)
  BY Records, LenProperties DEF Inv, TypeOK, NotificationsTypeOK, Queue
<1> HIDE DEF row
<1>2. /\ notifications' \in Seq(Rows) /\ Len(notifications') = n
      /\ DOMAIN notifications' = 1 .. n /\ n \in Ids
  BY <1>1, AppendProperties, LenProperties DEF Ids
<1> DEFINE tasks == session[s].tasks
           new == [session[s] EXCEPT !.tasks = Append(tasks, n), !.step = "background"]
<1>3. session[s] \in SessionRecords /\ SessionInv(s)
  BY OrderIsThere
<1>4. session' = [session EXCEPT ![s] = new]
  BY DEF Queue
<1>5. /\ tasks \in Seq(Ids) /\ Append(tasks, n) \in Seq(Ids) /\ Append(tasks, n) # << >>
      /\ \A i \in DOMAIN Append(tasks, n) : Append(tasks, n)[i] \in 1 .. n
  <2>1. tasks \in Seq(Ids)
    BY <1>3 DEF SessionRecords
  <2>2. \A i \in 1 .. Len(tasks) : tasks[i] \in 1 .. Len(notifications)
    BY <1>1, <1>3, <2>1, LenProperties DEF SessionInv
  <2> HIDE DEF tasks, n
  <2>3. /\ Append(tasks, n) \in Seq(Ids) /\ Len(Append(tasks, n)) = Len(tasks) + 1
        /\ Len(tasks) \in Nat
        /\ Append(tasks, n)[Len(tasks) + 1] = n
        /\ \A i \in 1 .. Len(tasks) : Append(tasks, n)[i] = tasks[i]
        /\ DOMAIN Append(tasks, n) = 1 .. Len(tasks) + 1
    BY <1>2, <2>1, AppendProperties, LenProperties
  <2>4. Append(tasks, n) # << >>
    BY <2>3, EmptySeq
  <2>5. n \in Nat /\ n = Len(notifications) + 1
    BY <1>1 DEF n
  <2> QED BY <1>1, <2>1, <2>2, <2>3, <2>4, <2>5
<1> HIDE DEF tasks, n
<1>6. /\ new \in SessionRecords /\ new.tasks = Append(tasks, n) /\ new.step = "background"
  BY <1>3, <1>5 DEF SessionRecords
<1> HIDE DEF new
<1>7. /\ session' \in [Sessions -> SessionRecords] /\ session'[s] = new
      /\ \A t \in Sessions \ {s} : session'[t] = session[t]
  BY <1>4, <1>6 DEF Inv, TypeOK, NotificationsTypeOK
<1>8. NotificationsTypeOK'
  BY <1>2, <1>7 DEF Inv, TypeOK, NotificationsTypeOK, Queue, Ids, n
<1>9. SessionInv(s)'
  BY <1>2, <1>5, <1>6, <1>7 DEF SessionInv
<1>10. ASSUME NEW t \in Sessions \ {s} PROVE SessionInv(t)'
  <2>1. DOMAIN notifications \subseteq DOMAIN notifications'
    BY <1>1, <1>2 DEF n
  <2> QED BY <1>7, <2>1 DEF Inv, SessionInv
<1> QED BY <1>1, <1>8, <1>9, <1>10 DEF row

LEMMA QueueStep ==
  ASSUME Inv, NEW s \in Sessions, NEW topic \in Topics, NEW channel \in NotificationChannel,
         Queue(s, topic, channel),
         NEW r \in RequestRecords, request' = [request EXCEPT ![s] = r],
         UNCHANGED <<orders, order_status_logs, workload, raced, faults>>,
         RequestInv(s)'
  PROVE  Inv'
<1>1. /\ request' \in [Sessions -> RequestRecords]
      /\ \A t \in Sessions \ {s} : request'[t] = request[t] /\ Order(t)' = Order(t)
  BY DEF Inv, TypeOK, Order
<1>2. TypeOK'
  BY <1>1, QueueFacts DEF Inv, TypeOK
<1>3. \A t \in Sessions \ {s} : RequestInv(t)'
  BY <1>1 DEF Inv, RequestInv, WasReady
<1> QED BY <1>2, <1>3, QueueFacts DEF Inv

\* The row a worker sends, and what the end of it leaves to do.
LEMMA TaskFacts ==
  ASSUME Inv, NEW s \in Sessions, session[s].step # "idle"
  PROVE  /\ session[s] \in SessionRecords /\ SessionInv(s)
         /\ Current(s) \in DOMAIN notifications /\ Current(s) \in Ids
         /\ notifications[Current(s)] \in Rows
         /\ Tail(session[s].tasks) \in Seq(Ids)
         /\ \A i \in DOMAIN Tail(session[s].tasks) :
              Tail(session[s].tasks)[i] \in DOMAIN notifications
<1> DEFINE tasks == session[s].tasks
<1>1. session[s] \in SessionRecords /\ SessionInv(s)
  BY OrderIsThere
<1>2. tasks \in Seq(Ids) /\ tasks # << >> /\ \A i \in DOMAIN tasks : tasks[i] \in DOMAIN notifications
  BY <1>1 DEF SessionRecords, SessionInv
<1> HIDE DEF tasks
<1>3. /\ Head(tasks) = tasks[1] /\ 1 \in DOMAIN tasks
      /\ Tail(tasks) \in Seq(Ids)
      /\ \A i \in DOMAIN Tail(tasks) : Tail(tasks)[i] = tasks[i + 1] /\ i + 1 \in DOMAIN tasks
  BY <1>2, HeadTailProperties, LenProperties, EmptySeq
<1>4. Current(s) = Head(tasks)
  BY DEF Current, tasks
<1>5. Current(s) \in DOMAIN notifications
  BY <1>2, <1>3, <1>4
<1>6. Current(s) \in Ids
  BY <1>2, <1>4, HeadTailProperties
<1>7. notifications[Current(s)] \in Rows
  BY <1>5, ItemOfSeq DEF Inv, TypeOK, NotificationsTypeOK
<1> QED BY <1>1, <1>2, <1>3, <1>5, <1>6, <1>7 DEF tasks

\* A step of one worker on its tasks.
LEMMA SessionStep ==
  ASSUME Inv, NEW s \in Sessions, NEW new \in SessionRecords,
         session' = [session EXCEPT ![s] = new],
         notifications' \in Seq(Rows), Len(notifications') = Len(notifications),
         DOMAIN notifications' = DOMAIN notifications,
         sends' \in [Ids -> Seq(Answers \cup {"none"})], lost' \subseteq Ids,
         SessionInv(s)'
  PROVE  NotificationsTypeOK' /\ \A t \in Sessions : SessionInv(t)'
<1>1. /\ session' \in [Sessions -> SessionRecords]
      /\ \A t \in Sessions \ {s} : session'[t] = session[t]
  BY DEF Inv, TypeOK, NotificationsTypeOK
<1>2. NotificationsTypeOK'
  BY <1>1 DEF Inv, TypeOK, NotificationsTypeOK
<1>3. \A t \in Sessions \ {s} : SessionInv(t)'
  BY <1>1 DEF Inv, SessionInv
<1> QED BY <1>2, <1>3

LEMMA DispatchStep ==
  ASSUME Inv, NEW s \in Sessions, Dispatch(s)
  PROVE  NotificationsTypeOK' /\ \A t \in Sessions : SessionInv(t)'
<1>1. session[s].step # "idle"
  BY DEF Dispatch, DispatchLoad, DispatchSend, DispatchCommit
<1>2. /\ session[s] \in SessionRecords /\ SessionInv(s)
      /\ Current(s) \in DOMAIN notifications /\ Current(s) \in Ids
      /\ notifications[Current(s)] \in Rows
      /\ Tail(session[s].tasks) \in Seq(Ids)
      /\ \A i \in DOMAIN Tail(session[s].tasks) :
           Tail(session[s].tasks)[i] \in DOMAIN notifications
  BY <1>1, TaskFacts
<1>3. /\ notifications \in Seq(Rows) /\ sends \in [Ids -> Seq(Answers \cup {"none"})] /\ lost \subseteq Ids
      /\ session \in [Sessions -> SessionRecords]
  BY DEF Inv, TypeOK, NotificationsTypeOK
<1>4. CASE DispatchLoad(s)
  <2> DEFINE row == notifications[Current(s)]
             new == [session[s] EXCEPT !.step = "loaded", !.row = row]
  <2>1. session' = [session EXCEPT ![s] = new] /\ UNCHANGED <<notifications, sends, lost>>
    BY <1>4 DEF DispatchLoad
  <2>2. /\ new \in SessionRecords /\ new.tasks = session[s].tasks /\ new.step = "loaded"
    BY <1>2 DEF SessionRecords
  <2> HIDE DEF new
  <2>3. session'[s] = new
    BY <1>3, <2>1
  <2>4. SessionInv(s)'
    BY <1>1, <1>2, <2>1, <2>2, <2>3 DEF SessionInv
  <2> QED BY <1>3, <2>1, <2>2, <2>4, SessionStep
<1>5. ASSUME NEW answer \in Answers, DispatchSend(s, answer)
      PROVE  NotificationsTypeOK' /\ \A t \in Sessions : SessionInv(t)'
  <2> DEFINE success == answer \in Successes
             new == [session[s] EXCEPT !.step = "answered", !.success = success]
  <2>1. session' = [session EXCEPT ![s] = new] /\ UNCHANGED <<notifications, lost>>
    BY <1>5 DEF DispatchSend
  <2>2. success \in BOOLEAN
    OBVIOUS
  <2> HIDE DEF success
  <2>3. /\ new \in SessionRecords /\ new.tasks = session[s].tasks /\ new.step = "answered"
    BY <1>2, <2>2 DEF SessionRecords
  <2> HIDE DEF new
  <2>4. sends' \in [Ids -> Seq(Answers \cup {"none"})]
    <3>1. Append(sends[Current(s)], answer) \in Seq(Answers \cup {"none"})
      BY <1>2, <1>3, AppendProperties
    <3> QED BY <1>2, <1>3, <1>5, <3>1 DEF DispatchSend
  <2>5. session'[s] = new
    BY <1>3, <2>1
  <2>6. SessionInv(s)'
    BY <1>1, <1>2, <2>1, <2>3, <2>5 DEF SessionInv
  <2> QED BY <1>3, <2>1, <2>3, <2>4, <2>6, SessionStep
<1>6. CASE DispatchCommit(s)
  <2> DEFINE row == MarkOutcome(notifications[Current(s)], session[s].row, session[s].success)
             tasks == Tail(session[s].tasks)
             step == IF tasks = << >> THEN "idle" ELSE "background"
             new == [IdleSession EXCEPT !.step = step, !.tasks = tasks]
  <2>1. /\ notifications' = [notifications EXCEPT ![Current(s)] = row]
        /\ session' = [session EXCEPT ![s] = new] /\ UNCHANGED <<sends, lost>>
    BY <1>6 DEF DispatchCommit, NextTask, Remaining
  <2>2. row \in Rows
    BY <1>2, Records DEF SessionRecords
  <2>3. /\ notifications' \in Seq(Rows) /\ Len(notifications') = Len(notifications)
        /\ DOMAIN notifications' = DOMAIN notifications
    BY <1>2, <1>3, <2>1, <2>2, ExceptSeq, LenProperties
  <2>4. /\ tasks \in Seq(Ids) /\ step \in {"idle", "background"}
        /\ step = "idle" <=> tasks = << >>
        /\ \A i \in DOMAIN tasks : tasks[i] \in DOMAIN notifications
    BY <1>2
  <2> HIDE DEF tasks, step, row
  <2>5. /\ new \in SessionRecords /\ new.tasks = tasks /\ new.step = step
    BY <2>4, Records DEF SessionRecords
  <2> HIDE DEF new
  <2>6. session'[s] = new
    BY <1>3, <2>1
  <2>7. SessionInv(s)'
    BY <2>3, <2>4, <2>5, <2>6 DEF SessionInv
  <2> QED BY <1>3, <2>1, <2>3, <2>5, <2>7, SessionStep
<1> QED BY <1>4, <1>5, <1>6 DEF Dispatch

LEMMA DieStep ==
  ASSUME Inv, NEW s \in Sessions, Die(s)
  PROVE  NotificationsTypeOK' /\ \A t \in Sessions : SessionInv(t)'
<1>1. session' = [session EXCEPT ![s] = IdleSession] /\ UNCHANGED notifications
  BY DEF Die
<1>2. IdleSession \in SessionRecords /\ IdleSession.step = "idle" /\ IdleSession.tasks = << >>
  BY Records DEF IdleSession
<1>3. TasksOf(s) \subseteq Ids
  <2>1. session[s].tasks \in Seq(Ids)
    BY OrderIsThere DEF SessionRecords
  <2> QED BY <2>1, ItemOfSeq DEF TasksOf
<1>4. /\ notifications \in Seq(Rows) /\ lost' \subseteq Ids
      /\ sends \in [Ids -> Seq(Answers \cup {"none"})] /\ session'[s] = IdleSession
  BY <1>1, <1>3 DEF Inv, TypeOK, NotificationsTypeOK, Die
<1>6. sends' \in [Ids -> Seq(Answers \cup {"none"})]
  <2>1. Current(s) \in Ids
    BY TaskFacts DEF Die
  <2>2. Append(sends[Current(s)], "none") \in Seq(Answers \cup {"none"})
    BY <1>4, <2>1, AppendProperties
  <2> QED BY <1>4, <2>1, <2>2 DEF Die
<1>5. SessionInv(s)'
  BY <1>2, <1>4 DEF SessionInv
<1> QED BY <1>1, <1>2, <1>4, <1>5, <1>6, SessionStep
-----------------------------------------------------------------------------
LEMMA UpdateLoadStep ==
  ASSUME Inv, NEW s \in Sessions, NEW o \in Orders, NEW target \in OrderStatus,
         UpdateLoad(s, o, target)
  PROVE  Inv'
<1> DEFINE step == ReadForUpdate("update_loaded")
           list == <<o>>
<1>1. /\ step \in {"update_loaded", "error"} /\ list \in Seq(Orders) /\ list # << >>
      /\ orders[o] \in OrderStatus \cup {ABSENT}
  BY DEF ReadForUpdate, Inv, TypeOK
<1>2. orders[o] # ABSENT
  BY DEF UpdateLoad, Legal, Successor, ABSENT, OrderStatus
<1>3. Start(s, "update", step, list, target, orders[o])
  BY DEF UpdateLoad
<1> HIDE DEF step, list
<1>4. PICK r \in RequestRecords :
         /\ request' = [request EXCEPT ![s] = r]
         /\ r.step = step /\ r.rest = list /\ r.target = target /\ r.loaded = orders[o]
  <2>1. step \in Steps
    BY <1>1 DEF Steps
  <2> QED BY <1>1, <1>3, <2>1, StartFacts
<1>5. request'[s] = r
  BY <1>4 DEF Inv, TypeOK
<1>6. RequestInv(s)'
  BY <1>1, <1>2, <1>4, <1>5 DEF RequestInv, UpdateLoad, HasOrder
<1> QED BY <1>4, <1>6, RequestStep DEF UpdateLoad, Inv, TypeOK

LEMMA BulkBeginStep ==
  ASSUME Inv, NEW s \in Sessions, NEW list \in BulkLists, NEW target \in OrderStatus,
         BulkBegin(s, list, target)
  PROVE  Inv'
<1>1. list \in Seq(Orders) /\ list # << >>
  <2>1. PICK n \in 1 .. 2 : list \in [1 .. n -> Orders]
    BY DEF BulkLists
  <2> QED BY <2>1
<1>2. PICK r \in RequestRecords :
         /\ request' = [request EXCEPT ![s] = r]
         /\ r.step = "bulk" /\ r.rest = list
  <2>1. "bulk" \in Steps /\ Start(s, "bulk", "bulk", list, target, ABSENT)
    BY DEF Steps, BulkBegin
  <2> QED BY <1>1, <2>1, StartFacts
<1>3. request'[s] = r
  BY <1>2 DEF Inv, TypeOK
<1>4. RequestInv(s)'
  BY <1>1, <1>2, <1>3 DEF RequestInv, HasOrder
<1> QED BY <1>2, <1>4, RequestStep DEF BulkBegin, Inv, TypeOK

LEMMA NotifyReadyLoadStep ==
  ASSUME Inv, NEW s \in Sessions, NEW o \in Orders, NotifyReadyLoad(s, o), WasReady(o)
  PROVE  Inv'
<1> DEFINE step == ReadForUpdate("notify_ready")
           list == <<o>>
<1>1. step \in {"notify_ready", "error"} /\ list \in Seq(Orders) /\ list # << >> /\ Head(list) = o
  BY DEF ReadForUpdate
<1>2. Start(s, "notify_ready", step, list, "READY", ABSENT)
  BY DEF NotifyReadyLoad
<1> HIDE DEF step, list
<1>3. PICK r \in RequestRecords :
         request' = [request EXCEPT ![s] = r] /\ r.step = step /\ r.rest = list
  <2>1. step \in Steps /\ "READY" \in OrderStatus
    BY <1>1 DEF Steps, OrderStatus
  <2> QED BY <1>1, <1>2, <2>1, StartFacts
<1>4. request'[s] = r
  BY <1>3 DEF Inv, TypeOK
<1>5. RequestInv(s)'
  BY <1>1, <1>3, <1>4 DEF RequestInv, NotifyReadyLoad, HasOrder, Order, WasReady
<1> QED BY <1>3, <1>5, RequestStep DEF NotifyReadyLoad, Inv, TypeOK

LEMMA InStatusType ==
  \A statuses : InStatus(statuses) \in Nat
<1>1. ASSUME NEW statuses PROVE InStatus(statuses) \in Nat
  <2>1. {o \in Orders : orders[o] \in statuses} \subseteq Orders
    OBVIOUS
  <2> QED BY <2>1, FS_Subset, FS_CardinalityType DEF InStatus
<1> QED BY <1>1

\* The dashboard's three reads.
LEMMA DashboardFacts ==
  ASSUME Inv, NEW s \in Sessions
  PROVE  /\ DashboardOrders(s) =>
              \E r \in RequestRecords :
                /\ request' = [request EXCEPT ![s] = r] /\ r.step = "counting"
                /\ r.seen.orders = InStatus(OrderStatus)
         /\ DashboardCounts(s) =>
              \E r \in RequestRecords :
                /\ request' = [request EXCEPT ![s] = r] /\ r.step = "summing"
                /\ r.seen.orders = request[s].seen.orders
                /\ r.seen.counted = InStatus(Counted)
                /\ r.seen.picked_up = InStatus({"PICKED_UP"})
         /\ DashboardRevenue(s) =>
              \E r \in RequestRecords :
                /\ request' = [request EXCEPT ![s] = r] /\ r.step = "summary"
                /\ r.seen.orders = request[s].seen.orders
                /\ r.seen.counted = request[s].seen.counted
                /\ r.seen.picked_up = request[s].seen.picked_up
                /\ r.seen.revenue = InStatus({"PICKED_UP"})
<1> DEFINE all == InStatus(OrderStatus)
           counted == InStatus(Counted)
           picked == InStatus({"PICKED_UP"})
<1>1. all \in Nat /\ counted \in Nat /\ picked \in Nat
  BY InStatusType
<1>2. request[s] \in RequestRecords /\ IdleRequest \in RequestRecords
  BY OrderIsThere, Records
<1> HIDE DEF all, counted, picked
<1>3. ASSUME DashboardOrders(s)
      PROVE  \E r \in RequestRecords :
                /\ request' = [request EXCEPT ![s] = r] /\ r.step = "counting"
                /\ r.seen.orders = all
  <2> DEFINE r == [IdleRequest EXCEPT !.step = "counting", !.seen.orders = all]
  <2>1. request' = [request EXCEPT ![s] = r]
    BY <1>3 DEF DashboardOrders, all
  <2>2. r \in RequestRecords /\ r.step = "counting" /\ r.seen.orders = all
    BY <1>1, <1>2 DEF RequestRecords, Summaries
  <2> QED BY <2>1, <2>2
<1>4. ASSUME DashboardCounts(s)
      PROVE  \E r \in RequestRecords :
                /\ request' = [request EXCEPT ![s] = r] /\ r.step = "summing"
                /\ r.seen.orders = request[s].seen.orders
                /\ r.seen.counted = counted /\ r.seen.picked_up = picked
  <2> DEFINE old == request[s]
             r == [old EXCEPT !.step = "summing", !.seen.counted = counted,
                              !.seen.picked_up = picked]
  <2>1. request' = [request EXCEPT ![s] = r]
    BY <1>4 DEF DashboardCounts, counted, picked
  <2>2. r \in RequestRecords /\ r.step = "summing" /\ r.seen.orders = old.seen.orders
        /\ r.seen.counted = counted /\ r.seen.picked_up = picked
    BY <1>1, <1>2 DEF RequestRecords, Summaries
  <2> QED BY <2>1, <2>2
<1>5. ASSUME DashboardRevenue(s)
      PROVE  \E r \in RequestRecords :
                /\ request' = [request EXCEPT ![s] = r] /\ r.step = "summary"
                /\ r.seen.orders = request[s].seen.orders
                /\ r.seen.counted = request[s].seen.counted
                /\ r.seen.picked_up = request[s].seen.picked_up
                /\ r.seen.revenue = picked
  <2> DEFINE old == request[s]
             r == [old EXCEPT !.step = "summary", !.seen.revenue = picked]
  <2>1. request' = [request EXCEPT ![s] = r]
    BY <1>5 DEF DashboardRevenue, picked
  <2>2. r \in RequestRecords /\ r.step = "summary" /\ r.seen.orders = old.seen.orders
        /\ r.seen.counted = old.seen.counted /\ r.seen.picked_up = old.seen.picked_up
        /\ r.seen.revenue = picked
    BY <1>1, <1>2 DEF RequestRecords, Summaries
  <2> QED BY <2>1, <2>2
<1> QED BY <1>3, <1>4, <1>5 DEF all, counted, picked

LEMMA DashboardStep ==
  ASSUME Inv, NEW s \in Sessions,
         DashboardOrders(s) \/ DashboardCounts(s) \/ DashboardRevenue(s)
  PROVE  Inv'
<1>1. PICK r \in RequestRecords :
        /\ request' = [request EXCEPT ![s] = r] /\ r.step \in {"counting", "summing", "summary"}
  BY DashboardFacts
<1>2. request'[s] = r
  BY <1>1 DEF Inv, TypeOK
<1>3. RequestInv(s)'
  BY <1>1, <1>2 DEF RequestInv, HasOrder
<1>4. /\ UNCHANGED <<notificationVars, orders, order_status_logs, workload, raced, faults>>
      /\ faults \in 0 .. MaxFaults
  BY DEF DashboardOrders, DashboardCounts, DashboardRevenue, Inv, TypeOK
<1> QED BY <1>1, <1>3, <1>4, RequestStep

\* The requests of a bulk update.
LEMMA NextInBulkFacts ==
  ASSUME Inv, NEW s \in Sessions, request[s].step \in {"bulk", "bulk_loaded"}, NextInBulk(s)
  PROVE  \E r \in RequestRecords :
           /\ request' = [request EXCEPT ![s] = r]
           /\ \/ r.step = "idle"
              \/ r.step = "bulk" /\ r.rest # << >>
<1> DEFINE old == request[s]
<1>1. old \in RequestRecords /\ old.rest \in Seq(Orders) /\ old.rest # << >>
  BY OrderIsThere DEF RequestInv, HasOrder, RequestRecords
<1>2. CASE Len(old.rest) > 1
  <2> DEFINE r == [old EXCEPT !.step = "bulk", !.rest = Tail(old.rest), !.loaded = ABSENT]
  <2>1. request' = [request EXCEPT ![s] = r]
    BY <1>2 DEF NextInBulk
  <2>2. Tail(old.rest) \in Seq(Orders) /\ Len(Tail(old.rest)) = Len(old.rest) - 1
    BY <1>1, HeadTailProperties
  <2>3. Tail(old.rest) # << >>
    BY <1>1, <1>2, <2>2, EmptySeq, LenProperties
  <2>4. r \in RequestRecords /\ r.step = "bulk" /\ r.rest = Tail(old.rest)
    BY <1>1, <2>2 DEF RequestRecords
  <2> QED BY <2>1, <2>3, <2>4
<1>3. CASE ~(Len(old.rest) > 1)
  <2>1. request' = [request EXCEPT ![s] = IdleRequest]
    BY <1>3 DEF NextInBulk
  <2>2. IdleRequest \in RequestRecords /\ IdleRequest.step = "idle"
    BY Records DEF IdleRequest
  <2> QED BY <2>1, <2>2
<1> QED BY <1>2, <1>3

LEMMA GoToFacts ==
  ASSUME Inv, NEW s \in Sessions, NEW step \in Steps, GoTo(s, step)
  PROVE  \E r \in RequestRecords :
           /\ request' = [request EXCEPT ![s] = r] /\ request'[s] = r
           /\ r.step = step /\ r.rest = request[s].rest /\ r.target = request[s].target
<1> DEFINE r == [request[s] EXCEPT !.step = step]
<1>1. request' = [request EXCEPT ![s] = r]
  BY DEF GoTo
<1>2. r \in RequestRecords /\ r.step = step /\ r.rest = request[s].rest /\ r.target = request[s].target
  BY OrderIsThere, NewStep
<1> HIDE DEF r
<1>3. request'[s] = r
  BY <1>1 DEF Inv, TypeOK
<1> QED BY <1>1, <1>2, <1>3

LEMMA FinishFacts ==
  ASSUME Inv, NEW s \in Sessions, Finish(s)
  PROVE  /\ IdleRequest \in RequestRecords /\ request' = [request EXCEPT ![s] = IdleRequest]
         /\ RequestInv(s)' /\ request'[s].step = "idle"
<1>1. /\ IdleRequest \in RequestRecords /\ request' = [request EXCEPT ![s] = IdleRequest]
      /\ request'[s] = IdleRequest /\ IdleRequest.step = "idle"
  BY Records DEF Finish, IdleRequest, Inv, TypeOK
<1>2. RequestInv(s)'
  BY <1>1 DEF RequestInv, HasOrder
<1> QED BY <1>1, <1>2

LEMMA UpdateCommitStep ==
  ASSUME Inv, NEW s \in Sessions, UpdateCommit(s)
  PROVE  Inv'
<1>1. /\ request[s].step = "update_loaded" /\ ApplyStatusTransition(s, "update")
      /\ GoTo(s, "changed") /\ UNCHANGED <<notificationVars, workload, faults>>
  BY DEF UpdateCommit, AfterChange
<1>2. PICK r \in RequestRecords :
        /\ request' = [request EXCEPT ![s] = r] /\ request'[s] = r
        /\ r.step = "changed" /\ r.rest = request[s].rest
  <2>1. "changed" \in Steps
    BY DEF Steps
  <2> QED BY <1>1, <2>1, GoToFacts
<1>3. RequestInv(s)'
  <2>1. request[s].rest # << >>
    BY <1>1, OrderIsThere DEF RequestInv, HasOrder
  <2> QED BY <1>2, <2>1 DEF RequestInv
<1> QED BY <1>1, <1>2, <1>3, MoveStep

\* After a message, or a queueing that failed, the handler is done or goes on to
\* the second message.
LEMMA AfterMessageFacts ==
  ASSUME Inv, NEW s \in Sessions, request[s].step \in {"changed", "completed"}, AfterMessage(s)
  PROVE  /\ \E r \in RequestRecords : request' = [request EXCEPT ![s] = r]
         /\ RequestInv(s)'
<1>1. CASE request[s].step = "changed" /\ request[s].target = "READY"
  <2>1. PICK r \in RequestRecords :
          /\ request' = [request EXCEPT ![s] = r] /\ request'[s] = r
          /\ r.step = "completed" /\ r.rest = request[s].rest /\ r.target = request[s].target
    <3>1. "completed" \in Steps /\ GoTo(s, "completed")
      BY <1>1 DEF Steps, AfterMessage
    <3> QED BY <3>1, GoToFacts
  <2>2. request[s].rest # << >>
    BY <1>1, OrderIsThere DEF RequestInv, HasOrder
  <2>3. RequestInv(s)'
    BY <1>1, <2>1, <2>2 DEF RequestInv
  <2> QED BY <2>1, <2>3
<1>2. CASE ~(request[s].step = "changed" /\ request[s].target = "READY")
  <2>1. Finish(s)
    BY <1>2 DEF AfterMessage
  <2> QED BY <2>1, FinishFacts
<1> QED BY <1>1, <1>2

LEMMA TopicFacts ==
  ASSUME NEW o \in Orders, NEW what \in OrderStatus \cup {"completed", "ready_mail"}
  PROVE  <<o, what>> \in Topics
BY DEF OrderTopics

LEMMA QueueMessageStep ==
  ASSUME Inv, NEW s \in Sessions, QueueMessage(s)
  PROVE  Inv'
<1> DEFINE told == IF request[s].step = "changed" THEN request[s].target ELSE "completed"
<1>1. /\ request[s].step \in {"changed", "completed"} /\ Queue(s, <<Order(s), told>>, "sms")
      /\ AfterMessage(s) /\ UNCHANGED <<orders, order_status_logs, workload, raced, faults>>
  BY DEF QueueMessage
<1>2. <<Order(s), told>> \in Topics /\ "sms" \in NotificationChannel
  <2>1. Order(s) \in Orders /\ request[s].target \in OrderStatus
    BY <1>1, OrderIsThere DEF HasOrder, RequestRecords
  <2> QED BY <2>1, TopicFacts DEF NotificationChannel
<1>3. /\ \E r \in RequestRecords : request' = [request EXCEPT ![s] = r]
      /\ RequestInv(s)'
  BY <1>1, AfterMessageFacts
<1> HIDE DEF told
<1> QED BY <1>1, <1>2, <1>3, QueueStep

LEMMA QueueFailsStep ==
  ASSUME Inv, NEW s \in Sessions, QueueFails(s)
  PROVE  Inv'
<1>1. /\ request[s].step \in {"changed", "completed"} /\ AfterMessage(s)
      /\ UNCHANGED <<notificationVars, orders, order_status_logs, workload, raced>>
      /\ faults' \in 0 .. MaxFaults
  BY DEF QueueFails, Inv, TypeOK
<1> QED BY <1>1, AfterMessageFacts, RequestStep

LEMMA NotifyReadyQueueStep ==
  ASSUME Inv, NEW s \in Sessions, NotifyReadyQueue(s)
  PROVE  Inv'
<1>1. /\ request[s].step = "notify_ready" /\ Queue(s, <<Order(s), "ready_mail">>, "email")
      /\ Finish(s) /\ UNCHANGED <<orders, order_status_logs, workload, raced, faults>>
  BY DEF NotifyReadyQueue
<1>2. <<Order(s), "ready_mail">> \in Topics /\ "email" \in NotificationChannel
  BY <1>1, OrderIsThere, TopicFacts DEF HasOrder, NotificationChannel
<1> QED BY <1>1, <1>2, FinishFacts, QueueStep

LEMMA BulkLoadStep ==
  ASSUME Inv, NEW s \in Sessions, BulkLoad(s)
  PROVE  Inv'
<1> DEFINE legal == Legal(orders[Order(s)], request[s].target)
           step == ReadForUpdate("bulk_loaded")
<1>1. /\ request[s].step = "bulk"
      /\ UNCHANGED <<notificationVars, orders, order_status_logs, workload, raced, faults>>
      /\ faults \in 0 .. MaxFaults
  BY DEF BulkLoad, Inv, TypeOK
<1>2. CASE legal \/ ReadForUpdate("bulk") = "error"
  <2> DEFINE old == request[s]
             r == [old EXCEPT !.step = step, !.loaded = orders[Order(s)]]
  <2>1. request' = [request EXCEPT ![s] = r]
    BY <1>2 DEF BulkLoad
  <2>2. /\ Order(s) \in Orders /\ old \in RequestRecords /\ old.rest # << >>
    BY <1>1, OrderIsThere DEF HasOrder, RequestInv
  <2>3. orders[Order(s)] \in OrderStatus \cup {ABSENT}
    BY <2>2 DEF Inv, TypeOK
  <2>4. /\ step \in {"bulk_loaded", "error"}
        /\ step = "bulk_loaded" => legal
    BY <1>2, OrdersAssumption DEF ReadForUpdate
  <2>5. legal => orders[Order(s)] \in OrderStatus
    <3>1. request[s].target \in OrderStatus
      BY <2>2 DEF RequestRecords
    <3> QED BY <2>3, <3>1 DEF Legal, Successor, ABSENT, OrderStatus
  <2> HIDE DEF step
  <2>6. /\ r \in RequestRecords /\ r.step = step /\ r.rest = old.rest
        /\ r.target = old.target /\ r.loaded = orders[Order(s)]
    BY <2>2, <2>3, <2>4 DEF RequestRecords
  <2> HIDE DEF r
  <2>7. request'[s] = r
    BY <2>1 DEF Inv, TypeOK
  <2>8. RequestInv(s)'
    BY <2>2, <2>4, <2>5, <2>6, <2>7 DEF RequestInv
  <2> QED BY <1>1, <2>1, <2>6, <2>8, RequestStep
<1>3. CASE ~(legal \/ ReadForUpdate("bulk") = "error")
  <2>1. NextInBulk(s)
    BY <1>3 DEF BulkLoad
  <2>2. PICK r \in RequestRecords :
          /\ request' = [request EXCEPT ![s] = r]
          /\ r.step = "idle" \/ (r.step = "bulk" /\ r.rest # << >>)
    BY <1>1, <2>1, NextInBulkFacts
  <2>3. request'[s] = r
    BY <2>2 DEF Inv, TypeOK
  <2>4. RequestInv(s)'
    BY <2>2, <2>3 DEF RequestInv, HasOrder
  <2> QED BY <1>1, <2>2, <2>4, RequestStep
<1> QED BY <1>2, <1>3

LEMMA BulkCommitStep ==
  ASSUME Inv, NEW s \in Sessions, BulkCommit(s)
  PROVE  Inv'
<1>1. /\ request[s].step = "bulk_loaded" /\ ApplyStatusTransition(s, "bulk")
      /\ NextInBulk(s) /\ UNCHANGED <<notificationVars, workload, faults>>
  BY DEF BulkCommit
<1>2. PICK r \in RequestRecords :
        /\ request' = [request EXCEPT ![s] = r]
        /\ r.step = "idle" \/ (r.step = "bulk" /\ r.rest # << >>)
  BY <1>1, NextInBulkFacts
<1>3. request'[s] = r
  BY <1>2 DEF Inv, TypeOK
<1>4. RequestInv(s)'
  BY <1>2, <1>3 DEF RequestInv, HasOrder
<1> QED BY <1>1, <1>2, <1>4, MoveStep

LEMMA AnswerStep ==
  ASSUME Inv, NEW s \in Sessions, Answer(s)
  PROVE  Inv'
<1>1. /\ Finish(s) /\ faults' \in 0 .. MaxFaults
      /\ UNCHANGED <<notificationVars, orders, order_status_logs, workload, raced>>
  BY DEF Answer, Inv, TypeOK
<1> QED BY <1>1, FinishFacts, RequestStep

LEMMA AbortStep ==
  ASSUME Inv, NEW s \in Sessions, Abort(s)
  PROVE  Inv'
<1>1. /\ Finish(s) /\ faults' \in 0 .. MaxFaults
      /\ UNCHANGED <<orders, order_status_logs, workload, raced>>
      /\ UNCHANGED notificationVars \/ Die(s)
  BY DEF Abort, Inv, TypeOK
<1>2. CASE UNCHANGED notificationVars
  BY <1>1, <1>2, FinishFacts, RequestStep
<1>3. CASE Die(s)
  <2>1. /\ request' \in [Sessions -> RequestRecords]
        /\ \A t \in Sessions \ {s} : request'[t] = request[t] /\ Order(t)' = Order(t)
    BY <1>1, FinishFacts DEF Inv, TypeOK, Order
  <2>2. \A t \in Sessions \ {s} : RequestInv(t)'
    BY <1>1, <2>1 DEF Inv, RequestInv, WasReady
  <2>3. TypeOK'
    BY <1>1, <1>3, <2>1, DieStep DEF Inv, TypeOK
  <2> QED BY <1>1, <1>3, <2>2, <2>3, DieStep, FinishFacts DEF Inv
<1> QED BY <1>1, <1>2, <1>3

LEMMA BackgroundStep ==
  ASSUME Inv, NEW s \in Sessions, Background(s)
  PROVE  Inv'
<1>1. Dispatch(s) /\ UNCHANGED orderVars
  BY DEF Background
<1>2. \A t \in Sessions : RequestInv(t)'
  BY <1>1 DEF Inv, RequestInv, WasReady, Order, orderVars
<1>3. TypeOK'
  BY <1>1, DispatchStep DEF Inv, TypeOK, orderVars
<1> QED BY <1>1, <1>2, <1>3, DispatchStep DEF Inv

LEMMA PlaceOrderStep ==
  ASSUME Inv, NEW o \in Orders, PlaceOrder(o)
  PROVE  Inv'
<1>1. /\ orders' = [orders EXCEPT ![o] = "QUEUED"]
      /\ UNCHANGED <<notificationVars, order_status_logs, workload, request, raced, faults>>
  BY DEF PlaceOrder
<1>2. TypeOK'
  <2>1. "QUEUED" \in OrderStatus
    BY DEF OrderStatus
  <2>2. orders' \in [Orders -> OrderStatus \cup {ABSENT}]
    BY <1>1, <2>1 DEF Inv, TypeOK
  <2> QED BY <1>1, <2>2 DEF Inv, TypeOK, NotificationsTypeOK, notificationVars
<1>3. \A t \in Sessions : RequestInv(t)' /\ SessionInv(t)'
  BY <1>1 DEF Inv, RequestInv, WasReady, Order, SessionInv, notificationVars
<1> QED BY <1>2, <1>3 DEF Inv

LEMMA QuietStep ==
  ASSUME Inv, UNCHANGED vars
  PROVE  Inv'
<1>1. TypeOK'
  BY DEF Inv, TypeOK, NotificationsTypeOK, vars, notificationVars, orderVars
<1>2. \A t \in Sessions : RequestInv(t)' /\ SessionInv(t)'
  BY DEF Inv, RequestInv, WasReady, Order, SessionInv, vars, notificationVars, orderVars
<1> QED BY <1>1, <1>2 DEF Inv
-----------------------------------------------------------------------------
\* What an order's history says of it.
OrderInv(o) ==
  LET log == order_status_logs[o]
  IN  /\ orders[o] # "CANCELLED"
      /\ log = << >> => orders[o] \in {"QUEUED", ABSENT}
      /\ log # << >> => orders[o] = log[Len(log)].new
      /\ o \notin raced =>
           \A i \in DOMAIN log :
             /\ log[i].new = Successor(log[i].previous)
             /\ log[i].previous = (IF i = 1 THEN "QUEUED" ELSE log[i - 1].new)

HistoryInv == \A o \in Orders : OrderInv(o)

LEMMA InitInv ==
  Init => Inv /\ HistoryInv
<1> SUFFICES ASSUME Init PROVE Inv /\ HistoryInv
  OBVIOUS
<1>1. PICK w \in Workloads :
        /\ workload = w /\ orders = w.start
        /\ order_status_logs = [o \in Orders |-> History(w.start[o])]
  BY DEF Init
<1>2. w.start \in [Orders -> (OrderStatus \ {"CANCELLED"}) \cup {ABSENT}]
  BY OrdersAssumption
<1>3. \A o \in Orders : order_status_logs[o] = History(w.start[o])
  BY <1>1
<1>4. ASSUME NEW o \in Orders PROVE order_status_logs[o] \in Seq(LogRows) /\ OrderInv(o)
  <2> DEFINE status == w.start[o]
             log == History(status)
  <2>1. status \in (OrderStatus \ {"CANCELLED"}) \cup {ABSENT}
    BY <1>2
  <2> HIDE DEF status
  <2>2. /\ log \in Seq(LogRows)
        /\ log = << >> => status \in {"QUEUED", ABSENT}
        /\ log # << >> => log[Len(log)].new = status
        /\ \A i \in 1 .. Len(log) :
             /\ log[i].new = Successor(log[i].previous)
             /\ log[i].previous = (IF i = 1 THEN "QUEUED" ELSE log[i - 1].new)
    BY <2>1, HistoryFacts
  <2>3. order_status_logs[o] = log /\ orders[o] = status
    BY <1>1, <1>3 DEF status
  <2>4. status # "CANCELLED"
    BY <2>1 DEF ABSENT
  <2> HIDE DEF log
  <2>5. DOMAIN log = 1 .. Len(log)
    BY <2>2, LenProperties
  <2> QED BY <2>2, <2>3, <2>4, <2>5 DEF OrderInv
<1>5. order_status_logs \in [Orders -> Seq(LogRows)]
  BY <1>1, <1>3, <1>4
<1>6. NotificationsTypeOK
  <2>1. << >> \in Seq(Rows) /\ Len(<< >>) = 0 /\ MaxNotifications \in Nat
    BY NotificationsAssumption
  <2>2. session \in [Sessions -> SessionRecords] /\ sends \in [Ids -> Seq(Answers \cup {"none"})]
    BY Records DEF Init, NotificationsInit
  <2> QED BY <2>1, <2>2 DEF Init, NotificationsInit, NotificationsTypeOK
<1>7. TypeOK
  <2>1. orders \in [Orders -> OrderStatus \cup {ABSENT}] /\ workload \in Workloads
    BY <1>1, <1>2
  <2>2. request \in [Sessions -> RequestRecords] /\ raced \subseteq Orders /\ faults \in 0 .. MaxFaults
    BY Records, OrdersAssumption DEF Init
  <2> QED BY <1>5, <1>6, <2>1, <2>2 DEF TypeOK
<1>8. \A s \in Sessions : RequestInv(s) /\ SessionInv(s)
  <2>1. ASSUME NEW s \in Sessions
        PROVE  /\ request[s].step = "idle" /\ session[s].step = "idle"
               /\ session[s].tasks = << >>
    BY DEF Init, NotificationsInit, IdleRequest, IdleSession
  <2>2. \A i : i \notin DOMAIN << >>
    OBVIOUS
  <2> QED BY <2>1, <2>2 DEF RequestInv, SessionInv, HasOrder
<1> QED BY <1>4, <1>7, <1>8 DEF Inv, HistoryInv

\* An order that is ready has a history that says so.
LEMMA ReadyWasReady ==
  ASSUME Inv, HistoryInv, NEW o \in Orders, orders[o] = "READY"
  PROVE  WasReady(o)
<1> DEFINE log == order_status_logs[o]
<1>1. log # << >> /\ log[Len(log)].new = "READY"
  BY DEF HistoryInv, OrderInv, ABSENT
<1>2. log \in Seq(LogRows)
  BY DEF Inv, TypeOK
<1>3. Len(log) \in DOMAIN log
  BY <1>1, <1>2, LenProperties, EmptySeq
<1> QED BY <1>1, <1>3 DEF WasReady

\* The three ways a step treats the orders.
OrdersStay == UNCHANGED <<orders, order_status_logs, raced>>

Placed(o) ==
  /\ orders[o] = ABSENT /\ orders' = [orders EXCEPT ![o] = "QUEUED"]
  /\ UNCHANGED <<notificationVars, request, order_status_logs, raced>>

MovedIn(s, by) ==
  /\ request[s].step \in {"update_loaded", "bulk_loaded"} /\ ApplyStatusTransition(s, by)
  /\ UNCHANGED notificationVars

LEMMA Step ==
  ASSUME Inv, HistoryInv, [Next]_vars
  PROVE  /\ Inv'
         /\ \/ OrdersStay
            \/ \E o \in Orders : Placed(o)
            \/ \E s \in Sessions, by \in {"update", "bulk"} : MovedIn(s, by)
<1>1. CASE UNCHANGED vars
  BY <1>1, QuietStep DEF OrdersStay, vars, orderVars
<1>2. ASSUME NEW o \in Orders, PlaceOrder(o) PROVE Inv' /\ Placed(o)
  BY <1>2, PlaceOrderStep DEF PlaceOrder, Placed
<1>3. ASSUME NEW s \in Sessions, NEW o \in Orders, NEW target \in OrderStatus, UpdateLoad(s, o, target)
      PROVE  Inv' /\ OrdersStay
  BY <1>3, UpdateLoadStep DEF UpdateLoad, OrdersStay
<1>4. ASSUME NEW s \in Sessions, NEW list \in BulkLists, NEW target \in OrderStatus,
             BulkBegin(s, list, target)
      PROVE  Inv' /\ OrdersStay
  BY <1>4, BulkBeginStep DEF BulkBegin, OrdersStay
<1>5. ASSUME NEW s \in Sessions, NEW o \in Orders, NotifyReadyLoad(s, o)
      PROVE  Inv' /\ OrdersStay
  <2>1. WasReady(o)
    BY <1>5, ReadyWasReady DEF NotifyReadyLoad, ReadyToNotify
  <2> QED BY <1>5, <2>1, NotifyReadyLoadStep DEF NotifyReadyLoad, OrdersStay
<1>6. ASSUME NEW s \in Sessions, DashboardOrders(s) \/ DashboardCounts(s) \/ DashboardRevenue(s)
      PROVE  Inv' /\ OrdersStay
  BY <1>6, DashboardStep DEF DashboardOrders, DashboardCounts, DashboardRevenue, OrdersStay
<1>7. ASSUME NEW s \in Sessions, UpdateCommit(s) PROVE Inv' /\ MovedIn(s, "update")
  BY <1>7, UpdateCommitStep DEF UpdateCommit, MovedIn
<1>8. ASSUME NEW s \in Sessions, BulkCommit(s) PROVE Inv' /\ MovedIn(s, "bulk")
  BY <1>8, BulkCommitStep DEF BulkCommit, MovedIn
<1>9. ASSUME NEW s \in Sessions, QueueMessage(s) \/ QueueFails(s) \/ NotifyReadyQueue(s)
      PROVE  Inv' /\ OrdersStay
  BY <1>9, QueueMessageStep, QueueFailsStep, NotifyReadyQueueStep
     DEF QueueMessage, QueueFails, NotifyReadyQueue, OrdersStay
<1>10. ASSUME NEW s \in Sessions, BulkLoad(s) \/ Answer(s) \/ Abort(s) \/ Background(s)
      PROVE  Inv' /\ OrdersStay
  BY <1>10, BulkLoadStep, AnswerStep, AbortStep, BackgroundStep
     DEF BulkLoad, Answer, Abort, Background, OrdersStay, orderVars
<1>11. ASSUME NEW s \in Sessions, Proceed(s)
      PROVE  /\ Inv'
             /\ OrdersStay \/ \E by \in {"update", "bulk"} : MovedIn(s, by)
  BY <1>6, <1>7, <1>8, <1>9, <1>10, <1>11 DEF Proceed
<1> QED BY <1>1, <1>2, <1>3, <1>4, <1>5, <1>6, <1>9, <1>10, <1>11 DEF Next

LEMMA HistoryStep ==
  ASSUME Inv, HistoryInv, [Next]_vars
  PROVE  HistoryInv'
<1>1. CASE OrdersStay
  BY <1>1 DEF OrdersStay, HistoryInv, OrderInv
<1>2. ASSUME NEW o \in Orders, Placed(o) PROVE HistoryInv'
  <2>1. /\ \A p \in Orders \ {o} : orders'[p] = orders[p]
        /\ orders'[o] = "QUEUED" /\ orders[o] = ABSENT
        /\ order_status_logs' = order_status_logs /\ raced' = raced
    BY <1>2 DEF Placed, Inv, TypeOK
  <2>2. order_status_logs[o] = << >>
    <3>1. ASSUME order_status_logs[o] # << >> PROVE FALSE
      <4> DEFINE log == order_status_logs[o]
      <4>1. log \in Seq(LogRows)
        BY DEF Inv, TypeOK
      <4>2. log[Len(log)] \in LogRows
        BY <3>1, <4>1, EmptySeq, LenProperties, ElementOfSeq
      <4> QED BY <2>1, <3>1, <4>2 DEF HistoryInv, OrderInv, LogRows, OrderStatus, ABSENT
    <3> QED BY <3>1
  <2>3. OrderInv(o)'
    <3>1. DOMAIN order_status_logs[o] = {}
      BY <2>2
    <3> QED BY <2>1, <2>2, <3>1 DEF OrderInv
  <2> QED BY <2>1, <2>3 DEF HistoryInv, OrderInv
<1>3. ASSUME NEW s \in Sessions, NEW by \in {"update", "bulk"}, MovedIn(s, by)
      PROVE  HistoryInv'
  <2>o. PICK o \in Orders : o = Order(s)
    BY <1>3, OrderIsThere DEF MovedIn, HasOrder
  <2> DEFINE row == [previous |-> request[s].loaded, new |-> request[s].target, by |-> by]
             old == order_status_logs[o]
             log == order_status_logs'[o]
  <2>1. /\ o \in Orders /\ row \in LogRows /\ old \in Seq(LogRows)
        /\ request[s].target \in OrderStatus
        /\ log = Append(old, row) /\ orders' = [orders EXCEPT ![o] = request[s].target]
        /\ \A p \in Orders \ {o} : /\ order_status_logs'[p] = order_status_logs[p]
                                   /\ orders'[p] = orders[p]
        /\ raced \subseteq raced'
        /\ orders[o] # request[s].loaded => o \in raced'
    BY <1>3, <2>o, MoveFacts DEF MovedIn
  <2>2. orders'[o] = request[s].target
    BY <2>1 DEF Inv, TypeOK
  <2>3. Legal(request[s].loaded, request[s].target) /\ request[s].loaded \in OrderStatus
    BY <1>3, OrderIsThere DEF MovedIn, RequestInv
  <2>4. /\ row.previous = request[s].loaded /\ row.new = request[s].target
        /\ row.new = Successor(row.previous)
    BY <2>3 DEF Legal
  <2>5. request[s].target # "CANCELLED"
    BY <2>3 DEF Legal, Successor, ABSENT
  <2> HIDE DEF row, old, log
  <2>6. /\ Len(log) = Len(old) + 1 /\ Len(old) \in Nat
        /\ DOMAIN old = 1 .. Len(old) /\ DOMAIN log = 1 .. (Len(old) + 1)
        /\ log[Len(old) + 1] = row
        /\ \A i \in 1 .. Len(old) : log[i] = old[i]
    BY <2>1, Longer
  <2>7. log # << >>
    BY <2>6
  <2>8. ASSUME o \notin raced', NEW i \in DOMAIN log
        PROVE  /\ log[i].new = Successor(log[i].previous)
               /\ log[i].previous = (IF i = 1 THEN "QUEUED" ELSE log[i - 1].new)
    <3>1. /\ o \notin raced /\ orders[o] = request[s].loaded
          /\ old = << >> => orders[o] \in {"QUEUED", ABSENT}
          /\ old # << >> => orders[o] = old[Len(old)].new
          /\ \A j \in DOMAIN old :
               /\ old[j].new = Successor(old[j].previous)
               /\ old[j].previous = (IF j = 1 THEN "QUEUED" ELSE old[j - 1].new)
      BY <2>1, <2>8 DEF HistoryInv, OrderInv, old
    <3>2. CASE i \in 1 .. Len(old)
      <4>1. log[i] = old[i] /\ (i # 1 => log[i - 1] = old[i - 1])
        BY <2>6, <3>2
      <4> QED BY <2>6, <3>1, <3>2, <4>1
    <3>3. CASE i = Len(old) + 1 /\ Len(old) = 0
      <4>1. old = << >>
        BY <2>1, <3>3, EmptySeq
      <4>2. orders[o] = "QUEUED"
        BY <2>3, <3>1, <4>1 DEF ABSENT, OrderStatus
      <4> QED BY <2>4, <2>6, <3>1, <3>3, <4>2
    <3>4. CASE i = Len(old) + 1 /\ Len(old) # 0
      <4>1. old # << >>
        BY <2>1, <3>4, EmptySeq
      <4>2. log[i - 1] = old[Len(old)] /\ log[i] = row /\ i # 1
        BY <2>6, <3>4
      <4> QED BY <2>4, <3>1, <4>1, <4>2
    <3> QED BY <2>6, <3>2, <3>3, <3>4
  <2>9. orders'[o] = log[Len(log)].new
    BY <2>2, <2>4, <2>6
  <2>10. OrderInv(o)'
    <3>1. log = order_status_logs'[o]
      BY DEF log
    <3>2. /\ orders'[o] # "CANCELLED" /\ log # << >> /\ orders'[o] = log[Len(log)].new
          /\ o \notin raced' =>
               \A i \in DOMAIN log :
                 /\ log[i].new = Successor(log[i].previous)
                 /\ log[i].previous = (IF i = 1 THEN "QUEUED" ELSE log[i - 1].new)
      BY <2>2, <2>5, <2>7, <2>8, <2>9
    <3> QED BY <3>1, <3>2 DEF OrderInv
  <2>11. ASSUME NEW p \in Orders \ {o} PROVE OrderInv(p)'
    BY <2>1 DEF HistoryInv, OrderInv
  <2> QED BY <2>10, <2>11 DEF HistoryInv
<1> QED BY <1>1, <1>2, <1>3, Step
-----------------------------------------------------------------------------
\* Every e-mail that says an order is ready is about an order that was.
MailInv ==
  \A i \in DOMAIN notifications, o \in Orders :
    notifications[i].topic = <<o, "ready_mail">> => WasReady(o)

LEMMA WasReadyStays ==
  ASSUME Inv, HistoryInv, [Next]_vars, NEW o \in Orders, WasReady(o)
  PROVE  WasReady(o)'
<1>1. CASE OrdersStay \/ \E p \in Orders : Placed(p)
  BY <1>1 DEF OrdersStay, Placed, WasReady
<1>2. ASSUME NEW s \in Sessions, NEW by \in {"update", "bulk"}, MovedIn(s, by)
      PROVE  WasReady(o)'
  <2> DEFINE row == [previous |-> request[s].loaded, new |-> request[s].target, by |-> by]
             old == order_status_logs[o]
  <2>1. CASE o = Order(s)
    <3>1. row \in LogRows /\ old \in Seq(LogRows) /\ order_status_logs'[o] = Append(old, row)
      BY <1>2, <2>1, MoveFacts DEF MovedIn
    <3> HIDE DEF row
    <3>2. \A i \in DOMAIN old : i \in DOMAIN order_status_logs'[o] /\ order_status_logs'[o][i] = old[i]
      BY <3>1, Longer
    <3> QED BY <3>2 DEF WasReady
  <2>2. CASE o # Order(s)
    BY <1>2, <2>2, MoveFacts DEF MovedIn, WasReady
  <2> QED BY <2>1, <2>2
<1> QED BY <1>1, <1>2, Step

\* The rows of the table stay as they are, but for their status and times, or one
\* is added by a handler.
RowsStay ==
  /\ DOMAIN notifications' = DOMAIN notifications
  /\ \A i \in DOMAIN notifications : notifications'[i].topic = notifications[i].topic

LEMMA DispatchRows ==
  ASSUME Inv, NEW s \in Sessions, Dispatch(s) \/ Die(s)
  PROVE  RowsStay
<1>1. CASE UNCHANGED notifications
  BY <1>1 DEF RowsStay
<1>2. CASE DispatchCommit(s)
  <2> DEFINE new == MarkOutcome(notifications[Current(s)], session[s].row, session[s].success)
  <2>1. notifications' = [notifications EXCEPT ![Current(s)] = new]
    BY <1>2 DEF DispatchCommit
  <2>2. /\ Current(s) \in DOMAIN notifications /\ notifications[Current(s)] \in Rows
    BY <1>2, TaskFacts DEF DispatchCommit
  <2>3. new.topic = notifications[Current(s)].topic
    BY <2>2 DEF MarkOutcome, Rows
  <2> HIDE DEF new
  <2> QED BY <2>1, <2>2, <2>3 DEF RowsStay
<1> QED BY <1>1, <1>2 DEF Dispatch, DispatchLoad, DispatchSend, Die

LEMMA MailQueued ==
  ASSUME Inv, NEW s \in Sessions, NEW topic \in Topics, NEW channel \in NotificationChannel,
         Queue(s, topic, channel)
  PROVE  /\ DOMAIN notifications = 1 .. Len(notifications) /\ Len(notifications) \in Nat
         /\ DOMAIN notifications' = 1 .. (Len(notifications) + 1)
         /\ notifications'[Len(notifications) + 1].topic = topic
         /\ \A i \in 1 .. Len(notifications) : notifications'[i] = notifications[i]
<1> DEFINE row == NewRow(topic, channel)
<1>1. row \in Rows /\ notifications' = Append(notifications, row) /\ row.topic = topic
      /\ notifications \in Seq(Rows)
  BY QueueFacts DEF NewRow, Inv, TypeOK, NotificationsTypeOK
<1> HIDE DEF row
<1> QED BY <1>1, AppendProperties, LenProperties

\* What a step does to the table: a message of the two handlers that queue them.
Messaged(s, topic) ==
  \/ /\ QueueMessage(s)
     /\ topic = <<Order(s), IF request[s].step = "changed" THEN request[s].target
                                                           ELSE "completed">>
  \/ NotifyReadyQueue(s) /\ topic = <<Order(s), "ready_mail">>

LEMMA MessagedFacts ==
  ASSUME Inv, NEW s \in Sessions, NEW topic, Messaged(s, topic)
  PROVE  /\ Order(s) \in Orders /\ request[s].target \in OrderStatus
         /\ topic \in Topics
         /\ \E channel \in NotificationChannel : Queue(s, topic, channel)
<1>1. Order(s) \in Orders /\ request[s].target \in OrderStatus
  BY OrderIsThere DEF Messaged, QueueMessage, NotifyReadyQueue, HasOrder, RequestRecords
<1>2. topic \in Topics
  BY <1>1, TopicFacts DEF Messaged
<1>3. \E channel \in NotificationChannel : Queue(s, topic, channel)
  BY DEF Messaged, QueueMessage, NotifyReadyQueue, NotificationChannel
<1> QED BY <1>1, <1>2, <1>3

LEMMA TableStep ==
  ASSUME Inv, [Next]_vars
  PROVE  RowsStay \/ \E s \in Sessions, topic \in Topics : Messaged(s, topic)
<1>1. CASE UNCHANGED vars
  BY <1>1 DEF RowsStay, vars, notificationVars
<1>2. ASSUME NEW o \in Orders, PlaceOrder(o) PROVE RowsStay
  BY <1>2 DEF PlaceOrder, RowsStay, notificationVars
<1>3. ASSUME NEW s \in Sessions, NEW o \in Orders, NEW target \in OrderStatus, UpdateLoad(s, o, target)
      PROVE  RowsStay
  BY <1>3 DEF UpdateLoad, RowsStay, notificationVars
<1>4. ASSUME NEW s \in Sessions, NEW list \in BulkLists, NEW target \in OrderStatus,
             BulkBegin(s, list, target)
      PROVE  RowsStay
  BY <1>4 DEF BulkBegin, RowsStay, notificationVars
<1>5. ASSUME NEW s \in Sessions, NEW o \in Orders, NotifyReadyLoad(s, o) PROVE RowsStay
  BY <1>5 DEF NotifyReadyLoad, RowsStay, notificationVars
<1>6. ASSUME NEW s \in Sessions,
             \/ DashboardOrders(s) \/ DashboardCounts(s) \/ DashboardRevenue(s)
             \/ UpdateCommit(s) \/ BulkCommit(s) \/ QueueFails(s)
             \/ BulkLoad(s) \/ Answer(s)
      PROVE  RowsStay
  BY <1>6 DEF DashboardOrders, DashboardCounts, DashboardRevenue, UpdateCommit, BulkCommit,
              QueueFails, BulkLoad, Answer, RowsStay, notificationVars
<1>7. ASSUME NEW s \in Sessions, Abort(s) \/ Background(s) PROVE RowsStay
  <2>1. CASE UNCHANGED notificationVars
    BY <2>1 DEF RowsStay, notificationVars
  <2>2. CASE Dispatch(s) \/ Die(s)
    BY <2>2, DispatchRows
  <2> QED BY <1>7, <2>1, <2>2 DEF Abort, Background
<1>8. ASSUME NEW s \in Sessions, QueueMessage(s) \/ NotifyReadyQueue(s)
      PROVE  \E topic \in Topics : Messaged(s, topic)
  <2>1. \E topic : Messaged(s, topic)
    BY <1>8 DEF Messaged
  <2> QED BY <2>1, MessagedFacts
<1>9. ASSUME NEW s \in Sessions, Proceed(s)
      PROVE  RowsStay \/ \E topic \in Topics : Messaged(s, topic)
  BY <1>6, <1>7, <1>8, <1>9 DEF Proceed
<1> QED BY <1>1, <1>2, <1>3, <1>4, <1>5, <1>6, <1>7, <1>9 DEF Next

LEMMA MailStep ==
  ASSUME Inv, HistoryInv, MailInv, [Next]_vars
  PROVE  MailInv'
<1>1. CASE RowsStay
  BY <1>1, WasReadyStays DEF RowsStay, MailInv
<1>2. ASSUME NEW s \in Sessions, NEW topic \in Topics, Messaged(s, topic)
      PROVE  MailInv'
  <2>1. PICK channel \in NotificationChannel : Queue(s, topic, channel)
    BY <1>2, MessagedFacts
  <2>2. /\ DOMAIN notifications = 1 .. Len(notifications) /\ Len(notifications) \in Nat
        /\ DOMAIN notifications' = 1 .. (Len(notifications) + 1)
        /\ notifications'[Len(notifications) + 1].topic = topic
        /\ \A i \in 1 .. Len(notifications) : notifications'[i] = notifications[i]
    BY <2>1, MailQueued
  <2>3. ASSUME NEW o \in Orders, topic = <<o, "ready_mail">> PROVE WasReady(o)
    <3>1. request[s].target # "ready_mail"
      BY <1>2, MessagedFacts DEF OrderStatus
    <3>2. NotifyReadyQueue(s) /\ Order(s) = o
      BY <1>2, <2>3, <3>1 DEF Messaged
    <3> QED BY <3>2, OrderIsThere DEF NotifyReadyQueue, RequestInv
  <2>4. ASSUME NEW i \in DOMAIN notifications', NEW o \in Orders,
               notifications'[i].topic = <<o, "ready_mail">>
        PROVE  WasReady(o)'
    <3>1. CASE i \in 1 .. Len(notifications)
      BY <2>2, <2>4, <3>1, WasReadyStays DEF MailInv
    <3>2. CASE i = Len(notifications) + 1
      BY <2>2, <2>3, <2>4, <3>2, WasReadyStays
    <3> QED BY <2>2, <3>1, <3>2
  <2> QED BY <2>4 DEF MailInv
<1> QED BY <1>1, <1>2, TableStep
-----------------------------------------------------------------------------
\* How far a dashboard has got, against the orders as they are now.
DashboardInv(s) ==
  LET seen == request[s].seen
  IN  /\ request[s].step = "counting" => seen.orders <= InStatus(Counted)
      /\ request[s].step \in {"summing", "summary"} => seen.orders <= seen.counted
      /\ request[s].step = "summing" /\ raced = {} => seen.picked_up <= InStatus({"PICKED_UP"})
      /\ request[s].step = "summary" /\ raced = {} => seen.picked_up <= seen.revenue

\* No order is lost from the count, and none leaves PICKED_UP but by a race.
LEMMA CountsGrow ==
  ASSUME Inv, HistoryInv, [Next]_vars
  PROVE  /\ InStatus(Counted) <= InStatus(Counted)'
         /\ raced' = {} => raced = {} /\ InStatus({"PICKED_UP"}) <= InStatus({"PICKED_UP"})'
<1>1. /\ \A o \in Orders : orders[o] \in Counted => orders'[o] \in Counted
      /\ raced' = {} =>
           /\ raced = {}
           /\ \A o \in Orders : orders[o] = "PICKED_UP" => orders'[o] = "PICKED_UP"
  <2>1. CASE OrdersStay
    BY <2>1 DEF OrdersStay
  <2>2. ASSUME NEW o \in Orders, Placed(o)
        PROVE  /\ \A p \in Orders : orders[p] \in Counted => orders'[p] \in Counted
               /\ raced' = raced
               /\ \A p \in Orders : orders[p] = "PICKED_UP" => orders'[p] = "PICKED_UP"
    BY <2>2 DEF Placed, Inv, TypeOK, Counted, OrderStatus, ABSENT
  <2>3. ASSUME NEW s \in Sessions, NEW by \in {"update", "bulk"}, MovedIn(s, by)
        PROVE  /\ \A o \in Orders : orders[o] \in Counted => orders'[o] \in Counted
               /\ raced' = {} =>
                    /\ raced = {}
                    /\ \A o \in Orders : orders[o] = "PICKED_UP" => orders'[o] = "PICKED_UP"
    <3>1. PICK o \in Orders :
             /\ request[s].target \in OrderStatus
             /\ orders' = [orders EXCEPT ![o] = request[s].target]
             /\ raced \subseteq raced'
             /\ orders[o] # request[s].loaded => o \in raced'
      BY <2>3, MoveFacts DEF MovedIn
    <3>2. Legal(request[s].loaded, request[s].target)
      BY <2>3, OrderIsThere DEF MovedIn, RequestInv
    <3>3. request[s].target \in Counted /\ request[s].loaded # "PICKED_UP"
      BY <3>1, <3>2 DEF Legal, Successor, Counted, OrderStatus, ABSENT
    <3>4. orders'[o] = request[s].target /\ \A p \in Orders \ {o} : orders'[p] = orders[p]
      BY <3>1 DEF Inv, TypeOK
    <3> QED BY <3>1, <3>3, <3>4
  <2> QED BY <2>1, <2>2, <2>3, Step
<1>2. ASSUME NEW before, NEW after, before \subseteq after, after \subseteq Orders
      PROVE  Cardinality(before) <= Cardinality(after)
  BY <1>2, FS_Subset
<1>3. InStatus(Counted) <= InStatus(Counted)'
  <2>1. {o \in Orders : orders[o] \in Counted} \subseteq {o \in Orders : orders'[o] \in Counted}
    BY <1>1
  <2> QED BY <1>2, <2>1 DEF InStatus, Counted
<1>4. ASSUME raced' = {} PROVE InStatus({"PICKED_UP"}) <= InStatus({"PICKED_UP"})'
  <2>1. {o \in Orders : orders[o] \in {"PICKED_UP"}} \subseteq {o \in Orders : orders'[o] \in {"PICKED_UP"}}
    BY <1>1, <1>4
  <2> QED BY <1>2, <2>1 DEF InStatus
<1> QED BY <1>1, <1>3, <1>4

LEMMA StartsElsewhere ==
  ASSUME Inv, NEW s \in Sessions, NEW entry,
         NEW step \in {"update_loaded", "bulk", "notify_ready", "error"},
         NEW list \in Seq(Orders), NEW target \in OrderStatus,
         NEW loaded \in OrderStatus \cup {ABSENT},
         Start(s, entry, step, list, target, loaded)
  PROVE  /\ \A t \in Sessions \ {s} : request'[t] = request[t]
         /\ request[s].step = "idle" /\ request'[s].step = step
<1> DEFINE r == [IdleRequest EXCEPT !.step = step, !.rest = list, !.target = target,
                                    !.loaded = loaded]
<1>1. request' = [request EXCEPT ![s] = r] /\ request[s].step = "idle"
  BY DEF Start, Free
<1>2. r.step = step
  BY Records DEF RequestRecords
<1> HIDE DEF r
<1> QED BY <1>1, <1>2 DEF Inv, TypeOK

\* A handler has just read its order, for an update.
ReadNow(s) ==
  LET o == Head(request'[s].rest)
  IN  /\ o \in Orders /\ orders[o] # ABSENT /\ request'[s].loaded = orders[o]
      /\ UNCHANGED <<orders, order_status_logs>>

\* A handler's record is what it was, or the handler reads for a dashboard, or
\* has just read its order for an update, or is elsewhere.
LEMMA HandlerSteps ==
  ASSUME Inv, [Next]_vars, NEW s \in Sessions
  PROVE  \/ request'[s] = request[s]
         \/ DashboardOrders(s) \/ DashboardCounts(s) \/ DashboardRevenue(s)
         \/ request'[s].step \in {"update_loaded", "bulk_loaded"} /\ ReadNow(s)
         \/ request'[s].step \in {"idle", "error", "changed", "completed", "bulk", "notify_ready"}
<1> DEFINE Elsewhere(t) ==
             request'[t].step \in {"idle", "error", "changed", "completed", "bulk", "notify_ready"}
           Reads(t) == request'[t].step \in {"update_loaded", "bulk_loaded"} /\ ReadNow(t)
           Stays(t) == request'[t] = request[t]
           Only(t) == \A u \in Sessions \ {t} : Stays(u)
<1>1. CASE UNCHANGED request
  BY <1>1
<1>3. ASSUME NEW t \in Sessions, NEW o \in Orders, NEW target \in OrderStatus, UpdateLoad(t, o, target)
      PROVE  Only(t) /\ (Elsewhere(t) \/ Reads(t))
  <2>1. PICK step \in {"update_loaded", "error"}, list \in Seq(Orders),
             loaded \in OrderStatus \cup {ABSENT} :
          /\ Start(t, "update", step, list, target, loaded)
          /\ Head(list) = o /\ loaded = orders[o]
    <3>1. orders[o] \in OrderStatus \cup {ABSENT} /\ <<o>> \in Seq(Orders) /\ Head(<<o>>) = o
      BY DEF Inv, TypeOK
    <3> QED BY <1>3, <3>1 DEF UpdateLoad, ReadForUpdate
  <2>2. orders[o] # ABSENT /\ UNCHANGED <<orders, order_status_logs>>
    BY <1>3 DEF UpdateLoad, Legal, Successor, ABSENT, OrderStatus
  <2> DEFINE r == [IdleRequest EXCEPT !.step = step, !.rest = list, !.target = target,
                                      !.loaded = loaded]
  <2>3. request' = [request EXCEPT ![t] = r] /\ r.step = step /\ r.rest = list /\ r.loaded = loaded
    <3>1. request' = [request EXCEPT ![t] = r]
      BY <2>1 DEF Start
    <3>2. r.step = step /\ r.rest = list /\ r.loaded = loaded
      BY Records DEF RequestRecords
    <3> QED BY <3>1, <3>2
  <2> HIDE DEF r
  <2>4. request'[t] = r /\ \A u \in Sessions \ {t} : request'[u] = request[u]
    BY <2>3 DEF Inv, TypeOK
  <2> QED BY <2>1, <2>2, <2>3, <2>4 DEF ReadNow
<1>4. ASSUME NEW t \in Sessions, NEW list \in BulkLists, NEW target \in OrderStatus,
             BulkBegin(t, list, target)
      PROVE  Only(t) /\ Elsewhere(t)
  <2>1. list \in Seq(Orders)
    <3>1. PICK n \in 1 .. 2 : list \in [1 .. n -> Orders]
      BY DEF BulkLists
    <3> QED BY <3>1
  <2>2. Start(t, "bulk", "bulk", list, target, ABSENT)
    BY <1>4 DEF BulkBegin
  <2> QED BY <2>1, <2>2, StartsElsewhere
<1>5. ASSUME NEW t \in Sessions, NEW o \in Orders, NotifyReadyLoad(t, o)
      PROVE  Only(t) /\ Elsewhere(t)
  <2> DEFINE step == ReadForUpdate("notify_ready")
             list == <<o>>
  <2>1. /\ step \in {"update_loaded", "bulk", "notify_ready", "error"} /\ list \in Seq(Orders)
        /\ "READY" \in OrderStatus /\ step # "update_loaded"
    BY DEF ReadForUpdate, OrderStatus
  <2>2. Start(t, "notify_ready", step, list, "READY", ABSENT)
    BY <1>5 DEF NotifyReadyLoad
  <2> HIDE DEF step, list
  <2>3. Only(t) /\ request'[t].step = step
    BY <2>1, <2>2, StartsElsewhere
  <2> QED BY <2>1, <2>3
<1>6. ASSUME NEW t \in Sessions, DashboardOrders(t) \/ DashboardCounts(t) \/ DashboardRevenue(t)
      PROVE  Only(t)
  BY <1>6, DashboardFacts DEF Inv, TypeOK
<1>7. ASSUME NEW t \in Sessions, NEW step \in {"changed", "completed"}, GoTo(t, step)
      PROVE  Only(t) /\ Elsewhere(t)
  <2>1. step \in Steps
    BY DEF Steps
  <2> QED BY <1>7, <2>1, GoToFacts DEF Inv, TypeOK
<1>8. ASSUME NEW t \in Sessions, Finish(t) PROVE Only(t) /\ Elsewhere(t)
  BY <1>8, FinishFacts DEF Inv, TypeOK
<1>9. ASSUME NEW t \in Sessions, request[t].step \in {"bulk", "bulk_loaded"}, NextInBulk(t)
      PROVE  Only(t) /\ Elsewhere(t)
  <2>1. PICK r \in RequestRecords : request' = [request EXCEPT ![t] = r] /\ r.step \in {"idle", "bulk"}
    BY <1>9, NextInBulkFacts
  <2> QED BY <2>1 DEF Inv, TypeOK
<1>10. ASSUME NEW t \in Sessions, BulkLoad(t) \/ BulkCommit(t)
       PROVE  Only(t) /\ (Elsewhere(t) \/ Reads(t))
  <2>1. CASE NextInBulk(t)
    BY <1>9, <1>10, <2>1 DEF BulkLoad, BulkCommit
  <2>2. CASE ~NextInBulk(t)
    <3> DEFINE step == ReadForUpdate("bulk_loaded")
               old == request[t]
               o == Order(t)
               r == [old EXCEPT !.step = step, !.loaded = orders[o]]
    <3>1. /\ request' = [request EXCEPT ![t] = r] /\ old.step = "bulk"
          /\ Legal(orders[o], old.target) \/ step = "error"
          /\ UNCHANGED <<orders, order_status_logs>>
      BY <1>10, <2>2 DEF BulkLoad, BulkCommit, ReadForUpdate
    <3>2. step \in {"bulk_loaded", "error"} /\ old \in RequestRecords /\ o \in Orders
      BY <3>1, OrderIsThere DEF ReadForUpdate, HasOrder
    <3>3. orders[o] \in OrderStatus \cup {ABSENT} /\ old.target \in OrderStatus
      BY <3>2 DEF Inv, TypeOK, RequestRecords
    <3>4. Legal(orders[o], old.target) => orders[o] # ABSENT
      BY <3>3 DEF Legal, Successor, ABSENT, OrderStatus
    <3>5. o = Head(old.rest)
      BY DEF Order
    <3> HIDE DEF step, o
    <3>6. r.step = step /\ r.rest = old.rest /\ r.loaded = orders[o]
      BY <3>2, <3>3 DEF RequestRecords
    <3> HIDE DEF r
    <3>7. request'[t] = r /\ Only(t)
      BY <3>1 DEF Inv, TypeOK
    <3> QED BY <3>1, <3>2, <3>4, <3>5, <3>6, <3>7 DEF ReadNow
  <2> QED BY <2>1, <2>2
<1>11. ASSUME NEW t \in Sessions,
              UpdateCommit(t) \/ QueueMessage(t) \/ QueueFails(t) \/ NotifyReadyQueue(t)
              \/ Answer(t) \/ Abort(t)
       PROVE  Only(t) /\ Elsewhere(t)
  <2>1. Finish(t) \/ \E step \in {"changed", "completed"} : GoTo(t, step)
    BY <1>11 DEF UpdateCommit, AfterChange, QueueMessage, QueueFails, AfterMessage,
                 NotifyReadyQueue, Answer, Abort
  <2> QED BY <1>7, <1>8, <2>1
<1> HIDE DEF Elsewhere, Reads
<1>12. ASSUME NEW t \in Sessions, Proceed(t)
       PROVE  \/ UNCHANGED request
              \/ /\ Only(t)
                 /\ Elsewhere(t) \/ Reads(t) \/ DashboardCounts(t) \/ DashboardRevenue(t)
  <2>1. Background(t) => UNCHANGED request
    BY DEF Background, orderVars
  <2>2. CASE UpdateCommit(t) \/ QueueMessage(t) \/ NotifyReadyQueue(t) \/ Answer(t)
    BY <1>11, <2>2
  <2>3. CASE BulkLoad(t) \/ BulkCommit(t)
    BY <1>10, <2>3
  <2>4. CASE DashboardCounts(t) \/ DashboardRevenue(t)
    BY <1>6, <2>4
  <2> QED BY <1>12, <2>1, <2>2, <2>3, <2>4 DEF Proceed
<1>13. UNCHANGED request \/ \E t \in Sessions :
         /\ Only(t)
         /\ \/ Elsewhere(t) \/ Reads(t)
            \/ DashboardOrders(t) \/ DashboardCounts(t) \/ DashboardRevenue(t)
  <2>1. CASE UNCHANGED vars
    BY <2>1 DEF vars, orderVars
  <2>2. CASE \E o \in Orders : PlaceOrder(o)
    BY <2>2 DEF PlaceOrder
  <2>3. ASSUME NEW t \in Sessions,
               \/ \E o \in Orders, target \in OrderStatus : UpdateLoad(t, o, target)
               \/ \E list \in BulkLists, target \in OrderStatus : BulkBegin(t, list, target)
               \/ \E o \in Orders : NotifyReadyLoad(t, o)
        PROVE  Only(t) /\ (Elsewhere(t) \/ Reads(t))
    BY <1>3, <1>4, <1>5, <2>3
  <2>4. ASSUME NEW t \in Sessions, QueueFails(t) \/ Abort(t) PROVE Only(t) /\ Elsewhere(t)
    BY <1>11, <2>4
  <2> QED BY <1>6, <1>12, <2>1, <2>2, <2>3, <2>4 DEF Next
<1> QED BY <1>13 DEF Elsewhere, Reads

LEMMA DashboardsStep ==
  ASSUME Inv, HistoryInv, [Next]_vars, NEW s \in Sessions, DashboardInv(s)
  PROVE  DashboardInv(s)'
<1> DEFINE counted == InStatus(Counted)
           picked == InStatus({"PICKED_UP"})
<1>1. /\ counted \in Nat /\ picked \in Nat
      /\ counted <= counted'
      /\ raced' = {} => raced = {} /\ picked <= picked'
  BY InStatusType, CountsGrow
<1>2. counted' \in Nat /\ picked' \in Nat
  <2>1. \A statuses : InStatus(statuses)' \in Nat
    <3>1. ASSUME NEW statuses PROVE InStatus(statuses)' \in Nat
      <4>1. {o \in Orders : orders'[o] \in statuses} \subseteq Orders
        OBVIOUS
      <4> QED BY <4>1, FS_Subset, FS_CardinalityType DEF InStatus
    <3> QED BY <3>1
  <2>2. counted' = InStatus(Counted)'
    BY DEF Counted
  <2> QED BY <2>1, <2>2
<1>3. request[s].seen \in Summaries
  BY OrderIsThere DEF RequestRecords
<1>4. CASE request'[s] = request[s]
  <2> HIDE DEF counted, picked
  <2>1. /\ request[s].step = "counting" => request[s].seen.orders <= counted'
        /\ request[s].step \in {"summing", "summary"} =>
             request[s].seen.orders <= request[s].seen.counted
        /\ request[s].step = "summing" /\ raced' = {} => request[s].seen.picked_up <= picked'
        /\ request[s].step = "summary" /\ raced' = {} =>
             request[s].seen.picked_up <= request[s].seen.revenue
    <3>1. /\ request[s].step = "counting" => request[s].seen.orders <= counted
          /\ request[s].step \in {"summing", "summary"} =>
               request[s].seen.orders <= request[s].seen.counted
          /\ request[s].step = "summing" /\ raced = {} => request[s].seen.picked_up <= picked
          /\ request[s].step = "summary" /\ raced = {} =>
               request[s].seen.picked_up <= request[s].seen.revenue
      BY DEF DashboardInv, counted, picked
    <3> QED BY <1>1, <1>2, <1>3, <3>1 DEF Summaries
  <2> QED BY <1>4, <2>1 DEF DashboardInv, counted, picked
<1>5. CASE request'[s].step \notin {"counting", "summing", "summary"}
  BY <1>5 DEF DashboardInv
<1>6. CASE DashboardOrders(s)
  <2>1. request'[s].step = "counting" /\ request'[s].seen.orders = InStatus(OrderStatus)
    BY <1>6, DashboardFacts DEF Inv, TypeOK
  <2>2. InStatus(OrderStatus) = counted
    <3>1. {o \in Orders : orders[o] \in OrderStatus} = {o \in Orders : orders[o] \in Counted}
      BY DEF HistoryInv, OrderInv, Counted
    <3> QED BY <3>1 DEF InStatus
  <2>3. request'[s].seen.orders <= counted'
    BY <1>1, <1>2, <2>1, <2>2
  <2> QED BY <2>1, <2>3 DEF DashboardInv
<1>7. CASE DashboardCounts(s)
  <2>1. /\ request'[s].step = "summing" /\ request'[s].seen.orders = request[s].seen.orders
        /\ request'[s].seen.counted = counted /\ request'[s].seen.picked_up = picked
    BY <1>7, DashboardFacts DEF Inv, TypeOK
  <2>2. request[s].seen.orders <= counted
    BY <1>7 DEF DashboardCounts, DashboardInv
  <2>3. raced' = {} => request'[s].seen.picked_up <= picked'
    BY <1>1, <2>1
  <2> QED BY <2>1, <2>2, <2>3 DEF DashboardInv
<1>8. CASE DashboardRevenue(s)
  <2>1. /\ request'[s].step = "summary" /\ request'[s].seen.orders = request[s].seen.orders
        /\ request'[s].seen.counted = request[s].seen.counted
        /\ request'[s].seen.picked_up = request[s].seen.picked_up
        /\ request'[s].seen.revenue = picked
    BY <1>8, DashboardFacts DEF Inv, TypeOK
  <2>2. /\ request[s].seen.orders <= request[s].seen.counted
        /\ raced = {} => request[s].seen.picked_up <= picked
    BY <1>8 DEF DashboardRevenue, DashboardInv
  <2> QED BY <1>1, <2>1, <2>2 DEF DashboardInv
<1>9. \/ request'[s] = request[s]
      \/ DashboardOrders(s) \/ DashboardCounts(s) \/ DashboardRevenue(s)
      \/ request'[s].step \notin {"counting", "summing", "summary"}
  BY HandlerSteps
<1> QED BY <1>4, <1>5, <1>6, <1>7, <1>8, <1>9
-----------------------------------------------------------------------------
\* The messages a handler has still to queue, as <<order, what>>.
Owed(s) ==
  CASE request[s].step = "changed" ->
         {<<Order(s), request[s].target>>}
           \cup (IF request[s].target = "READY" THEN {<<Order(s), "completed">>} ELSE {})
    [] request[s].step = "completed" -> {<<Order(s), "completed">>}
    [] OTHER -> {}

Owing(topic) == {s \in Sessions : topic \in Owed(s)}

ToldTopics == Orders \X (OrderStatus \cup {"completed"})

\* The moves the student is told of by such a message.
MovesFor(topic) == MovedBy(topic[1], "update", IF topic[2] = "completed" THEN "READY" ELSE topic[2])

ToldOf(topic) == Cardinality({i \in DOMAIN notifications : notifications[i].topic = topic})

\* Each move is told, or owed by a handler, or a fault has taken its message.
TellInv ==
  \A topic \in ToldTopics :
    /\ ToldOf(topic) + Cardinality(Owing(topic)) <= MovesFor(topic)
    /\ faults = 0 => ToldOf(topic) + Cardinality(Owing(topic)) = MovesFor(topic)

LEMMA OwedStays ==
  ASSUME Inv, NEW s \in Sessions,
         \A t \in Sessions \ {s} : request'[t] = request[t],
         request[s].step \notin {"changed", "completed"},
         request'[s].step \notin {"changed", "completed"}
  PROVE  \A t \in Sessions : Owed(t)' = Owed(t)
<1>1. ASSUME NEW t \in Sessions \ {s} PROVE Owed(t)' = Owed(t)
  <2>1. request'[t] = request[t] /\ Order(t)' = Order(t)
    BY DEF Order
  <2> QED BY <2>1 DEF Owed
<1>2. Owed(s) = {} /\ Owed(s)' = {}
  BY DEF Owed
<1> QED BY <1>1, <1>2

\* A message queued by a handler, or a row of a history: what it adds to a count.
LEMMA ToldMore ==
  ASSUME Inv, NEW s \in Sessions, NEW topic \in Topics, NEW channel \in NotificationChannel,
         Queue(s, topic, channel)
  PROVE  /\ ToldOf(topic)' = ToldOf(topic) + 1
         /\ \A other : other # topic => ToldOf(other)' = ToldOf(other)
<1> DEFINE n == Len(notifications)
           rows(other) == {i \in DOMAIN notifications : notifications[i].topic = other}
           after(other) == {i \in DOMAIN notifications' : notifications'[i].topic = other}
<1>1. /\ DOMAIN notifications = 1 .. n /\ n \in Nat
      /\ DOMAIN notifications' = 1 .. (n + 1)
      /\ notifications'[n + 1].topic = topic
      /\ \A i \in 1 .. n : notifications'[i] = notifications[i]
  BY MailQueued
<1>2. after(topic) = rows(topic) \cup {n + 1} /\ n + 1 \notin rows(topic)
  BY <1>1
<1>3. \A other : other # topic => after(other) = rows(other)
  BY <1>1
<1>4. IsFiniteSet(rows(topic))
  <2>1. IsFiniteSet(1 .. n) /\ rows(topic) \subseteq 1 .. n
    BY <1>1, FS_Interval
  <2> QED BY <2>1, FS_Subset
<1> HIDE DEF rows, n
<1>5. Cardinality(after(topic)) = Cardinality(rows(topic)) + 1
  BY <1>2, <1>4, FS_AddElement
<1> QED BY <1>3, <1>5 DEF ToldOf, rows

LEMMA ToldSame ==
  ASSUME RowsStay
  PROVE  \A topic : ToldOf(topic)' = ToldOf(topic)
<1>1. ASSUME NEW topic
      PROVE {i \in DOMAIN notifications' : notifications'[i].topic = topic}
              = {i \in DOMAIN notifications : notifications[i].topic = topic}
  BY DEF RowsStay
<1> QED BY <1>1 DEF ToldOf

LEMMA MovesMore ==
  ASSUME Inv, NEW s \in Sessions, NEW by \in {"update", "bulk"}, MovedIn(s, by)
  PROVE  \A o \in Orders, status \in OrderStatus :
           MovedBy(o, "update", status)' =
             MovedBy(o, "update", status)
               + (IF by = "update" /\ o = Order(s) /\ status = request[s].target THEN 1 ELSE 0)
<1> SUFFICES ASSUME NEW o \in Orders, NEW status \in OrderStatus
             PROVE  MovedBy(o, "update", status)' =
                      MovedBy(o, "update", status)
                        + (IF by = "update" /\ o = Order(s) /\ status = request[s].target
                           THEN 1 ELSE 0)
  OBVIOUS
<1> DEFINE old == order_status_logs[o]
           log == order_status_logs'[o]
           row == [previous |-> request[s].loaded, new |-> request[s].target, by |-> by]
           rows == {i \in DOMAIN old : old[i].by = "update" /\ old[i].new = status}
           after == {i \in DOMAIN log : log[i].by = "update" /\ log[i].new = status}
           n == Len(old)
<1>1. old \in Seq(LogRows)
  BY DEF Inv, TypeOK
<1>2. DOMAIN old = 1 .. n /\ n \in Nat
  BY <1>1, LenProperties
<1>3. IsFiniteSet(rows)
  <2>1. IsFiniteSet(1 .. n) /\ rows \subseteq 1 .. n
    BY <1>2, FS_Interval
  <2> QED BY <2>1, FS_Subset
<1>4. Cardinality(rows) \in Nat
  BY <1>3, FS_CardinalityType
<1>5. MovedBy(o, "update", status) = Cardinality(rows)
      /\ MovedBy(o, "update", status)' = Cardinality(after)
  BY DEF MovedBy
<1>6. CASE o # Order(s)
  <2>1. log = old
    BY <1>6, MoveFacts DEF MovedIn
  <2>2. after = rows
    BY <2>1
  <2> HIDE DEF rows, after
  <2> QED BY <1>4, <1>5, <1>6, <2>2
<1>7. CASE o = Order(s)
  <2>1. row \in LogRows /\ log = Append(old, row)
    BY <1>7, MoveFacts DEF MovedIn
  <2>2. row.by = by /\ row.new = request[s].target
    OBVIOUS
  <2> HIDE DEF row, log, old
  <2>3. /\ DOMAIN log = 1 .. (n + 1) /\ log[n + 1] = row
        /\ \A i \in 1 .. n : log[i] = old[i]
    BY <1>1, <2>1, Longer
  <2>4. CASE by = "update" /\ status = request[s].target
    <3>1. after = rows \cup {n + 1} /\ n + 1 \notin rows
      BY <1>2, <2>2, <2>3, <2>4
    <3> HIDE DEF rows, after, n
    <3>2. Cardinality(after) = Cardinality(rows) + 1
      BY <1>3, <3>1, FS_AddElement
    <3> QED BY <1>5, <1>7, <2>4, <3>2
  <2>5. CASE ~(by = "update" /\ status = request[s].target)
    <3>1. after = rows
      BY <1>2, <2>2, <2>3, <2>5
    <3> HIDE DEF rows, after
    <3> QED BY <1>4, <1>5, <2>5, <3>1
  <2> QED BY <2>4, <2>5
<1> QED BY <1>6, <1>7

\* The counts of a topic are numbers.
LEMMA CountsAreNat ==
  ASSUME Inv, NEW topic \in ToldTopics
  PROVE  /\ ToldOf(topic) \in Nat /\ Cardinality(Owing(topic)) \in Nat
         /\ IsFiniteSet(Owing(topic)) /\ MovesFor(topic) \in Nat
         /\ topic \in Topics
         /\ topic[1] \in Orders /\ topic[2] \in OrderStatus \cup {"completed"}
<1>1. topic[1] \in Orders /\ topic[2] \in OrderStatus \cup {"completed"} /\ topic = <<topic[1], topic[2]>>
  BY DEF ToldTopics
<1>2. topic \in Topics
  BY <1>1, TopicFacts
<1>3. IsFiniteSet(Owing(topic)) /\ Cardinality(Owing(topic)) \in Nat
  <2>1. Owing(topic) \subseteq Sessions
    BY DEF Owing
  <2> QED BY <2>1, FS_Subset, FS_CardinalityType
<1>4. ToldOf(topic) \in Nat
  <2>1. DOMAIN notifications = 1 .. Len(notifications) /\ Len(notifications) \in Nat
    BY LenProperties DEF Inv, TypeOK, NotificationsTypeOK
  <2>2. IsFiniteSet(1 .. Len(notifications))
        /\ {i \in DOMAIN notifications : notifications[i].topic = topic} \subseteq 1 .. Len(notifications)
    BY <2>1, FS_Interval
  <2> QED BY <2>2, FS_Subset, FS_CardinalityType DEF ToldOf
<1>5. ASSUME NEW status PROVE MovedBy(topic[1], "update", status) \in Nat
  <2> DEFINE log == order_status_logs[topic[1]]
             rows == {i \in DOMAIN log : log[i].by = "update" /\ log[i].new = status}
  <2>1. log \in Seq(LogRows)
    BY <1>1 DEF Inv, TypeOK
  <2> HIDE DEF log
  <2>2. DOMAIN log = 1 .. Len(log) /\ Len(log) \in Nat
    BY <2>1, LenProperties
  <2>3. IsFiniteSet(1 .. Len(log)) /\ rows \subseteq 1 .. Len(log)
    BY <2>2, FS_Interval
  <2> HIDE DEF rows
  <2>4. Cardinality(rows) \in Nat
    BY <2>3, FS_Subset, FS_CardinalityType
  <2> QED BY <2>4 DEF MovedBy, rows, log
<1>6. MovesFor(topic) \in Nat
  BY <1>5 DEF MovesFor
<1> QED BY <1>1, <1>2, <1>3, <1>4, <1>6

\* A step that neither moves an order by update_status nor tells the student.
UpdatesStay ==
  \A o \in Orders, status \in OrderStatus :
    MovedBy(o, "update", status)' = MovedBy(o, "update", status)

LEMMA MovesSame ==
  ASSUME UpdatesStay, NEW topic \in ToldTopics
  PROVE  MovesFor(topic)' = MovesFor(topic)
<1>1. topic[1] \in Orders /\ topic[2] \in OrderStatus \cup {"completed"} /\ "READY" \in OrderStatus
  BY DEF ToldTopics, OrderStatus
<1> QED BY <1>1 DEF MovesFor, UpdatesStay

LEMMA NoMoves ==
  ASSUME Inv,
         \/ order_status_logs' = order_status_logs
         \/ \E s \in Sessions : MovedIn(s, "bulk")
  PROVE  UpdatesStay
<1>1. CASE order_status_logs' = order_status_logs
  BY <1>1 DEF UpdatesStay, MovedBy
<1>2. ASSUME NEW s \in Sessions, MovedIn(s, "bulk") PROVE UpdatesStay
  <2>1. \A o \in Orders, status \in OrderStatus :
          MovedBy(o, "update", status)' = MovedBy(o, "update", status) + 0
    BY <1>2, MovesMore
  <2>2. \A o \in Orders, status \in OrderStatus : MovedBy(o, "update", status) \in Nat
    <3>1. ASSUME NEW o \in Orders, NEW status \in OrderStatus
          PROVE  MovedBy(o, "update", status) \in Nat
      <4>1. /\ <<o, status>> \in ToldTopics /\ status # "completed"
            /\ MovesFor(<<o, status>>) = MovedBy(o, "update", status)
        BY DEF ToldTopics, MovesFor, OrderStatus
      <4> QED BY <4>1, CountsAreNat
    <3> QED BY <3>1
  <2> QED BY <2>1, <2>2 DEF UpdatesStay
<1> QED BY <1>1, <1>2

LEMMA QuietTell ==
  ASSUME Inv, TellInv, RowsStay, UpdatesStay, faults' = faults,
         \A t \in Sessions : Owed(t)' = Owed(t)
  PROVE  TellInv'
<1>1. ASSUME NEW topic \in ToldTopics
      PROVE  /\ ToldOf(topic)' = ToldOf(topic) /\ Owing(topic)' = Owing(topic)
             /\ MovesFor(topic)' = MovesFor(topic)
  BY ToldSame, MovesSame DEF Owing
<1> QED BY <1>1 DEF TellInv

\* The move is committed, and its handler owes the messages.
LEMMA UpdateTell ==
  ASSUME Inv, TellInv, NEW s \in Sessions, UpdateCommit(s)
  PROVE  TellInv'
<1>1. /\ request[s].step = "update_loaded" /\ MovedIn(s, "update") /\ GoTo(s, "changed")
      /\ faults' = faults /\ RowsStay
  BY DEF UpdateCommit, MovedIn, AfterChange, RowsStay, notificationVars
<1>2. PICK o \in Orders : o = Order(s)
  BY <1>1, OrderIsThere DEF HasOrder
<1>3. PICK target \in OrderStatus : target = request[s].target
  BY OrderIsThere DEF RequestRecords
<1>4. PICK r \in RequestRecords :
        /\ request' = [request EXCEPT ![s] = r] /\ request'[s] = r
        /\ r.step = "changed" /\ r.rest = request[s].rest /\ r.target = request[s].target
  <2>1. "changed" \in Steps
    BY DEF Steps
  <2> QED BY <1>1, <2>1, GoToFacts
<1>5. /\ \A t \in Sessions \ {s} : Owed(t)' = Owed(t)
      /\ Owed(s) = {}
      /\ Owed(s)' = {<<o, target>>} \cup (IF target = "READY" THEN {<<o, "completed">>} ELSE {})
  <2>1. ASSUME NEW t \in Sessions \ {s} PROVE Owed(t)' = Owed(t)
    <3>1. request'[t] = request[t] /\ Order(t)' = Order(t)
      BY <1>4 DEF Inv, TypeOK, Order
    <3> QED BY <3>1 DEF Owed
  <2>2. Owed(s) = {}
    BY <1>1 DEF Owed
  <2>3. request'[s].step = "changed" /\ request'[s].target = target /\ Order(s)' = o
    BY <1>2, <1>3, <1>4 DEF Order
  <2>4. Owed(s)' = {<<o, target>>} \cup (IF target = "READY" THEN {<<o, "completed">>} ELSE {})
    BY <2>3 DEF Owed
  <2> QED BY <2>1, <2>2, <2>4
<1>6. \A p \in Orders, status \in OrderStatus :
        MovedBy(p, "update", status)' =
          MovedBy(p, "update", status) + (IF p = o /\ status = target THEN 1 ELSE 0)
  BY <1>1, <1>2, <1>3, MovesMore
<1>7. ASSUME NEW topic \in ToldTopics
      PROVE  /\ ToldOf(topic)' + Cardinality(Owing(topic)') <= MovesFor(topic)'
             /\ faults' = 0 => ToldOf(topic)' + Cardinality(Owing(topic)') = MovesFor(topic)'
  <2> DEFINE status == IF topic[2] = "completed" THEN "READY" ELSE topic[2]
             more == IF topic[1] = o /\ status = target THEN 1 ELSE 0
  <2>1. /\ topic[1] \in Orders /\ topic[2] \in OrderStatus \cup {"completed"}
        /\ topic = <<topic[1], topic[2]>> /\ status \in OrderStatus
    BY DEF ToldTopics, OrderStatus
  <2>2. MovesFor(topic)' = MovesFor(topic) + more
    BY <1>6, <2>1 DEF MovesFor
  <2>3. topic \in Owed(s)' <=> more = 1
    BY <1>5, <2>1 DEF OrderStatus
  <2>4. /\ ToldOf(topic) \in Nat /\ Cardinality(Owing(topic)) \in Nat
        /\ IsFiniteSet(Owing(topic)) /\ MovesFor(topic) \in Nat
    BY CountsAreNat
  <2>5. Cardinality(Owing(topic)') = Cardinality(Owing(topic)) + more
    <3>1. s \notin Owing(topic)
      BY <1>5 DEF Owing
    <3>2. CASE more = 1
      <4>1. Owing(topic)' = Owing(topic) \cup {s}
        BY <1>5, <2>3, <3>2 DEF Owing
      <4> QED BY <2>4, <3>1, <3>2, <4>1, FS_AddElement
    <3>3. CASE more = 0
      <4>1. Owing(topic)' = Owing(topic)
        BY <1>5, <2>3, <3>3 DEF Owing
      <4> QED BY <2>4, <3>3, <4>1
    <3> QED BY <3>2, <3>3
  <2>6. ToldOf(topic)' = ToldOf(topic)
    BY <1>1, ToldSame
  <2>7. more \in Nat
    OBVIOUS
  <2> HIDE DEF more, status
  <2> QED BY <1>1, <2>2, <2>4, <2>5, <2>6, <2>7 DEF TellInv
<1> QED BY <1>7 DEF TellInv

\* What a handler owes once a message is queued, or its queueing failed.
LEMMA OwedLess ==
  ASSUME Inv, NEW s \in Sessions, request[s].step \in {"changed", "completed"}, AfterMessage(s)
  PROVE  LET topic == <<Order(s), IF request[s].step = "changed" THEN request[s].target
                                                                 ELSE "completed">>
         IN  /\ topic \in Owed(s) /\ topic \in ToldTopics /\ Owed(s)' = Owed(s) \ {topic}
             /\ \A t \in Sessions \ {s} : Owed(t)' = Owed(t)
<1> DEFINE told == IF request[s].step = "changed" THEN request[s].target ELSE "completed"
<1>1. PICK o \in Orders : o = Order(s)
  BY OrderIsThere DEF HasOrder
<1>2. request[s].target \in OrderStatus /\ "completed" \notin OrderStatus
  BY OrderIsThere DEF RequestRecords, OrderStatus
<1>3. <<o, told>> \in Owed(s) /\ <<o, told>> \in ToldTopics
  BY <1>1, <1>2 DEF Owed, ToldTopics
<1>4. CASE request[s].step = "changed" /\ request[s].target = "READY"
  <2>1. PICK r \in RequestRecords :
          /\ request' = [request EXCEPT ![s] = r] /\ request'[s] = r
          /\ r.step = "completed" /\ r.rest = request[s].rest /\ r.target = request[s].target
    <3>1. "completed" \in Steps /\ GoTo(s, "completed")
      BY <1>4 DEF Steps, AfterMessage
    <3> QED BY <3>1, GoToFacts
  <2>2. request'[s].step = "completed" /\ Order(s)' = o
    BY <1>1, <2>1 DEF Order
  <2>3. Owed(s)' = {<<o, "completed">>}
    BY <2>2 DEF Owed
  <2>4. Owed(s) = {<<o, "READY">>, <<o, "completed">>} /\ told = "READY"
    BY <1>1, <1>4 DEF Owed
  <2>5. \A t \in Sessions \ {s} : Owed(t)' = Owed(t)
    <3>1. ASSUME NEW t \in Sessions \ {s} PROVE Owed(t)' = Owed(t)
      <4>1. request'[t] = request[t] /\ Order(t)' = Order(t)
        BY <2>1 DEF Inv, TypeOK, Order
      <4> QED BY <4>1 DEF Owed
    <3> QED BY <3>1
  <2> QED BY <1>1, <1>3, <2>3, <2>4, <2>5
<1>5. CASE ~(request[s].step = "changed" /\ request[s].target = "READY")
  <2>1. Finish(s)
    BY <1>5 DEF AfterMessage
  <2>2. request' = [request EXCEPT ![s] = IdleRequest] /\ request'[s].step = "idle"
    BY <2>1, FinishFacts
  <2>3. Owed(s)' = {}
    BY <2>2 DEF Owed
  <2>4. Owed(s) = {<<o, told>>}
    BY <1>1, <1>5 DEF Owed
  <2>5. \A t \in Sessions \ {s} : Owed(t)' = Owed(t)
    <3>1. ASSUME NEW t \in Sessions \ {s} PROVE Owed(t)' = Owed(t)
      <4>1. request'[t] = request[t] /\ Order(t)' = Order(t)
        BY <2>2 DEF Inv, TypeOK, Order
      <4> QED BY <4>1 DEF Owed
    <3> QED BY <3>1
  <2> QED BY <1>1, <1>3, <2>3, <2>4, <2>5
<1> QED BY <1>4, <1>5

LEMMA QueueTell ==
  ASSUME Inv, TellInv, NEW s \in Sessions, QueueMessage(s)
  PROVE  TellInv'
<1> DEFINE told == <<Order(s), IF request[s].step = "changed" THEN request[s].target
                                                              ELSE "completed">>
<1>1. /\ request[s].step \in {"changed", "completed"} /\ AfterMessage(s)
      /\ Queue(s, told, "sms") /\ "sms" \in NotificationChannel
      /\ faults' = faults /\ order_status_logs' = order_status_logs
  BY DEF QueueMessage, NotificationChannel
<1>2. /\ told \in Owed(s) /\ told \in ToldTopics /\ Owed(s)' = Owed(s) \ {told}
      /\ \A t \in Sessions \ {s} : Owed(t)' = Owed(t)
  BY <1>1, OwedLess
<1>3. PICK topic0 \in ToldTopics : topic0 = told
  BY <1>2
<1> HIDE DEF told
<1>4. /\ ToldOf(topic0)' = ToldOf(topic0) + 1
      /\ \A other : other # topic0 => ToldOf(other)' = ToldOf(other)
  <2>1. topic0 \in Topics
    BY CountsAreNat
  <2> QED BY <1>1, <1>3, <2>1, ToldMore
<1>5. \A topic \in ToldTopics : MovesFor(topic)' = MovesFor(topic)
  BY <1>1, NoMoves, MovesSame
<1>6. ASSUME NEW topic \in ToldTopics
      PROVE  /\ ToldOf(topic)' + Cardinality(Owing(topic)') <= MovesFor(topic)'
             /\ faults' = 0 => ToldOf(topic)' + Cardinality(Owing(topic)') = MovesFor(topic)'
  <2>1. /\ ToldOf(topic) \in Nat /\ Cardinality(Owing(topic)) \in Nat
        /\ IsFiniteSet(Owing(topic)) /\ MovesFor(topic) \in Nat
    BY CountsAreNat
  <2>2. CASE topic = topic0
    <3>1. Owing(topic)' = Owing(topic) \ {s} /\ s \in Owing(topic)
      BY <1>2, <1>3, <2>2 DEF Owing
    <3>2. Cardinality(Owing(topic)') = Cardinality(Owing(topic)) - 1
      BY <2>1, <3>1, FS_RemoveElement
    <3>3. ToldOf(topic)' = ToldOf(topic) + 1
      BY <1>4, <2>2
    <3> QED BY <1>1, <1>5, <2>1, <3>2, <3>3 DEF TellInv
  <2>3. CASE topic # topic0
    <3>1. Owing(topic)' = Owing(topic)
      BY <1>2, <1>3, <2>3 DEF Owing
    <3>2. ToldOf(topic)' = ToldOf(topic)
      BY <1>4, <2>3
    <3> QED BY <1>1, <1>5, <2>1, <3>1, <3>2 DEF TellInv
  <2> QED BY <2>2, <2>3
<1> QED BY <1>6 DEF TellInv

\* A fault takes messages away, and never adds one.
LEMMA FaultTell ==
  ASSUME Inv, TellInv, NEW s \in Sessions, QueueFails(s) \/ Abort(s)
  PROVE  TellInv'
<1>1. /\ RowsStay /\ order_status_logs' = order_status_logs
      /\ faults' # 0
  <2>1. RowsStay
    <3>1. CASE UNCHANGED notificationVars
      BY <3>1 DEF RowsStay, notificationVars
    <3>2. CASE Die(s)
      BY <3>2, DispatchRows
    <3> QED BY <3>1, <3>2 DEF QueueFails, Abort
  <2>2. faults \in Nat /\ faults' = faults + 1
    BY DEF QueueFails, Abort, Inv, TypeOK
  <2> QED BY <2>1, <2>2 DEF QueueFails, Abort
<1>2. \A t \in Sessions : Owed(t)' \subseteq Owed(t)
  <2>1. CASE QueueFails(s)
    BY <2>1, OwedLess DEF QueueFails
  <2>2. CASE Abort(s)
    <3>1. request' = [request EXCEPT ![s] = IdleRequest] /\ request'[s].step = "idle"
      BY <2>2, FinishFacts DEF Abort
    <3>2. Owed(s)' = {}
      BY <3>1 DEF Owed
    <3>3. ASSUME NEW t \in Sessions \ {s} PROVE Owed(t)' = Owed(t)
      <4>1. request'[t] = request[t] /\ Order(t)' = Order(t)
        BY <3>1 DEF Inv, TypeOK, Order
      <4> QED BY <4>1 DEF Owed
    <3> QED BY <3>2, <3>3
  <2> QED BY <2>1, <2>2
<1>3. ASSUME NEW topic \in ToldTopics
      PROVE  ToldOf(topic)' + Cardinality(Owing(topic)') <= MovesFor(topic)'
  <2>1. /\ ToldOf(topic) \in Nat /\ Cardinality(Owing(topic)) \in Nat
        /\ IsFiniteSet(Owing(topic)) /\ MovesFor(topic) \in Nat
    BY CountsAreNat
  <2>2. Owing(topic)' \subseteq Owing(topic)
    BY <1>2 DEF Owing
  <2>3. Cardinality(Owing(topic)') <= Cardinality(Owing(topic)) /\ Cardinality(Owing(topic)') \in Nat
    BY <2>1, <2>2, FS_Subset, FS_CardinalityType
  <2>4. ToldOf(topic)' = ToldOf(topic) /\ MovesFor(topic)' = MovesFor(topic)
    BY <1>1, ToldSame, NoMoves, MovesSame
  <2>5. ToldOf(topic) + Cardinality(Owing(topic)) <= MovesFor(topic)
    BY DEF TellInv
  <2> QED BY <2>1, <2>3, <2>4, <2>5
<1> QED BY <1>1, <1>3 DEF TellInv

LEMMA MailTell ==
  ASSUME Inv, TellInv, NEW s \in Sessions, NotifyReadyQueue(s)
  PROVE  TellInv'
<1>1. /\ request[s].step = "notify_ready" /\ Queue(s, <<Order(s), "ready_mail">>, "email")
      /\ Finish(s) /\ faults' = faults /\ order_status_logs' = order_status_logs
      /\ "email" \in NotificationChannel
  BY DEF NotifyReadyQueue, NotificationChannel
<1>2. <<Order(s), "ready_mail">> \in Topics
  BY <1>1, OrderIsThere, TopicFacts DEF HasOrder
<1>3. \A topic \in ToldTopics : ToldOf(topic)' = ToldOf(topic)
  <2>1. \A topic \in ToldTopics : topic # <<Order(s), "ready_mail">>
    BY DEF ToldTopics, OrderStatus
  <2> QED BY <1>1, <1>2, <2>1, ToldMore
<1>4. \A t \in Sessions : Owed(t)' = Owed(t)
  <2>1. request' = [request EXCEPT ![s] = IdleRequest] /\ request'[s].step = "idle"
    BY <1>1, FinishFacts
  <2>2. \A t \in Sessions \ {s} : request'[t] = request[t]
    BY <2>1 DEF Inv, TypeOK
  <2> QED BY <1>1, <2>1, <2>2, OwedStays
<1>5. \A topic \in ToldTopics :
        MovesFor(topic)' = MovesFor(topic) /\ Owing(topic)' = Owing(topic)
  BY <1>1, <1>4, NoMoves, MovesSame DEF Owing
<1> QED BY <1>1, <1>3, <1>5 DEF TellInv

\* The handlers that owe no message, and the orders' other steps.
LEMMA OthersTell ==
  ASSUME Inv, TellInv, NEW s \in Sessions,
         \/ \E o \in Orders, target \in OrderStatus : UpdateLoad(s, o, target)
         \/ \E list \in BulkLists, target \in OrderStatus : BulkBegin(s, list, target)
         \/ \E o \in Orders : NotifyReadyLoad(s, o)
         \/ DashboardOrders(s) \/ DashboardCounts(s) \/ DashboardRevenue(s)
         \/ BulkLoad(s) \/ BulkCommit(s) \/ Answer(s)
  PROVE  TellInv'
<1> DEFINE Only == \A t \in Sessions \ {s} : request'[t] = request[t]
           Not == /\ request[s].step \notin {"changed", "completed"}
                  /\ request'[s].step \notin {"changed", "completed"}
           Stay == RowsStay /\ order_status_logs' = order_status_logs /\ faults' = faults
<1>1. ASSUME NEW o \in Orders, NEW target \in OrderStatus, UpdateLoad(s, o, target)
      PROVE  Only /\ Not /\ Stay
  <2> DEFINE step == ReadForUpdate("update_loaded")
             list == <<o>>
  <2>1. /\ step \in {"update_loaded", "bulk", "notify_ready", "error"} /\ list \in Seq(Orders)
        /\ orders[o] \in OrderStatus \cup {ABSENT}
    BY DEF ReadForUpdate, Inv, TypeOK
  <2>2. Start(s, "update", step, list, target, orders[o])
    BY <1>1 DEF UpdateLoad
  <2> HIDE DEF step, list
  <2>3. Only /\ Not
    BY <2>1, <2>2, StartsElsewhere
  <2> QED BY <1>1, <2>3 DEF UpdateLoad, RowsStay, notificationVars
<1>2. ASSUME NEW list \in BulkLists, NEW target \in OrderStatus, BulkBegin(s, list, target)
      PROVE  Only /\ Not /\ Stay
  <2>1. list \in Seq(Orders)
    <3>1. PICK n \in 1 .. 2 : list \in [1 .. n -> Orders]
      BY DEF BulkLists
    <3> QED BY <3>1
  <2>2. Start(s, "bulk", "bulk", list, target, ABSENT)
    BY <1>2 DEF BulkBegin
  <2>3. Only /\ Not
    BY <2>1, <2>2, StartsElsewhere
  <2> QED BY <1>2, <2>3 DEF BulkBegin, RowsStay, notificationVars
<1>3. ASSUME NEW o \in Orders, NotifyReadyLoad(s, o)
      PROVE  Only /\ Not /\ Stay
  <2> DEFINE step == ReadForUpdate("notify_ready")
             list == <<o>>
  <2>1. /\ step \in {"update_loaded", "bulk", "notify_ready", "error"} /\ list \in Seq(Orders)
        /\ "READY" \in OrderStatus
    BY DEF ReadForUpdate, OrderStatus
  <2>2. Start(s, "notify_ready", step, list, "READY", ABSENT)
    BY <1>3 DEF NotifyReadyLoad
  <2> HIDE DEF step, list
  <2>3. Only /\ Not
    BY <2>1, <2>2, StartsElsewhere
  <2> QED BY <1>3, <2>3 DEF NotifyReadyLoad, RowsStay, notificationVars
<1>4. CASE DashboardOrders(s) \/ DashboardCounts(s) \/ DashboardRevenue(s)
  <2>1. Only /\ request'[s].step \in {"counting", "summing", "summary"}
    BY <1>4, DashboardFacts DEF Inv, TypeOK
  <2>2. Not
    BY <1>4, <2>1 DEF DashboardOrders, DashboardCounts, DashboardRevenue, Free
  <2>3. Stay
    BY <1>4 DEF DashboardOrders, DashboardCounts, DashboardRevenue, RowsStay, notificationVars
  <2>4. \A t \in Sessions : Owed(t)' = Owed(t)
    BY <2>1, <2>2, OwedStays
  <2> QED BY <2>3, <2>4, NoMoves, QuietTell
<1>5. CASE BulkLoad(s) \/ BulkCommit(s)
  <2>1. Only /\ request'[s].step \in {"idle", "bulk", "bulk_loaded", "error"}
    <3>1. CASE NextInBulk(s)
      <4>1. PICK r \in RequestRecords :
              request' = [request EXCEPT ![s] = r] /\ r.step \in {"idle", "bulk"}
        BY <1>5, <3>1, NextInBulkFacts DEF BulkLoad, BulkCommit
      <4> QED BY <4>1 DEF Inv, TypeOK
    <3>2. CASE ~NextInBulk(s)
      <4> DEFINE step == ReadForUpdate("bulk_loaded")
                 old == request[s]
                 r == [old EXCEPT !.step = step, !.loaded = orders[Order(s)]]
      <4>1. request' = [request EXCEPT ![s] = r]
        BY <1>5, <3>2 DEF BulkLoad, BulkCommit
      <4>2. step \in {"bulk_loaded", "error"} /\ old \in RequestRecords
        BY OrderIsThere DEF ReadForUpdate
      <4> HIDE DEF step
      <4>3. r.step = step
        BY <4>2 DEF RequestRecords
      <4> HIDE DEF r
      <4> QED BY <4>1, <4>2, <4>3 DEF Inv, TypeOK
    <3> QED BY <3>1, <3>2
  <2>2. Not
    BY <1>5, <2>1 DEF BulkLoad, BulkCommit
  <2>3. \A t \in Sessions : Owed(t)' = Owed(t)
    BY <2>1, <2>2, OwedStays
  <2>4. RowsStay /\ faults' = faults
    BY <1>5 DEF BulkLoad, BulkCommit, RowsStay, notificationVars
  <2>5. UpdatesStay
    <3>1. CASE BulkLoad(s)
      BY <3>1, NoMoves DEF BulkLoad
    <3>2. CASE BulkCommit(s)
      <4>1. MovedIn(s, "bulk")
        BY <3>2 DEF BulkCommit, MovedIn
      <4> QED BY <4>1, NoMoves
    <3> QED BY <1>5, <3>1, <3>2
  <2> QED BY <2>3, <2>4, <2>5, QuietTell
<1>6. CASE Answer(s)
  <2>1. Only /\ Not
    BY <1>6, FinishFacts DEF Answer, Inv, TypeOK
  <2>2. Stay
    BY <1>6 DEF Answer, RowsStay, notificationVars
  <2>3. \A t \in Sessions : Owed(t)' = Owed(t)
    BY <2>1, OwedStays
  <2> QED BY <2>2, <2>3, NoMoves, QuietTell
<1>7. CASE Only /\ Not /\ Stay
  <2>1. \A t \in Sessions : Owed(t)' = Owed(t)
    BY <1>7, OwedStays
  <2> QED BY <1>7, <2>1, NoMoves, QuietTell
<1> QED BY <1>1, <1>2, <1>3, <1>4, <1>5, <1>6, <1>7

LEMMA TellStep ==
  ASSUME Inv, TellInv, [Next]_vars
  PROVE  TellInv'
<1>1. ASSUME request' = request, order_status_logs' = order_status_logs, faults' = faults, RowsStay
      PROVE  TellInv'
  <2>1. \A t \in Sessions : Owed(t)' = Owed(t)
    BY <1>1 DEF Owed, Order
  <2> QED BY <1>1, <2>1, NoMoves, QuietTell
<1>2. CASE UNCHANGED vars
  <2>1. RowsStay
    BY <1>2 DEF RowsStay, vars, notificationVars
  <2> QED BY <1>1, <1>2, <2>1 DEF vars, orderVars
<1>3. ASSUME NEW o \in Orders, PlaceOrder(o) PROVE TellInv'
  <2>1. RowsStay
    BY <1>3 DEF PlaceOrder, RowsStay, notificationVars
  <2> QED BY <1>1, <1>3, <2>1 DEF PlaceOrder
<1>4. ASSUME NEW s \in Sessions, Background(s) PROVE TellInv'
  <2>1. RowsStay
    BY <1>4, DispatchRows DEF Background
  <2> QED BY <1>1, <1>4, <2>1 DEF Background, orderVars
<1>5. ASSUME NEW s \in Sessions, Proceed(s) PROVE TellInv'
  BY <1>4, <1>5, UpdateTell, QueueTell, OthersTell, MailTell DEF Proceed
<1>6. ASSUME NEW s \in Sessions,
             \/ \E o \in Orders, target \in OrderStatus : UpdateLoad(s, o, target)
             \/ \E list \in BulkLists, target \in OrderStatus : BulkBegin(s, list, target)
             \/ \E o \in Orders : NotifyReadyLoad(s, o)
             \/ DashboardOrders(s)
      PROVE  TellInv'
  BY <1>6, OthersTell
<1>7. ASSUME NEW s \in Sessions, QueueFails(s) \/ Abort(s) PROVE TellInv'
  BY <1>7, FaultTell
<1> QED BY <1>2, <1>3, <1>5, <1>6, <1>7 DEF Next

LEMMA TellInit ==
  Init => TellInv
<1> SUFFICES ASSUME Init, NEW topic \in ToldTopics
             PROVE  /\ ToldOf(topic) = 0 /\ Cardinality(Owing(topic)) = 0
                    /\ MovesFor(topic) = 0
  BY DEF TellInv
<1>1. ToldOf(topic) = 0
  <2>1. DOMAIN notifications = {}
    BY DEF Init, NotificationsInit
  <2>2. {i \in DOMAIN notifications : notifications[i].topic = topic} = {}
    BY <2>1
  <2> QED BY <2>2, FS_EmptySet DEF ToldOf
<1>2. Cardinality(Owing(topic)) = 0
  <2>1. \A s \in Sessions : Owed(s) = {}
    BY DEF Init, IdleRequest, Owed
  <2>2. Owing(topic) = {}
    BY <2>1 DEF Owing
  <2> QED BY <2>2, FS_EmptySet
<1>3. topic[1] \in Orders
  BY DEF ToldTopics
<1>4. PICK w \in Workloads : order_status_logs = [o \in Orders |-> History(w.start[o])]
  BY DEF Init
<1> DEFINE o == topic[1]
           status == w.start[o]
           log == History(status)
<1>5. status \in (OrderStatus \ {"CANCELLED"}) \cup {ABSENT} /\ order_status_logs[o] = log
  BY <1>3, <1>4, OrdersAssumption
<1> HIDE DEF status
<1>6. log \in Seq(LogRows) /\ \A i \in 1 .. Len(log) : log[i].by = "bulk"
  BY <1>5, HistoryFacts
<1> HIDE DEF log, o
<1>7. \A i \in DOMAIN log : log[i].by # "update"
  BY <1>6, LenProperties
<1>8. ASSUME NEW to PROVE MovedBy(o, "update", to) = 0
  <2>1. {i \in DOMAIN order_status_logs[o] :
           order_status_logs[o][i].by = "update" /\ order_status_logs[o][i].new = to} = {}
    BY <1>5, <1>7
  <2> QED BY <2>1, FS_EmptySet DEF MovedBy
<1>9. MovesFor(topic) = 0
  BY <1>8 DEF MovesFor, o
<1> QED BY <1>1, <1>2, <1>9
-----------------------------------------------------------------------------
\* The lifecycle and the orders share their vocabulary.
LEMMA SameVocabulary ==
  /\ Lifecycle!ABSENT = ABSENT /\ Lifecycle!OrderStatus = OrderStatus
  /\ \A status : Lifecycle!Successor(status) = Successor(status)
  /\ \A status : Lifecycle!History(status) = History(status)
<1>1. Lifecycle!ABSENT = ABSENT /\ Lifecycle!OrderStatus = OrderStatus
  BY DEF Lifecycle!ABSENT, ABSENT, Lifecycle!OrderStatus, OrderStatus
<1>2. ASSUME NEW status PROVE Lifecycle!Successor(status) = Successor(status)
  BY DEF Lifecycle!Successor, Successor, Lifecycle!ABSENT, ABSENT
<1>3. ASSUME NEW status PROVE Lifecycle!History(status) = History(status)
  BY DEF Lifecycle!History, History, Lifecycle!Pipeline, Pipeline
<1> QED BY <1>1, <1>2, <1>3

\* What a handler has read for an update is a status the order has had.
PathInv(s) ==
  request[s].step \in {"update_loaded", "bulk_loaded"} =>
    request[s].loaded \in Lifecycle!Had(Order(s))

LEMMA NowHad ==
  ASSUME Inv, HistoryInv, NEW o \in Orders, orders[o] # ABSENT
  PROVE  orders[o] \in Lifecycle!Had(o)
<1> DEFINE log == order_status_logs[o]
<1>1. log \in Seq(LogRows)
  BY DEF Inv, TypeOK
<1>2. log = << >> => orders[o] = "QUEUED"
  BY DEF HistoryInv, OrderInv
<1>3. log # << >> => Len(log) \in DOMAIN log /\ orders[o] = log[Len(log)].new
  BY <1>1, LenProperties, EmptySeq DEF HistoryInv, OrderInv
<1> QED BY <1>2, <1>3, SameVocabulary DEF Lifecycle!Had

\* A status an order has had it has had for ever.
LEMMA HadGrows ==
  ASSUME Inv, HistoryInv, [Next]_vars, NEW o \in Orders
  PROVE  Lifecycle!Had(o) \subseteq Lifecycle!Had(o)'
<1>0. Lifecycle!ABSENT = ABSENT
  BY SameVocabulary
<1>1. CASE OrdersStay
  BY <1>1 DEF OrdersStay, Lifecycle!Had
<1>2. ASSUME NEW p \in Orders, Placed(p) PROVE Lifecycle!Had(o) \subseteq Lifecycle!Had(o)'
  <2>1. /\ orders[p] = ABSENT /\ order_status_logs' = order_status_logs
        /\ p # o => orders'[o] = orders[o]
    BY <1>2 DEF Placed, Inv, TypeOK
  <2> QED BY <1>0, <2>1 DEF Lifecycle!Had
<1>3. ASSUME NEW s \in Sessions, NEW by \in {"update", "bulk"}, MovedIn(s, by)
      PROVE  Lifecycle!Had(o) \subseteq Lifecycle!Had(o)'
  <2>1. CASE o # Order(s)
    <3>1. orders'[o] = orders[o] /\ order_status_logs'[o] = order_status_logs[o]
      BY <1>3, <2>1, MoveFacts DEF MovedIn
    <3> QED BY <3>1 DEF Lifecycle!Had
  <2>2. CASE o = Order(s)
    <3> DEFINE old == order_status_logs[o]
               log == order_status_logs'[o]
    <3>1. PICK row \in LogRows : old \in Seq(LogRows) /\ log = Append(old, row)
      BY <1>3, <2>2, MoveFacts DEF MovedIn
    <3>2. orders'[o] # ABSENT
      BY <1>3, <2>2, MoveFacts DEF MovedIn, OrderStatus, ABSENT, Inv, TypeOK
    <3> HIDE DEF old, log
    <3>3. \A i \in DOMAIN old : i \in DOMAIN log /\ log[i] = old[i]
      BY <3>1, Longer
    <3>4. {old[i].new : i \in DOMAIN old} \subseteq {log[i].new : i \in DOMAIN log}
      BY <3>3
    <3> QED BY <1>0, <3>2, <3>4 DEF Lifecycle!Had, old, log
  <2> QED BY <2>1, <2>2
<1> QED BY <1>1, <1>2, <1>3, Step

LEMMA PathStep ==
  ASSUME Inv, HistoryInv, [Next]_vars, NEW s \in Sessions, PathInv(s)
  PROVE  PathInv(s)'
<1>1. CASE request'[s] = request[s]
  <2> SUFFICES ASSUME request[s].step \in {"update_loaded", "bulk_loaded"}
               PROVE  request'[s].loaded \in Lifecycle!Had(Order(s))'
    BY <1>1 DEF PathInv
  <2>1. PICK o \in Orders : o = Order(s)
    BY OrderIsThere DEF HasOrder
  <2>2. o = Order(s)'
    BY <1>1, <2>1 DEF Order
  <2>3. request[s].loaded \in Lifecycle!Had(o)
    BY <2>1 DEF PathInv
  <2>4. request[s].loaded \in Lifecycle!Had(o)'
    BY <2>3, HadGrows
  <2> QED BY <1>1, <2>2, <2>4 DEF Lifecycle!Had
<1>2. CASE ReadNow(s)
  <2>1. PICK o \in Orders :
          /\ o = Order(s)' /\ orders[o] # ABSENT /\ request'[s].loaded = orders[o]
    BY <1>2 DEF ReadNow, Order
  <2>2. orders[o] \in Lifecycle!Had(o)'
    BY <2>1, NowHad, HadGrows
  <2> QED BY <2>1, <2>2 DEF PathInv, Lifecycle!Had
<1>3. CASE DashboardOrders(s) \/ DashboardCounts(s) \/ DashboardRevenue(s)
  <2>1. request'[s].step \in {"counting", "summing", "summary"}
    BY <1>3, DashboardFacts DEF Inv, TypeOK
  <2> QED BY <2>1 DEF PathInv
<1>4. CASE request'[s].step \in {"idle", "error", "changed", "completed", "bulk", "notify_ready"}
  BY <1>4 DEF PathInv
<1> QED BY <1>1, <1>2, <1>3, <1>4, HandlerSteps

\* What the orders begin with is what the lifecycle begins with.
LEMMA LifecycleInit ==
  Init => Lifecycle!Init
<1> SUFFICES ASSUME Init PROVE Lifecycle!Init
  OBVIOUS
<1>1. PICK w \in Workloads :
        /\ orders = w.start
        /\ order_status_logs = [o \in Orders |-> History(w.start[o])]
  BY DEF Init
<1>2. w.start \in [Orders -> (OrderStatus \ {"CANCELLED"}) \cup {ABSENT}]
  BY OrdersAssumption
<1> QED BY <1>1, <1>2, SameVocabulary DEF Lifecycle!Init

LEMMA LifecycleStep ==
  ASSUME Inv, HistoryInv, \A s \in Sessions : PathInv(s), [Next]_vars
  PROVE  [Lifecycle!Next]_(Lifecycle!vars)
<1>1. CASE OrdersStay
  BY <1>1 DEF OrdersStay, Lifecycle!vars
<1>2. ASSUME NEW o \in Orders, Placed(o) PROVE Lifecycle!Next
  <2>1. Lifecycle!Place(o)
    BY <1>2, SameVocabulary DEF Placed, Lifecycle!Place
  <2> QED BY <2>1 DEF Lifecycle!Next
<1>3. ASSUME NEW s \in Sessions, NEW by \in {"update", "bulk"}, MovedIn(s, by)
      PROVE  Lifecycle!Next
  <2>1. PICK o \in Orders, from \in OrderStatus, to \in OrderStatus :
          o = Order(s) /\ from = request[s].loaded /\ to = request[s].target
    BY <1>3, OrderIsThere DEF MovedIn, HasOrder, RequestInv, RequestRecords
  <2>2. to = Successor(from)
    BY <1>3, <2>1, OrderIsThere DEF MovedIn, RequestInv, Legal
  <2>3. from \in Lifecycle!Had(o)
    BY <1>3, <2>1 DEF MovedIn, PathInv
  <2>4. /\ orders' = [orders EXCEPT ![o] = to]
        /\ order_status_logs' = [order_status_logs EXCEPT ![o] =
             Append(@, [previous |-> from, new |-> to, by |-> by])]
    BY <1>3, <2>1 DEF MovedIn, ApplyStatusTransition, Moved, Previous
  <2>5. to # ABSENT
    BY DEF OrderStatus, ABSENT
  <2>6. Lifecycle!Move(o, from, by)
    BY <2>2, <2>3, <2>4, <2>5, SameVocabulary DEF Lifecycle!Move
  <2> QED BY <2>3, <2>6 DEF Lifecycle!Next
<1> QED BY <1>1, <1>2, <1>3, Step
-----------------------------------------------------------------------------
\* The inductive invariant.
IInv ==
  /\ Inv
  /\ HistoryInv
  /\ MailInv
  /\ TellInv
  /\ \A s \in Sessions : DashboardInv(s) /\ PathInv(s)

LEMMA Invariance == Spec => []IInv
<1>1. Init => IInv
  <2> SUFFICES ASSUME Init PROVE IInv
    OBVIOUS
  <2>1. Inv /\ HistoryInv /\ TellInv
    BY InitInv, TellInit
  <2>2. MailInv
    <3>1. DOMAIN notifications = {}
      BY DEF Init, NotificationsInit
    <3> QED BY <3>1 DEF MailInv
  <2>3. \A s \in Sessions : DashboardInv(s) /\ PathInv(s)
    <3>1. \A s \in Sessions : request[s].step = "idle"
      BY DEF Init, IdleRequest
    <3> QED BY <3>1 DEF DashboardInv, PathInv
  <2> QED BY <2>1, <2>2, <2>3 DEF IInv
<1>2. IInv /\ [Next]_vars => IInv'
  <2> SUFFICES ASSUME IInv, [Next]_vars PROVE IInv'
    OBVIOUS
  <2>1. /\ Inv /\ HistoryInv /\ MailInv /\ TellInv
        /\ \A s \in Sessions : DashboardInv(s) /\ PathInv(s)
    BY DEF IInv
  <2>2. Inv' /\ HistoryInv'
    BY <2>1, Step, HistoryStep
  <2>3. MailInv'
    BY <2>1, MailStep
  <2>4. TellInv'
    BY <2>1, TellStep
  <2>5. \A s \in Sessions : DashboardInv(s)'
    BY <2>1, DashboardsStep
  <2>6. \A s \in Sessions : PathInv(s)'
    BY <2>1, PathStep
  <2> QED BY <2>2, <2>3, <2>4, <2>5, <2>6 DEF IInv
<1> QED BY <1>1, <1>2, PTL DEF Spec

\* Types of the tables and of what handlers keep between their commits.
THEOREM TypeCorrect == Spec => []TypeOK
<1>1. IInv => TypeOK
  BY DEF IInv, Inv
<1> QED BY <1>1, Invariance, PTL

\* Whoever raced and whatever a bulk update left undone, the last row that
\* apply_status_transition logged names the order's status: status and row are
\* one commit.
THEOREM LastLogNamesStatus == Spec => []LastLogIsStatus
<1>1. IInv => LastLogIsStatus
  BY DEF IInv, HistoryInv, OrderInv, LastLogIsStatus
<1> QED BY <1>1, Invariance, PTL

\* The history of an order whose status nobody changed between another's read
\* and its commit goes through VALID_TRANSITIONS from QUEUED without a gap.
THEOREM HistoryWithoutGap == Spec => []HistoryIsPipeline
<1>1. IInv => HistoryIsPipeline
  BY DEF IInv, HistoryInv, OrderInv, HistoryIsPipeline
<1> QED BY <1>1, Invariance, PTL

\* update_status queues at most one message of each kind per committed move; if
\* no request died and no queueing failed, exactly one when its handler is done.
THEOREM EachMoveToldOnce == Spec => []EachChangeToldOnce
<1>1. IInv => EachChangeToldOnce
  <2> SUFFICES ASSUME IInv, NEW o \in Orders, NEW status \in OrderStatus
               PROVE  LET moves == MovedBy(o, "update", status)
                      IN  /\ Told(o, status) <= moves
                          /\ status = "READY" => Told(o, "completed") <= moves
                          /\ faults = 0 /\ (\A s \in Sessions : request[s].step = "idle") =>
                               /\ Told(o, status) = moves
                               /\ status = "READY" => Told(o, "completed") = moves
    BY DEF EachChangeToldOnce
  <2>1. Inv /\ TellInv
    BY DEF IInv
  <2>2. /\ <<o, status>> \in ToldTopics /\ <<o, "completed">> \in ToldTopics
        /\ status # "completed"
    BY DEF ToldTopics, OrderStatus
  <2>3. /\ MovesFor(<<o, status>>) = MovedBy(o, "update", status)
        /\ MovesFor(<<o, "completed">>) = MovedBy(o, "update", "READY")
        /\ ToldOf(<<o, status>>) = Told(o, status)
        /\ ToldOf(<<o, "completed">>) = Told(o, "completed")
    BY <2>2 DEF MovesFor, ToldOf, Told
  <2>4. ASSUME NEW topic \in ToldTopics
        PROVE  /\ ToldOf(topic) <= MovesFor(topic)
               /\ faults = 0 /\ (\A s \in Sessions : request[s].step = "idle") =>
                    ToldOf(topic) = MovesFor(topic)
    <3>1. /\ ToldOf(topic) \in Nat /\ Cardinality(Owing(topic)) \in Nat
          /\ MovesFor(topic) \in Nat
      BY <2>1, CountsAreNat
    <3>2. /\ ToldOf(topic) + Cardinality(Owing(topic)) <= MovesFor(topic)
          /\ faults = 0 => ToldOf(topic) + Cardinality(Owing(topic)) = MovesFor(topic)
      BY <2>1 DEF TellInv
    <3>3. ASSUME \A s \in Sessions : request[s].step = "idle" PROVE Cardinality(Owing(topic)) = 0
      <4>1. \A s \in Sessions : Owed(s) = {}
        BY <3>3 DEF Owed
      <4>2. Owing(topic) = {}
        BY <4>1 DEF Owing
      <4> QED BY <4>2, FS_EmptySet
    <3> QED BY <3>1, <3>2, <3>3
  <2> QED BY <2>2, <2>3, <2>4
<1> QED BY <1>1, Invariance, PTL

\* notify_laundry_ready's e-mail is only ever about an order that was ready, for
\* all the moves between its read and its commit.
THEOREM ReadyMailTrue == Spec => []ReadyMailIsTrue
<1>1. IInv => ReadyMailIsTrue
  <2> SUFFICES ASSUME IInv, NEW o \in Orders, Told(o, "ready_mail") > 0
               PROVE  WasReady(o)
    BY DEF ReadyMailIsTrue, WasReady
  <2>1. {i \in DOMAIN notifications : notifications[i].topic = <<o, "ready_mail">>} # {}
    <3>1. Cardinality({}) = 0
      BY FS_EmptySet
    <3>2. ASSUME {i \in DOMAIN notifications : notifications[i].topic = <<o, "ready_mail">>} = {}
          PROVE  Told(o, "ready_mail") = 0
      BY <3>1, <3>2 DEF Told
    <3> QED BY <3>2
  <2> QED BY <2>1 DEF IInv, MailInv
<1> QED BY <1>1, Invariance, PTL

\* A dashboard lists no more orders than it counts, and shows no more picked up
\* than the revenue covers, whatever moves between its queries, unless a race
\* takes an order back from PICKED_UP.
THEOREM DashboardConsistent == Spec => []DashboardAddsUp
<1>1. IInv => DashboardAddsUp
  BY DEF IInv, DashboardInv, DashboardAddsUp
<1> QED BY <1>1, Invariance, PTL

\* update_status and bulk_update_status implement the lifecycle of an order: for
\* all the races between their reads and their commits, each of their commits is
\* one of its moves, and nothing else touches an order or its history.
THEOREM ImplementsTheLifecycle == Spec => ImplementsOrderLifecycle
<1>1. Init => Lifecycle!Init
  BY LifecycleInit
<1>2. IInv /\ [Next]_vars => [Lifecycle!Next]_(Lifecycle!vars)
  <2> SUFFICES ASSUME IInv, [Next]_vars PROVE [Lifecycle!Next]_(Lifecycle!vars)
    OBVIOUS
  <2> QED BY LifecycleStep DEF IInv
<1> QED BY <1>1, <1>2, Invariance, PTL DEF Spec, ImplementsOrderLifecycle, Lifecycle!Spec
=============================================================================
