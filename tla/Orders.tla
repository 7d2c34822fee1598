------------------------------ MODULE Orders ------------------------------
(***************************************************************************)
(* OrderService, the vendor dashboard's bulk update and summary, and the   *)
(* notifications they cause.  A vendor moves an order along a pipeline;    *)
(* each move is committed with a row of the order's history, and then, in  *)
(* commits of their own, text messages to the student are queued for the   *)
(* worker to send after its response.  The bulk update queues none.        *)
(*                                                                         *)
(* Orders are read with SELECT ... FOR UPDATE over outer joins: SQLite     *)
(* ignores the lock, PostgreSQL refuses the statement.                     *)
(***************************************************************************)
EXTENDS Notifications, OrderStateMachine, FiniteSets

CONSTANTS
  Orders,
  Database,      \* "sqlite" or "postgresql"
  Workloads,     \* the requests that are made, the orders there are, and a
                 \* bound: how often each of them is moved
  MaxFaults      \* bound: requests that die and queueings that fail

EntryPoints == {"place", "update", "bulk", "notify_ready", "dashboard"}

\* An order begins anywhere but in CANCELLED: no request cancels one.
ASSUME OrdersAssumption ==
  /\ IsFiniteSet(Orders) /\ IsFiniteSet(Sessions)
  /\ Workloads \subseteq [entries : SUBSET EntryPoints,
                          start : [Orders -> (OrderStatus \ {"CANCELLED"}) \cup {ABSENT}],
                          moves : Nat]
  /\ Database \in {"sqlite", "postgresql"}
  /\ MaxFaults \in Nat

VARIABLES
  orders,             \* the status of each order
  order_status_logs,  \* the history of each order
  workload,           \* one of Workloads
  request,            \* the handler each worker runs
  raced,              \* history: orders that were moved from an old status
  faults              \* counts against MaxFaults

orderVars == <<orders, order_status_logs, workload, request, raced, faults>>
vars == <<notificationVars, orderVars>>
-----------------------------------------------------------------------------
\* What the student is told: a new status, that the laundry is ready (by SMS at
\* the move to READY), or the same by e-mail, when the vendor asks for it.
OrderTopics == Orders \X (OrderStatus \cup {"completed", "ready_mail"})

ASSUME TopicsAssumption == OrderTopics \subseteq Topics

Summaries == [orders : Nat, counted : Nat, picked_up : Nat, revenue : Nat]

NoSummary == [orders |-> 0, counted |-> 0, picked_up |-> 0, revenue |-> 0]

IdleRequest == [step |-> "idle", rest |-> << >>, target |-> "QUEUED",
                loaded |-> ABSENT, seen |-> NoSummary]

RequestRecords ==
  [step : {"idle", "error", "update_loaded", "changed", "completed", "bulk",
           "bulk_loaded", "notify_ready", "counting", "summing", "summary"},
   rest : Seq(Orders), target : OrderStatus, loaded : OrderStatus \cup {ABSENT},
   seen : Summaries]

TypeOK ==
  /\ NotificationsTypeOK
  /\ orders \in [Orders -> OrderStatus \cup {ABSENT}]
  /\ order_status_logs \in [Orders -> Seq(LogRows)]
  /\ workload \in Workloads
  /\ request \in [Sessions -> RequestRecords]
  /\ raced \subseteq Orders
  /\ faults \in 0 .. MaxFaults

Init ==
  /\ NotificationsInit
  /\ \E w \in Workloads :
       /\ workload = w
       /\ orders = w.start
       /\ order_status_logs = [o \in Orders |-> History(w.start[o])]
  /\ request = [s \in Sessions |-> IdleRequest]
  /\ raced = {}
  /\ faults = 0
-----------------------------------------------------------------------------
\* The order a handler is about; a bulk update goes through several.
Order(s) == Head(request[s].rest)

\* Mutation: any move forward is allowed, as when only the target is checked.
LegalIfNew(status, target) == status \notin {ABSENT, target}

Legal(status, target) == Successor(status) = target

\* Mutation: the e-mail goes out for an order that is nearly ready.
ReadyToNotifyEarly(status) == status \in {"DRYING", "READY"}

\* A vendor's message only goes out for an order that is ready.
ReadyToNotify(status) == status = "READY"

\* Where a request goes that reads an order for update: PostgreSQL does not lock
\* the nullable side of an outer join, and refuses.
ReadForUpdate(step) == IF Database = "sqlite" THEN step ELSE "error"

\* A worker that has finished its request and the tasks of its response.
Free(s) == request[s].step = "idle" /\ session[s].step = "idle"

Start(s, entry, step, list, target, loaded) ==
  /\ entry \in workload.entries
  /\ Free(s)
  /\ request' = [request EXCEPT ![s] =
       [IdleRequest EXCEPT !.step = step, !.rest = list, !.target = target,
                           !.loaded = loaded]]

GoTo(s, step) == request' = [request EXCEPT ![s].step = step]

Finish(s) == request' = [request EXCEPT ![s] = IdleRequest]

\* Mutation: a status is written only if nobody moved the order meanwhile, but
\* the move is logged all the same.
MovedIfUnchanged(s) ==
  IF orders[Order(s)] = request[s].loaded THEN request[s].target ELSE orders[Order(s)]

\* apply_status_transition: the target always differs from the status that was
\* read, so it is always written.
Moved(s) == request[s].target

\* Mutation: the history does not say where an order came from.
PreviousUnknown(s) == ABSENT

Previous(s) == request[s].loaded

ApplyStatusTransition(s, by) ==
  LET o == Order(s)
  IN  /\ Len(order_status_logs[o]) < Len(History(workload.start[o])) + workload.moves
      /\ orders' = [orders EXCEPT ![o] = Moved(s)]
      /\ order_status_logs' = [order_status_logs EXCEPT ![o] =
           Append(@, [previous |-> Previous(s), new |-> request[s].target, by |-> by])]
      /\ raced' = IF orders[o] = request[s].loaded THEN raced ELSE raced \cup {o}

\* Mutation: a student who is told that the laundry is ready is told nothing else.
AfterChangeCompletedOnly(target) == IF target = "READY" THEN "completed" ELSE "changed"

\* Which message comes first once a move is committed.
AfterChange(target) == "changed"
-----------------------------------------------------------------------------
\* POST /orders: an order of an active item and wash type.
PlaceOrder(o) ==
  /\ "place" \in workload.entries
  /\ orders[o] = ABSENT
  /\ orders' = [orders EXCEPT ![o] = "QUEUED"]
  /\ UNCHANGED <<notificationVars, order_status_logs, workload, request, raced, faults>>

\* PATCH /orders/{id}/status: read, check, commit, and then the messages.  A
\* move that is not allowed is refused; so is the statement, on PostgreSQL.
UpdateLoad(s, o, target) ==
  /\ Legal(orders[o], target)
  /\ Start(s, "update", ReadForUpdate("update_loaded"),
           <<o>>, target, orders[o])
  /\ UNCHANGED <<notificationVars, orders, order_status_logs, workload, raced, faults>>

UpdateCommit(s) ==
  /\ request[s].step = "update_loaded"
  /\ ApplyStatusTransition(s, "update")
  /\ GoTo(s, AfterChange(request[s].target))
  /\ UNCHANGED <<notificationVars, workload, faults>>

\* notify_order_status_changed, and at READY notify_laundry_completed.  Either
\* may queue nothing: the student is inactive, or its commit fails.
AfterMessage(s) ==
  IF request[s].step = "changed" /\ request[s].target = "READY"
  THEN GoTo(s, "completed")
  ELSE Finish(s)

QueueMessage(s) ==
  LET told == IF request[s].step = "changed" THEN request[s].target ELSE "completed"
  IN  /\ request[s].step \in {"changed", "completed"}
      /\ Queue(s, <<Order(s), told>>, "sms")
      /\ AfterMessage(s)
      /\ UNCHANGED <<orders, order_status_logs, workload, raced, faults>>

QueueFails(s) ==
  /\ request[s].step \in {"changed", "completed"}
  /\ faults < MaxFaults
  /\ faults' = faults + 1
  /\ AfterMessage(s)
  /\ UNCHANGED <<notificationVars, orders, order_status_logs, workload, raced>>

\* PATCH /vendor/orders/bulk-status: one commit per order, in the given order.
\* Inputs: orders there are, and statuses an order can be moved to; any other
\* is skipped.
BulkBegin(s, list, target) ==
  /\ \A i \in DOMAIN list : orders[list[i]] # ABSENT
  /\ \E status \in OrderStatus : Legal(status, target)
  /\ Start(s, "bulk", "bulk", list, target, ABSENT)
  /\ UNCHANGED <<notificationVars, orders, order_status_logs, workload, raced, faults>>

\* The first order is done, or skipped; the request ends with the last one.
NextInBulk(s) ==
  LET old == request[s]
  IN  request' = [request EXCEPT ![s] =
        IF Len(old.rest) > 1
        THEN [old EXCEPT !.step = "bulk", !.rest = Tail(old.rest), !.loaded = ABSENT]
        ELSE IdleRequest]

BulkLoad(s) ==
  /\ request[s].step = "bulk"
  /\ IF Legal(orders[Order(s)], request[s].target) \/ ReadForUpdate("bulk") = "error"
     THEN request' = [request EXCEPT ![s].step = ReadForUpdate("bulk_loaded"),
                                     ![s].loaded = orders[Order(s)]]
     ELSE NextInBulk(s)
  /\ UNCHANGED <<notificationVars, orders, order_status_logs, workload, raced, faults>>

BulkCommit(s) ==
  /\ request[s].step = "bulk_loaded"
  /\ ApplyStatusTransition(s, "bulk")
  /\ NextInBulk(s)
  /\ UNCHANGED <<notificationVars, workload, faults>>

\* POST /notifications/notify-ready/{id}: the order is read, then the e-mail
\* queued; the order may have moved on in between.
NotifyReadyLoad(s, o) ==
  /\ ReadyToNotify(orders[o])
  /\ Start(s, "notify_ready", ReadForUpdate("notify_ready"), <<o>>, "READY", ABSENT)
  /\ UNCHANGED <<notificationVars, orders, order_status_logs, workload, raced, faults>>

NotifyReadyQueue(s) ==
  /\ request[s].step = "notify_ready"
  /\ Queue(s, <<Order(s), "ready_mail">>, "email")
  /\ Finish(s)
  /\ UNCHANGED <<orders, order_status_logs, workload, raced, faults>>
-----------------------------------------------------------------------------
\* GET /vendor/dashboard: the orders, the count of each status but CANCELLED,
\* and the revenue of what was picked up (a price of 1 each), one query each.
\* Mutation: the orders waiting to be picked up are not counted.
CountedWithoutWaiting == OrderStatus \ {"CANCELLED", "WAITING_TO_PICK"}

Counted == OrderStatus \ {"CANCELLED"}

InStatus(statuses) == Cardinality({o \in Orders : orders[o] \in statuses})

DashboardOrders(s) ==
  /\ "dashboard" \in workload.entries
  /\ Free(s)
  /\ request' = [request EXCEPT ![s] =
       [IdleRequest EXCEPT !.step = "counting", !.seen.orders = InStatus(OrderStatus)]]
  /\ UNCHANGED <<notificationVars, orders, order_status_logs, workload, raced, faults>>

DashboardCounts(s) ==
  /\ request[s].step = "counting"
  /\ request' = [request EXCEPT ![s].step = "summing",
                                ![s].seen.counted = InStatus(Counted),
                                ![s].seen.picked_up = InStatus({"PICKED_UP"})]
  /\ UNCHANGED <<notificationVars, orders, order_status_logs, workload, raced, faults>>

DashboardRevenue(s) ==
  /\ request[s].step = "summing"
  /\ request' = [request EXCEPT ![s].step = "summary",
                                ![s].seen.revenue = InStatus({"PICKED_UP"})]
  /\ UNCHANGED <<notificationVars, orders, order_status_logs, workload, raced, faults>>

\* The answer is sent: a dashboard, or a server error.
Answer(s) ==
  /\ request[s].step \in {"summary", "error"}
  /\ Finish(s)
  /\ UNCHANGED <<notificationVars, orders, order_status_logs, workload, raced, faults>>

\* A worker dies, or its request raises: what is not committed is rolled back,
\* and the tasks of the response are not run.
Abort(s) ==
  /\ request[s].step # "idle" \/ session[s].step # "idle"
  /\ faults < MaxFaults
  /\ faults' = faults + 1
  /\ IF session[s].step = "idle" THEN UNCHANGED notificationVars ELSE Die(s)
  /\ Finish(s)
  /\ UNCHANGED <<orders, order_status_logs, workload, raced>>

\* The tasks of a response run when the request is over.
Background(s) ==
  /\ request[s].step = "idle"
  /\ Dispatch(s)
  /\ UNCHANGED orderVars

BulkLists == UNION {[1 .. n -> Orders] : n \in 1 .. 2}

\* The steps that carry a request on once it is accepted.
Proceed(s) ==
  \/ UpdateCommit(s) \/ QueueMessage(s)
  \/ BulkLoad(s) \/ BulkCommit(s) \/ NotifyReadyQueue(s)
  \/ DashboardCounts(s) \/ DashboardRevenue(s) \/ Answer(s)
  \/ Background(s)

Next ==
  \/ \E o \in Orders : PlaceOrder(o)
  \/ \E s \in Sessions :
       \/ \E o \in Orders, target \in OrderStatus : UpdateLoad(s, o, target)
       \/ \E list \in BulkLists, target \in OrderStatus : BulkBegin(s, list, target)
       \/ \E o \in Orders : NotifyReadyLoad(s, o)
       \/ DashboardOrders(s)
       \/ Proceed(s)
       \/ QueueFails(s)
       \/ Abort(s)

\* A worker that is alive goes on with what it is doing.
Fairness == \A s \in Sessions : WF_vars(Proceed(s))

Spec == Init /\ [][Next]_vars /\ Fairness
-----------------------------------------------------------------------------
\* The history and the order agree, whoever raced and whatever a bulk update
\* left undone: the last row of the history names the status of the order.
LastLogIsStatus ==
  \A o \in Orders :
    LET log == order_status_logs[o]
    IN  log # << >> => orders[o] = log[Len(log)].new

\* An order that no two requests moved at once went through the pipeline step by
\* step from QUEUED: each row starts where the one before it ended.
HistoryIsPipeline ==
  \A o \in Orders \ raced :
    LET log == order_status_logs[o]
    IN  \A i \in DOMAIN log :
          /\ log[i].new = Successor(log[i].previous)
          /\ log[i].previous = (IF i = 1 THEN "QUEUED" ELSE log[i - 1].new)

Told(o, what) ==
  Cardinality({i \in DOMAIN notifications : notifications[i].topic = <<o, what>>})

MovedBy(o, by, status) ==
  Cardinality({i \in DOMAIN order_status_logs[o] :
    order_status_logs[o][i].by = by /\ order_status_logs[o][i].new = status})

\* The student is told of each move update_status commits, once per row of the
\* history and never of one that is not there; without faults, and when nobody
\* is busy with the order, no message is missing.  Bulk moves are silent.
EachChangeToldOnce ==
  \A o \in Orders, status \in OrderStatus :
    LET moves == MovedBy(o, "update", status)
    IN  /\ Told(o, status) <= moves
        /\ status = "READY" => Told(o, "completed") <= moves
        /\ faults = 0 /\ (\A s \in Sessions : request[s].step = "idle") =>
             /\ Told(o, status) = moves
             /\ status = "READY" => Told(o, "completed") = moves

\* A student is told to collect the laundry only if the order's history shows it
\* was ready, although the e-mail is queued after the order was read.
ReadyMailIsTrue ==
  \A o \in Orders :
    Told(o, "ready_mail") > 0 =>
      \E i \in DOMAIN order_status_logs[o] : order_status_logs[o][i].new = "READY"

\* The numbers of a dashboard are read one after the other while orders move:
\* the counts cover at least the orders listed, and the revenue at least the
\* orders shown as picked up, unless a race moved an order backwards.
DashboardAddsUp ==
  \A s \in Sessions : request[s].step = "summary" =>
    /\ request[s].seen.orders <= request[s].seen.counted
    /\ raced = {} => request[s].seen.picked_up <= request[s].seen.revenue

\* A student whose laundry update_status made ready gets both messages sent or
\* failed, unless a worker died or the queueing failed on the way.  (The table is
\* bounded: a full one cannot take more.)
ReadyReachesStudent ==
  \A o \in Orders :
    MovedBy(o, "update", "READY") > 0 ~>
      \/ faults > 0 \/ Len(notifications) = MaxNotifications
      \/ \A what \in {"READY", "completed"} : \E i \in DOMAIN notifications :
           notifications[i].topic = <<o, what>> /\ notifications[i].status \in {SENT, FAILED}

\* A move along the pipeline is accepted (tests/test_sms_notifications.py moves
\* an order from DRYING to READY, on PostgreSQL).
LegalUpdatesAccepted == \A s \in Sessions : request[s].step # "error"

\* Orders and their history only ever grow as the lifecycle allows: however many
\* requests race and whatever copies they commit, an order skips no status, a move
\* starts from a status the order has had, and its row is never changed again.
Lifecycle == INSTANCE OrderLifecycle

ImplementsOrderLifecycle == Lifecycle!Spec
=============================================================================
