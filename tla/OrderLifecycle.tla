--------------------------- MODULE OrderLifecycle ---------------------------
(***************************************************************************)
(* What the order component promises (VALID_TRANSITIONS, and a row of      *)
(* order_status_logs for each of its moves): an order is placed once, then *)
(* moves from a status it has had to the successor of that status, and its *)
(* history keeps every move.                                               *)
(***************************************************************************)
EXTENDS OrderStateMachine, Sequences

CONSTANT Orders

VARIABLES orders, order_status_logs

vars == <<orders, order_status_logs>>

\* The orders there are have come from QUEUED, by a pipeline each.
Init ==
  /\ orders \in [Orders -> (OrderStatus \ {"CANCELLED"}) \cup {ABSENT}]
  /\ order_status_logs = [o \in Orders |-> History(orders[o])]

\* The statuses an order has had, by its history.
Had(o) ==
  IF orders[o] = ABSENT THEN {}
  ELSE {"QUEUED"} \cup {order_status_logs[o][i].new : i \in DOMAIN order_status_logs[o]}

Place(o) ==
  /\ orders[o] = ABSENT
  /\ orders' = [orders EXCEPT ![o] = "QUEUED"]
  /\ UNCHANGED order_status_logs

\* Who moves an order may have read it some moves ago.
Move(o, from, by) ==
  /\ from \in Had(o)
  /\ Successor(from) # ABSENT
  /\ orders' = [orders EXCEPT ![o] = Successor(from)]
  /\ order_status_logs' = [order_status_logs EXCEPT ![o] =
       Append(@, [previous |-> from, new |-> Successor(from), by |-> by])]

Next ==
  \E o \in Orders :
    Place(o) \/ \E from \in Had(o), by \in {"update", "bulk"} : Move(o, from, by)

Spec == Init /\ [][Next]_vars
=============================================================================
