------------------------- MODULE OrderStateMachine -------------------------
(***************************************************************************)
(* The vocabulary of an order: its statuses, VALID_TRANSITIONS, and the    *)
(* rows of order_status_logs.  Constant-level: no state.                   *)
(***************************************************************************)
EXTENDS Integers

OrderStatus == {"QUEUED", "WASHING", "DRYING", "READY", "WAITING_TO_PICK",
                "PICKED_UP", "CANCELLED"}

ABSENT == "ABSENT"

\* VALID_TRANSITIONS: each status has one successor, or none.
Successor(status) ==
  CASE status = "QUEUED"          -> "WASHING"
    [] status = "WASHING"         -> "DRYING"
    [] status = "DRYING"          -> "READY"
    [] status = "READY"           -> "WAITING_TO_PICK"
    [] status = "WAITING_TO_PICK" -> "PICKED_UP"
    [] OTHER                      -> ABSENT

LogRows == [previous : OrderStatus, new : OrderStatus, by : {"update", "bulk"}]

\* The history of an order that bulk updates have moved from QUEUED to a status.
Pipeline == <<"QUEUED", "WASHING", "DRYING", "READY", "WAITING_TO_PICK", "PICKED_UP">>

History(status) ==
  LET moves == {i \in 1 .. 5 : \E j \in 1 .. 6 : i < j /\ Pipeline[j] = status}
  IN  [i \in moves |-> [previous |-> Pipeline[i], new |-> Pipeline[i + 1], by |-> "bulk"]]
=============================================================================
