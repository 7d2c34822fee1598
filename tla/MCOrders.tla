----------------------------- MODULE MCOrders -----------------------------
(***************************************************************************)
(* Orders for TLC.  Each behaviour has one of a few workloads: which        *)
(* requests are made, and which orders there are when they begin.          *)
(***************************************************************************)
EXTENDS Orders, TLC

MCTopics == OrderTopics

CONSTANTS o1, o2

Workload(requests, first, second, moves) ==
  [entries |-> requests, moves |-> moves,
   start |-> [o \in Orders |-> IF o = o1 THEN first ELSE second]]

\* An order is moved by single and bulk updates; an order about to be READY is
\* announced, also by e-mail; orders are placed and moved while a dashboard is read.
MCWorkloads ==
  {Workload({"update", "bulk"}, "QUEUED", ABSENT, 2),
   Workload({"update", "notify_ready"}, "DRYING", ABSENT, 2),
   Workload({"place", "bulk", "dashboard"}, "READY", ABSENT, 3)}
=============================================================================
