SPECIFICATION Spec
CONSTANTS
  Sessions = {s1, s2}
  Orders = {o1, o2}
  Topics <- MCTopics
  Database = "sqlite"
  o1 = o1
  o2 = o2
  Workloads <- MCWorkloads
  Answers = {"accepted", "rejected"}
  MaxNotifications = 4
  MaxFaults = 1
  NoTopic = NoTopic
CHECK_DEADLOCK FALSE
INVARIANTS
  TypeOK
  HistoryIsPipeline
  EachChangeToldOnce
  ReadyMailIsTrue
  DashboardAddsUp
PROPERTIES
  ImplementsOrderLifecycle
  ReadyReachesStudent
