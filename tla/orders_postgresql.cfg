SPECIFICATION Spec
CONSTANTS
  Sessions = {s1}
  o1 = o1
  o2 = o2
  Orders = {o1, o2}
  Topics <- MCTopics
  Database = "postgresql"
  Workloads <- MCWorkloads
  Answers = {"accepted", "rejected"}
  MaxNotifications = 5
  MaxFaults = 0
  NoTopic = NoTopic
CHECK_DEADLOCK FALSE
INVARIANTS
  LegalUpdatesAccepted
