\* Two independent tasks and room for one, no crash; the services may never answer.
CONSTANTS
  o1 = o1
  t2 = t2
  Orders = {o1}
  Tasks = {t1, t3}
  OrderOf <- MCOrderOf
  DependsOn <- MCDependsOn
  Stations = {1}
  Suitable <- MCSuitable
  BacklogLimit <- MCBacklogLimit
  Schedulers = {w1, w2}
  MaxAttempts = 2
  ReadCount = 2
  MaxFaults = 0
  NULL = NULL
SPECIFICATION FairSpec
INVARIANTS DisplayedIsDelivered QueuedIsCarried
PROPERTIES DispatchSettles
CHECK_DEADLOCK FALSE
