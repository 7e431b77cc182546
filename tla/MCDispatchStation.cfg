\* One task, two stations, a delivery whose answer is lost.
CONSTANTS
  o1 = o1
  t2 = t2
  Orders = {o1}
  Tasks = {t1}
  OrderOf <- MCOrderOf
  DependsOn <- MCDependsOn
  Stations = {1, 2}
  Suitable <- MCSuitable
  BacklogLimit <- MCBacklogLimit
  Schedulers = {w1}
  MaxAttempts = 2
  ReadCount = 2
  MaxFaults = 0
  NULL = NULL
SPECIFICATION Spec
INVARIANTS StationAgrees
CHECK_DEADLOCK FALSE
