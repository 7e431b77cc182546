\* One scheduler that may crash once.
CONSTANTS
  o1 = o1
  t2 = t2
  Orders = {o1}
  Tasks = {t1}
  OrderOf <- MCOrderOf
  DependsOn <- MCDependsOn
  Stations = {1}
  Suitable <- MCSuitable
  BacklogLimit <- MCBacklogLimit
  Schedulers = {w1}
  MaxAttempts = 2
  ReadCount = 2
  MaxFaults = 1
  NULL = NULL
SPECIFICATION Spec
INVARIANTS AckedIsSafe
CHECK_DEADLOCK FALSE
