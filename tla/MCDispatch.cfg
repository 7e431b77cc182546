\* A two-step recipe, two schedulers, one crash or Redis failure.
CONSTANTS
  o1 = o1
  t2 = t2
  Orders = {o1}
  Tasks = {t1, t2}
  OrderOf <- MCOrderOf
  DependsOn <- MCDependsOn
  Stations = {1, 2}
  Suitable <- MCSuitable
  BacklogLimit <- MCBacklogLimit
  Schedulers = {w1, w2}
  MaxAttempts = 2
  ReadCount = 2
  MaxFaults = 1
  NULL = NULL
SPECIFICATION Spec
INVARIANTS TypeOK OneCarrier DependenciesFirst FailedIsDeadLettered
SYMMETRY Symmetry
CHECK_DEADLOCK FALSE
