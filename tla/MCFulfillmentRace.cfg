\* Two completions of one order at once.
CONSTANTS
  o1 = o1
  t2 = t2
  Orders = {o1}
  Tasks = {t1, t2}
  OrderOf <- MCOrderOf
  BuildIndex <- MCBuildIndex
  Requests = {r1, r2}
  Stations = {s1}
  KdsTasks = {k1}
  Times <- MCTimes
  MaxAttempts = 1
  NULL = NULL
SPECIFICATION Spec
INVARIANTS OrderClosed
