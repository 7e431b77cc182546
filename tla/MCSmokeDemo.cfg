\* Two orders, one transition request in progress at a time, and the smoke test of the first.
CONSTANTS
  o1 = o1
  o2 = o2
  t2 = t2
  t3 = t3
  Orders = {o1, o2}
  Tasks = {t1, t2, t3}
  OrderOf <- MCOrderOf
  BuildIndex <- MCBuildIndex
  Requests = {r1}
  Stations = {s1}
  KdsTasks = {k1}
  Times <- MCTimes
  MaxAttempts = 2
  DemoOrder = o1
  NULL = NULL
SPECIFICATION SmokeSpec
INVARIANTS OrderClosed VerdictIsSound
