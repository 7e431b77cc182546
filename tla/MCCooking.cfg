\* Two stations with one slot and one place each, one worker, two tasks, two kitchen requests, one call at a time.
CONSTANTS
  s1 = s1
  s2 = s2
  o1 = o1
  t2 = t2
  Stations = {s1, s2}
  Tasks = {t1, t2}
  Workers = {w1}
  Requests = {r1, r2}
  Suitable <- MCSuitable
  BacklogLimit <- MCBacklogLimit
  Capacities = {1}
  MaxCapacity = 1
  Home <- MCHome
  CompleteAttempts = 2
  Orders = {o1}
  OrderOf <- MCOrderOf
  Sessions = {f1}
  NULL = NULL
SPECIFICATION FairCookingSpec
INVARIANTS DisplayAgrees CookedIsStarted
 
