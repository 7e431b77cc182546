\* Two requests in progress at once on an order of two tasks, with its event log.
CONSTANTS
  o1 = o1
  t2 = t2
  Orders = {o1}
  Tasks = {t1, t2}
  OrderOf <- MCOrderOf
  BuildIndex <- MCBuildIndex
  Requests = {r1, r2}
  Stations = {s1, s2}
  KdsTasks = {k1}
  Times <- MCTimes
  MaxAttempts = 1
  MaxFaults = 1
  NULL = NULL
SPECIFICATION EventsSpec
INVARIANTS TypeOK ReadyMeansAllDone UnqueuedTasksWait QueuedWasPublished AnnouncedOnce LogIsTrue LogIsComplete OrderEventsFirst
PROPERTIES AssignmentFrozen RefinesLifecycle
SYMMETRY Symmetry
