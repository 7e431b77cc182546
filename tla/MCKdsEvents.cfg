\* Two requests on one task, locked in both orders, and what they write.
CONSTANTS
  Stations = {s1}
  Tasks = {t1}
  Workers = {w1, w2}
  Requests = {r1, r2}
  Suitable <- MCSuitable
  BacklogLimit <- MCBacklogLimit
  Capacities = {1}
  MaxCapacity = 1
  NULL = NULL
SPECIFICATION KdsEventsSpec
INVARIANTS TypeOK LogFollowsDisplay
PROPERTIES RequestsAnswered
