\* Two requests in progress at once on a station with room for both.
CONSTANTS
  Stations = {s1}
  Tasks = {t1, t2}
  Workers = {w1}
  Requests = {r1, r2}
  Suitable <- MCSuitable
  BacklogLimit <- MCBacklogLimit
  Capacities = {2}
  MaxCapacity = 2
  NULL = NULL
SPECIFICATION Spec
INVARIANTS SlotAccounting
