\* Two workers at a station with two slots and one place on its display, three tasks, two requests in progress.
CONSTANTS
  s1 = s1
  Stations = {s1}
  Tasks = {t1, t2, t3}
  Workers = {w1, w2}
  Requests = {r1, r2}
  Suitable <- MCSuitable
  BacklogLimit <- MCBacklogLimit
  Capacities = {2}
  MaxCapacity = 2
  Home <- MCHome
  CompleteAttempts = 2
  NULL = NULL
SPECIFICATION FloorSpec
INVARIANTS FloorTypeOK CookingIsClaimed ClaimKept FullMeansClaimed OverrunIsBounded
PROPERTIES CompletedIsFinal ClaimRespectsStation DeliveryWithinBacklog
SYMMETRY Symmetry
