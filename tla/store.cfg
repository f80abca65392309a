CONSTANTS
  p1 = p1
  p2 = p2
  p3 = p3
  s1 = s1
  s2 = s2
  Procs = {p1, p2, p3}
  Buckets = {s1, s2}
  Capacity <- Caps
  InitLevel <- Start
  InitObj = {s2}
  MaxObjs = 5
  MaxStale = 1
  Qdis <- FifoLifo
  Prio <- SamePrio
  Items <- Single
  Waits <- Lists
  Kills = TRUE
SPECIFICATION StoreSpec
INVARIANTS PromisesKept ArrivalsMatchCalls NoneLeftBlocked ObjectsConserved NoUnderflow
SYMMETRY Symmetry
