CONSTANTS
  p1 = p1
  p2 = p2
  p3 = p3
  b1 = b1
  b2 = b2
  Procs = {p1, p2, p3}
  Buckets = {b1}
  Capacity <- Caps
  InitLevel <- Empty
  Qdis <- Fifo
  Prio <- SamePrio
  Items <- AllItems
  Waits <- NoWaits
  Kills = FALSE
SPECIFICATION Spec
INVARIANTS LevelInRange
