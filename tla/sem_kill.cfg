CONSTANTS
  p1 = p1
  p2 = p2
  p3 = p3
  s1 = s1
  s2 = s2
  Procs = {p1, p2}
  Sems = {s1}
  InitVal <- Empty
  Qdis <- Fifo
  Prios <- OnePrio
  MaxSignals = 2
  Kills = TRUE
SPECIFICATION Spec
PROPERTIES SignalWakesLive
