CONSTANTS
  a = a
  b = b
  c = c
  e1 = e1
  e2 = e2
  m1 = m1
  m2 = m2
  Sims = {a, b, c}
  Groups <- Seq1
  MinDelay <- NoDelays
  UserLook = 5
  Evs = {e1, e2}
  Msgs = {}
  MaxTime = 2
  MaxRuns = 2
  Clocks <- AllZero
SPECIFICATION Spec
PROPERTIES RunsOutOfEvents
