CONSTANTS
  a = a
  b = b
  c = c
  e1 = e1
  e2 = e2
  m1 = m1
  m2 = m2
  Sims = {a, b, c}
  Groups <- AllGroups
  MinDelay <- Delays
  UserLook = 5
  Evs = {e1}
  Msgs = {m1, m2}
  MaxTime = 2
  MaxRuns = 2
  Clocks <- Starts
SPECIFICATION FairSpec
INVARIANTS LocalCausality ClocksTogether QueuesInStep ExactlyOnce
PROPERTIES ReportExact RunReturns AllEnd
