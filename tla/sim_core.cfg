CONSTANTS
  p1 = p1
  p2 = p2
  x1 = x1
  e1 = e1
  Procs <- TwoProcs
  Traps = {x1}
  Evts = {e1}
  Intvs = {0, 1}
  WaitLists <- Lists
  MaxTime = 1
SPECIFICATION Spec
INVARIANTS Causality InternalTriggersSafe TimersMatchCalls RegistrationsExact NoLostWakeup
PROPERTIES ClockNeverBack CallsReturnRight EventListSpec SchedSpec
SYMMETRY Symmetry
