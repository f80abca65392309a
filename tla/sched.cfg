CONSTANTS
  p1 = p1
  p2 = p2
  p3 = p3
  Procs <- MCProcs
SPECIFICATION FairSpec
INVARIANTS QueuedOnce RunningIsReady
PROPERTIES DeathIsFinal ReadyRuns
