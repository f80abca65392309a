CONSTANTS
  e1 = e1
  e2 = e2
  e3 = e3
  e4 = e4
  e5 = e5
  e6 = e6
  Events = {e1, e2, e3, e4, e5, e6}
  InitLast = 0
  MaxTime = 2
SPECIFICATION Spec
INVARIANTS HeapOrder PositionsExact
PROPERTIES EventListSpec
SYMMETRY Symmetry
