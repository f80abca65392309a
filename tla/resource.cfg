CONSTANTS
  p1 = p1
  p2 = p2
  p3 = p3
  p4 = p4
  Procs = {p1, p2, p3}
  Capacity = 2
  Disc = "PRIORITY"
  Prios <- TwoPrios
  MaxSignals = 2
  Kills = TRUE
SPECIFICATION Spec
INVARIANT CountsExact
SYMMETRY Symmetry
