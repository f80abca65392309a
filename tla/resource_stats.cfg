CONSTANTS
  p1 = p1
  p2 = p2
  p3 = p3
  Procs = {p1, p2, p3}
  Capacity = 1
  Disc = "FIFO"
  Prios = {0}
  MaxSignals = 2
  Kills = FALSE
  MaxTime = 3
  MaxArrivals = 4
SPECIFICATION StatsSpec
INVARIANTS LittlesLaw FiguresExact
SYMMETRY Symmetry
