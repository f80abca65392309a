CONSTANTS
  p1 = p1
  p2 = p2
  p3 = p3
  m1 = m1
  m2 = m2
  m3 = m3
  a = a
  b = b
  Procs = {p1, p2}
  Parts = {a, b}
  Msgs = {m1, m2}
  Kills = TRUE
SPECIFICATION Spec
INVARIANTS NoneLeftBlocked RegistrationsExact TakenInOrder
SYMMETRY Symmetry
