SPECIFICATION BindSpec
CONSTANTS
  s1 = s1
  s2 = s2
  p1 = p1
  g1 = g1
  g2 = g2
  g3 = g3
  c1 = c1
  c2 = c2
  Ids = {s1, s2}
  Privates = {p1}
  Groups = {g1, g2, g3}
  Commands = {c1, c2}
  None = None
  Budgets <- SomeBudgets
SYMMETRY Symmetry
INVARIANT ChosenStays
PROPERTY AnnouncedIsReused
CHECK_DEADLOCK FALSE
