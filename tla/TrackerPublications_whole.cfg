SPECIFICATION Spec
CONSTANTS
  Proc = {p1, p2}
  Ticket = {t1}
  Population = {m1, m2}
  Reset = {r1}
  Planned = {}
  Command = {"populate", "reset", "update"}
SYMMETRY Symmetry
INVARIANTS PopulationWhole
