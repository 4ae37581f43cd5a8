SPECIFICATION SSpec
CONSTANTS
  Proc = {p1, p2}
  Ticket = {t1}
  Population = {m1}
  Reset = {s1, s2}
  Planned = {s1, s2}
  Command = {"update"}
  Old = {m1}
  MaxCalls = 3
SYMMETRY Symmetry
INVARIANTS WorkPreserved StartOverWhole PopulationKept
PROPERTIES ResetsOnce
CHECK_DEADLOCK FALSE
CONSTRAINT ResumedOnly
