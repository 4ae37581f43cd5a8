SPECIFICATION Spec
CONSTANTS
  s1 = s1
  s2 = s2
  w1 = w1
  w2 = w2
  w3 = w3
  Supervisor = {s1, s2}
  Worker = {w1, w2, w3}
  None = None
  CheckpointLimit = 2
  RunLimit = 1
  ContinueIndependent = TRUE
SYMMETRY AnyIncarnation
INVARIANTS SoleWorker RestartBudget ReturnedRunParked
PROPERTIES NoUnattendedReplay
CHECK_DEADLOCK FALSE
