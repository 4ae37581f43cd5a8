SPECIFICATION FairSpec
CONSTANTS
  s1 = s1
  s2 = s2
  w1 = w1
  w2 = w2
  w3 = w3
  Supervisor = {s1}
  Worker = {w1, w2}
  None = None
  CheckpointLimit = 2
  RunLimit = 1
  ContinueIndependent = FALSE
PROPERTIES StopSettles OrphansEnd
CHECK_DEADLOCK FALSE
