SPECIFICATION Spec
CONSTANTS
  p1 = p1
  p2 = p2
  p3 = p3
  p4 = p4
  Proc = {p1, p2, p3}
  Run = {r1, r2, tr}
  TrackerRun = tr
  LaunchId = {l1}
  Host <- OneHost
  Pid <- ReusedPid
  Supervised = {}
  Unidentified = {}
  NoProc = NoProc
  NoRun = NoRun
  NoLaunch = NoLaunch
  MaxToken = 3
  MaxGeneration = 2
INVARIANTS LeaseExcludesBuild DispatchIsolation
PROPERTIES GenerationsGrow
CHECK_DEADLOCK FALSE
