SPECIFICATION FairSpec
CONSTANTS
  p1 = p1
  p2 = p2
  p3 = p3
  p4 = p4
  Proc = {p1, p2, p3, p4}
  Run = {r1, tr}
  TrackerRun = tr
  LaunchId = {l1}
  Host <- TwoHosts
  Pid <- ReusedPid
  Supervised = {p1, p2, p3, p4}
  Unidentified = {p2}
  NoProc = NoProc
  NoRun = NoRun
  NoLaunch = NoLaunch
  MaxToken = 3
  MaxGeneration = 1
INVARIANTS SingleWriter
PROPERTIES ImplementsHandoff LaunchSettledOnce LaunchSettles
CHECK_DEADLOCK FALSE
