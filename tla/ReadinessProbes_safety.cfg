SPECIFICATION FairSpec
CONSTANTS
  Proc = {o1, o2}
  Probe = {a, b}
  None = None
  MaxCleanup = 2
INVARIANTS QuiescentMeansGone OneProbeAtATime RevokedNeverRuns SuccessorAlone
PROPERTIES GateOpensOrShuts
CHECK_DEADLOCK FALSE
