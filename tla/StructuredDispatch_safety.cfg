SPECIFICATION Spec
CONSTANTS
  d1 = d1
  d2 = d2
  d3 = d3
  d4 = d4
  s1 = s1
  s2 = s2
  s3 = s3
  s4 = s4
  Dispatch = {d1, d2, d3, d4}
  Session = {s1, s2, s3, s4}
  None = None
  MaxCrashes = 2
SYMMETRY Identities
INVARIANTS OneUnknownWork AllPublishedBeforeDispatch TransferExclusive CompletedTransferContinued
PROPERTIES LeaseMovesByAcknowledgement
CHECK_DEADLOCK FALSE
