SPECIFICATION Spec
CONSTANTS
    Options <- EveryRun
    MaxReviews = 3
    MaxFixes = 1
INVARIANTS
    HandedOverOnce
    AllowanceKept
    ReportsSettled
    PacketLoads
PROPERTIES
    StopHolds
    ImplementsCertification
CHECK_DEADLOCK FALSE
