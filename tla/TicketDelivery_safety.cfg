SPECIFICATION Spec
CONSTANTS
    t1 = t1
    t2 = t2
    None = None
    Ticket = {t1, t2}
    Order <- InOrder
    Options <- EveryRun
    MaxVersion = 2
INVARIANTS MergedOnce DoneIsDelivered
PROPERTIES PublishesCertified NoWorkLost
CHECK_DEADLOCK FALSE
