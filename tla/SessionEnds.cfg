\* Every channel with one place, so that each of them is full at times.
SPECIFICATION SessionSpec
CONSTANTS
    CtrlCap = 1
    WriteCap = 1
    SubscriptionCap = 1
CHECK_DEADLOCK FALSE
INVARIANTS SessionTypeOK CleanLeave AssignBeforePing
PROPERTIES EndpointEnds
