\* A Join published by the read goroutine after close has published the Leave.
SPECIFICATION SessionSpec
CONSTANTS
    CtrlCap = 1
    WriteCap = 1
    SubscriptionCap = 1
CHECK_DEADLOCK FALSE
INVARIANTS ClosedLeavesRoom
