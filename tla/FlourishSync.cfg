\* Two clients, each with a reconnect; one fault; two operations.
SPECIFICATION Spec
CONSTANTS
    Client = {c1, c2}
    LoggedIn = {c1, c2}
    MaxConns = 2
    MaxOps = 2
    MaxFaults = 1
SYMMETRY Symmetry
CHECK_DEADLOCK FALSE
INVARIANTS TypeOK QuietClientComplete OwnNotReapplied TicketOnce LeftNotSubscribed
