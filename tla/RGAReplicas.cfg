\* Two clients and the server, four operations, any number of deliveries and restarts.
SPECIFICATION Spec
CONSTANTS
    Nil = Nil
    Client = {1, 2}
    Server = 0
    MaxOps = 4
INVARIANTS TypeOK DocumentIsTreeOrder Convergence SnapshotRoundTrip
PROPERTIES InsertsLandAfterCursor
