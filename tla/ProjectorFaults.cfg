\* Crashes and failed writes between any two steps, the entry deleted at any time.
SPECIFICATION Spec
CONSTANTS
    Nil = Nil
    NoConn = NoConn
    NoSnapshot = NoSnapshot
    author = author
    guest = guest
    Conn = {author, guest}
    AuthConn = {author}
    Ops <- FaultOps
    MaxCrashes = 2
    MaxDeletes = 1
    MaxErrors = 1
INVARIANTS TypeOK ViewsMatchRGA NoEventForgotten GuestCannotDeleteLive WatcherAgrees
PROPERTIES InsertReachesEntry
