\* Restore replays a delete that Apply refused.
SPECIFICATION Spec
CONSTANTS
    Nil = Nil
    NoConn = NoConn
    NoSnapshot = NoSnapshot
    author = author
    guest = guest
    Conn = {author, guest}
    AuthConn = {author}
    Ops <- FaultOps
    MaxCrashes = 1
    MaxDeletes = 0
    MaxErrors = 0
INVARIANTS GuestCannotDelete
