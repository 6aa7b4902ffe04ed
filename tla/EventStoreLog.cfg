\* Crashes, failed writes and events cut in the middle of the line.
SPECIFICATION Spec
CONSTANTS
    Entry = {e1, e2}
    Request = {q1, q2}
    Torn <- PartTear
    MaxCrashes = 3
    MaxErrors = 1
    Garbage = Garbage
INVARIANTS TypeOK ServerSeqOrdered NoDuplicateRequest AckedUntilTorn
PROPERTIES ImplementsEventLog
