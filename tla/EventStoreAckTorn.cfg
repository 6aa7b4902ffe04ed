\* A torn line swallows the acknowledged event after it.
SPECIFICATION Spec
CONSTANTS
    Entry = {e1}
    Request = {q1, q2}
    Torn <- AnyTear
    MaxCrashes = 1
    MaxErrors = 1
    Garbage = Garbage
INVARIANTS AckedSurvives
