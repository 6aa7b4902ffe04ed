\* Four connections come and go while two broadcasts walk the list.
SPECIFICATION Spec
CONSTANTS
    Conn = {c1, c2, c3, c4}
    Cap = {1, 2, 4}
    MaxBroadcasts = 2
    Nobody = Nobody
SYMMETRY Symmetry
CHECK_DEADLOCK FALSE
INVARIANTS SliceIsSubscribers CalmBroadcastReachesAll
