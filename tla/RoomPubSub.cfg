\* Two sessions; every channel can be full.
SPECIFICATION RoomSpec
CONSTANTS
    SessionID = {s1, s2}
    InboxCap = 2
    TopicCap = 1
CHECK_DEADLOCK FALSE
INVARIANTS RoomTypeOK RegistryFollowsInbox FrameForEveryMember SessionPanicsOnlyAtShutdown
PROPERTIES LeaveTakesEffect
