CONSTANTS
    ann = ann
    Chats <- OneChat
    Kinds <- AllKinds
    Budget = 2
    Gate = 2
    MaxFailures = 1
    MaxMessages = 3
    MaxQueue = 1
    MaxTools = 1
    MaxCrashes = 1
    RunIds = {1, 2}
    QueueSize = 1
    MaxIterations <- TwoAndOne
    MaxWriteErrors = 1
    MaxStops = 1
    MaxBreaks = 1
    MaxUnread = 1
    WireSize = 1
SPECIFICATION MCSpec
INVARIANTS SessionsAreSound KeptOrArchivedOnce TraceIsSound
PROPERTIES StopIsComplete Drains PageCatchesUp
CHECK_DEADLOCK FALSE
