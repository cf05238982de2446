CONSTANTS
    work = work
    cron = cron
    group = group
    mail = mail
    Sessions <- UserAndCron
    Streaming <- User
    Chats <- TheChats
    ChatOf <- InGroup
    Reachable <- Group
    SendMaxRetries = 2
    ApiTries = 2
    SendProgress = TRUE
    SendToolHints = FALSE
    MaxMessages = 2
    MaxDeltas = 2
    MaxIterations = 2
    MaxFailures = 2
    MaxQueue = 2
SPECIFICATION FairSpec
INVARIANTS ChatsAreSound
PROPERTIES StreamIsShown Drains
CHECK_DEADLOCK FALSE
