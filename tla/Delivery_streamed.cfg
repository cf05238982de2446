CONSTANTS
    work = work
    cron = cron
    group = group
    mail = mail
    Sessions <- UserAndCron
    Streaming <- User
    Chats <- TheChats
    ChatOf <- InGroup
    Reachable <- Group
    SendMaxRetries = 2
    ApiTries = 2
    SendProgress = TRUE
    SendToolHints = FALSE
    MaxMessages = 1
    MaxDeltas = 2
    MaxIterations = 2
    MaxFailures = 0
    MaxQueue = 3
SPECIFICATION Spec
PROPERTIES StreamedWasSent
CHECK_DEADLOCK FALSE
