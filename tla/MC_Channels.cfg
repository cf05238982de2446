CONSTANTS
    Adapters = {"telegram", "weixin", "matrix", "email", "session", "panel", "discord", "feishu", "qq", "wecom", "dingtalk", "slack", "whatsapp"}
    CacheSize = 2
    PanelLimit = 2
    MaxMessages = 3
    MaxPushes = 2
    MaxNotifies = 1
    MaxUnwanted = 1
    MaxFailures = 1
    MaxRestarts = 1
    Senders = {"telegram", "weixin", "matrix", "email", "mochat", "discord", "feishu", "qq", "wecom", "dingtalk", "slack", "whatsapp"}
    SendMaxRetries = 2
    MaxMedia = 2
    MaxTexts = 2
    MaxFailedCalls = 4
SPECIFICATION MCSpec
INVARIANTS TakenIsKept OnceInOrder SendingIsSound
CHECK_DEADLOCK FALSE
PROPERTIES TakenIsHandled
