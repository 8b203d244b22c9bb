SPECIFICATION Spec
CONSTANTS
    m1 = m1  o1 = o1
    None = None
    Ads <- OneAd
    Monitors = {m1}
    Operators = {}
    SmsLimit = 1
    ChatLimit = 2
    SmsAuto = TRUE
    SmsReady = TRUE
    ChatAuto = TRUE
    ChatBatch = 1
    MaxSends = 2
    MaxCrash = 1
    MaxDays = 1
    MaxMarks = 1
    MaxReplies = 1
INVARIANTS MarketedOnce InquiredOnce
