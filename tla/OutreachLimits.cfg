SPECIFICATION Spec
CONSTANTS
    m1 = m1  o1 = o1
    None = None
    Ads <- OneAd
    Monitors = {m1}
    Operators = {o1}
    SmsLimit = 1
    ChatLimit = 1
    SmsAuto = TRUE
    SmsReady = TRUE
    ChatAuto = TRUE
    ChatBatch = 1
    MaxSends = 1
    MaxCrash = 1
    MaxDays = 1
    MaxMarks = 0
    MaxReplies = 0
INVARIANTS WithinDailyLimits
