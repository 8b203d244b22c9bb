SPECIFICATION FairSpec
CONSTANTS
    m1 = m1  o1 = o1
    None = None
    Ads <- TwoAds
    Monitors = {m1}
    Operators = {}
    SmsLimit = 1
    ChatLimit = 2
    SmsAuto = TRUE
    SmsReady = TRUE
    ChatAuto = TRUE
    ChatBatch = 2
    MaxSends = 1
    MaxCrash = 0
    MaxDays = 0
    MaxMarks = 0
    MaxReplies = 0
PROPERTY ChatQueueEmptied
