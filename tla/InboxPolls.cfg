SPECIFICATION FairSpec
CONSTANTS
    m1 = m1  m2 = m2  s1 = s1  s2 = s2  sold = sold  hit = hit
    None = None  Stranger = Stranger
    Ads <- TwoAds
    Sellers = {s1, s2}
    SellerOf <- TwoSellers
    ChatOnly = {2}
    Matches <- TitleOfOther
    Messages = {sold, hit}
    Undated = {hit}
    MeansOf <- SoldOrHit
    Meanings = {"gone"}
    Monitors = {m1}
    SmsBatch = 1
    ScanRows = 1
    PollBatch = 1
    LastOfThread = 1
    MaxSms = 2
    MaxThread = 1
    MaxFails = 1
INVARIANTS SmsStoredOnce StoredIsApplied VerdictFromItsTexts
PROPERTY EverySmsRead
