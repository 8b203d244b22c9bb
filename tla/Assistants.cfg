SPECIFICATION FairSpec
CONSTANTS
    WizardTexts <- MCWizardTexts
    MaxProducts = 1
    Requests = {r1, r2}
    TiraTexts <- MCTiraTexts
    MaxSent <- MCMaxSent
    Limit = 2
    MaxLost = 2
    MaxDeaths = 1
    Pct <- MCPct
    Defects = {"chassis_hit"}
    Texts <- MCTexts
    Prices <- MCPrices
    Meanings <- MCMeanings
    Settings <- MCSettings
    Profile <- MCProfile
    SampleLimit = 3
    MaxAds = 3
    MaxReplies = 1
    Passwords = {"old", "new"}
    Expiries = {1, 3}
    Hours = 2
    SessionDays = 2
    CookieDays = 3
    MaxHour = 9
INVARIANTS ReadyIsPriced SummaryIsPriced DroppedWasExecuted RepeatsOneAnswer
    AlertNotAboveMarket AlertIsInformed SessionEndsWithLicense
PROPERTIES ConversationEnds HuntEnds EveryMessageExecuted
