SPECIFICATION Spec
CONSTANTS
    None = None
    Leads <- TwoLeads
    Limit = 1
    MaxPhones = 2
    Pages = 2
    MaxConsecutive = 2
    Interactive = TRUE
    MaxRuns = 2
    MaxCrash = 1
    MaxDays = 1
INVARIANTS WithinDailyLimit StoredWereCounted
PROPERTY FatalStopsRun
CHECK_DEADLOCK FALSE
