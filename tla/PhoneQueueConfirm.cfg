SPECIFICATION Spec
CONSTANTS
    a1 = a1  a2 = a2  m1 = m1  m2 = m2  o1 = o1
    None = None
    Leads <- TwoLeads
    Accounts = {a1}
    Monitors = {m1}
    Operators = {o1}
    IpLimit = 1
    SoftLimit = 1
    Adaptive = TRUE
    MaxRetry = 1
    MaxCrash = 0
    MaxReset = 1
    MaxRequeue = 1
INVARIANTS TypeOK NoLostLead MonitorsWithinLimit ContactsCounted
PROPERTY FoundOverwrittenOnlyByStaleClaim
CHECK_DEADLOCK FALSE
