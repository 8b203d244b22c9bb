SPECIFICATION FairSpec
CONSTANTS
    a1 = a1  a2 = a2  m1 = m1  m2 = m2  o1 = o1
    None = None
    Leads <- TwoLeads
    Accounts = {a1, a2}
    Monitors = {m1}
    Operators = {}
    IpLimit = 2
    SoftLimit = 1
    Adaptive = TRUE
    MaxRetry = 1
    MaxCrash = 1
    MaxReset = 0
    MaxRequeue = 1
PROPERTIES ImplementsLifecycle QueueServed
CHECK_DEADLOCK FALSE
