SPECIFICATION Spec
CONSTANTS
    t1 = t1  t2 = t2
    None = None
    Threads = {t1, t2}
    Sites = {"divar"}
    Proofs = {"token"}
    Requests = {"open", "create", "save", "delete", "login", "collect", "chat"}
    MaxProcs = 2
    MaxCrash = 1
INVARIANTS EveryWindowKnown OwnPage 
SYMMETRY Symmetry
