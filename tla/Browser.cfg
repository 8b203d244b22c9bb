SPECIFICATION BrowserFair
CONSTANTS
    t1 = t1  i1 = i1  r1 = r1
    None = None
    Mixed = Mixed
    Threads = {t1}
    Sites = {"divar"}
    Proofs = {"token"}
    Requests = {"open"}
    MaxProcs = 1
    Installers = {t1, i1}
    Pressers = {r1}
    Sources = {1, 2}
    Genuine = {2}
    MaxChunks = 2
    MinChunks = 1
    ResumeTries = 2
    MaxCrash = 1
INVARIANTS RegisteredIsWhole ResumedFromItsSource
PROPERTY DownloadEnds
CONSTRAINT OverlapOrDeath
CHECK_DEADLOCK FALSE
