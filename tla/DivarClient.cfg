SPECIFICATION Spec
CONSTANTS
    t1 = t1  t2 = t2  a1 = a1  p1 = p1  p2 = p2
    None = None
    Threads = {t1, t2}
    Ads = {a1}
    Phones = {p1, p2}
    Transports <- MCTransports
    Plain = {"requests"}
    Calls <- MCCalls
    MaxCodes = 2
INVARIANTS VerdictsTrue ChatOnceUnlessLost QuietAfter429 CodeNotWasted
SYMMETRY Symmetry
