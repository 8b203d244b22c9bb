SPECIFICATION Spec
CONSTANTS
    a1 = a1  a2 = a2  t1 = t1  t2 = t2
    Accounts = {a1, a2}
    Threads = {t1, t2}
    MaxCrash = 1
INVARIANTS LossNeedsOverlap
PROPERTY RegistryWhileAlone
SYMMETRY Symmetry
