SPECIFICATION Spec
CONSTANTS
    c1 = c1
    c2 = c2
    p1 = p1
    p2 = p2
    p3 = p3
    t1 = t1
    t2 = t2
    None = None
    Calls = {c1}
    Clients = {p1, p2}
    Targets = {t1, t2}
    Profiled = {t1, t2}
    MaxQueued = 2
    MaxTransitions = 3
INVARIANTS FailedOpenRetiresCache
