SPECIFICATION Spec
CONSTANTS
    None = None
    Processes = {p1, p2}
    Callers = {c1, c2}
    Keys = {k1, k2}
    Asks <- OneAsk
    Builds = {b1, b2}
    OneCloseAtATime = FALSE
    MaxFaults = 2
SYMMETRY Symmetry
INVARIANT ClosedSessionsLeaveNoKuna
CHECK_DEADLOCK FALSE
