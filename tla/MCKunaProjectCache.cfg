SPECIFICATION Spec
CONSTANTS
    None = None
    Processes = {p1, p2}
    Callers = {c1, c2}
    Keys = {k1, k2}
    Asks <- TwoAsks
    Builds = {b1, b2}
    OneCloseAtATime = TRUE
    MaxFaults = 1
SYMMETRY Symmetry
INVARIANTS WritersKeepTheirStaging NoWaiterIsAborted OneRunPerKey ClosedSessionsLeaveNoKuna
CHECK_DEADLOCK FALSE
