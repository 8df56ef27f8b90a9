SPECIFICATION AdmissionFairSpec
CONSTANTS
    s1 = s1
    s2 = s2
    l1 = l1
    q1 = q1
    q2 = q2
    Foreground = Foreground
    Sessions = {s1, s2}
    Lookups = {l1}
    Queries = {q1, q2}
    Tickets = {l1, q1, q2}
    SessionOf <- MCSessionOf
    Budget = 1
CHECK_DEADLOCK FALSE
INVARIANTS PoolsAreSound SlotsFollowRuns
PROPERTIES EveryWaiterIsServed
