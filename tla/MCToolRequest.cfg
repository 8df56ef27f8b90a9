SPECIFICATION RequestsFairSpec
CONSTANTS
    r1 = r1
    r2 = r2
    Calls = {r1, r2}
    MaxTransitions = 2
INVARIANTS ReplyOutlivesNoReset
PROPERTIES EveryRequestEnds
CHECK_DEADLOCK FALSE
