SPECIFICATION FairSpec
CONSTANTS
    r1 = r1
    r2 = r2
    r3 = r3
    None = None
    Requests = {r1, r2, r3}
    Checkpoint = TRUE
INVARIANTS QueueIsSound StartsFromNothing SettledIsOver
PROPERTIES CloseReleasesAll EveryCallSettles
