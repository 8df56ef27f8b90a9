SPECIFICATION FairSpec
CONSTANTS
    c1 = c1
    c2 = c2
    c3 = c3
    n1 = n1
    n2 = n2
    None = None
    Callers = {c1, c2, c3}
    Clients = {n1, n2}
INVARIANTS NoClientOrphaned NoProducerAbandoned
PROPERTIES CloseReleasesAll EveryCallerIsTold
