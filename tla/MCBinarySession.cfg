SPECIFICATION Spec
CONSTANTS
    c1 = c1
    c2 = c2
    p1 = p1
    p2 = p2
    p3 = p3
    t1 = t1
    t2 = t2
    None = None
    Calls = {c1, c2}
    Clients = {p1, p2, p3}
    Targets = {t1, t2}
    Profiled = {t1}
    MaxQueued = 2
    MaxTransitions = 4
SYMMETRY CallsAndClients
INVARIANTS
    NoClientLost CallsKeepTheirClient ReplayIsFresh CacheMatchesSelection
    NothingSelectedUnderMutation DisposedIsFinal NoOvertaking
PROPERTIES CloseReleasesEverything ImplementsExclusion
