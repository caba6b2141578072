SPECIFICATION FairSpec
CONSTANTS
    Requests = {r1, r2}
    Allowed = {r1, r2}
    Goroutines = {g1, g2, g3}
    None = None
INVARIANT TableTellsRuns
INVARIANT ListIsSnapshot
INVARIANT NobodyWaitsInACircle
PROPERTY OnlyOthersHoldUp
PROPERTY ImplementsLifecycle
