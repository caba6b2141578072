SPECIFICATION FairSpec
CONSTANTS
    r1 = r1
    u1 = u1
    u2 = u2
    q1 = q1
    Requests = {r1}
    Queries = {q1, q2}
    Users = {u1, u2}
    None = None
    Presses <- SmallPresses
    NotifyURLs = {"unset", "invalid", "valid"}
    Backends = {"memory", "postgres", "sqlite"}
    Second = 2
    Units = {1, 2}
    MaxRetries = 3
    RequestTTL = 1
    MaxTime = 2
    MaxDeliveries <- SmallDeliveries
    MaxCrashes = 1
    StoreErrors = TRUE
INVARIANT OneReportPerDenial
INVARIANT ReportsAreTrue
INVARIANT AnswersAreTrue
PROPERTY RetriesUntilVerdict
PROPERTY ImplementsLifecycle
PROPERTY EveryUpdateHandled
PROPERTY EveryNotifierEnds
