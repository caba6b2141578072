SPECIFICATION FairSpec
CONSTANTS
    Requests = {r1}
    Handlers = {h1, h2}
    Users = {u1}
    Commands = {c1}
    None = None
    TTL = 2
    Second = 2
    Units = {1, 2}
    StartTime = 0
    MaxTime = 4
    MaxDowns = 1
    Faults = {"stop", "crash"}
    Persistent = TRUE
    StoreErrors = {"get", "expire", "update"}
INVARIANT RunsAtMostOnce
INVARIANT NeverRunsUnapproved
INVARIANT SafetyInv
INVARIANT TextErrsWithinTheSecond
INVARIANT DeciderRecorded
PROPERTY FinalStatusesAreFinal
PROPERTY RunsOnlyAllowlisted
PROPERTY ImplementsLifecycle
PROPERTY PendingResolves
PROPERTY ExecutionRecorded
