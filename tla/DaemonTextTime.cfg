SPECIFICATION Spec
CONSTANTS
    Requests = {r1}
    Handlers = {h1, h2}
    Users = {u1}
    Commands = {c1}
    None = None
    TTL = 2
    Second = 2
    Units = {1, 2}
    StartTime = 0
    MaxTime = 4
    MaxDowns = 0
    Faults = {"stop", "crash"}
    Persistent = TRUE
    StoreErrors = {}
INVARIANT DeadlineIsExact
