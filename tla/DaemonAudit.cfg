SPECIFICATION Spec
CONSTANTS
    Requests = {r1}
    Handlers = {h1, h2}
    Users = {u1}
    Commands = {c1}
    None = None
    TTL = 1
    Second = 1
    Units = {1}
    StartTime = 0
    MaxTime = 3
    MaxDowns = 0
    Faults = {"stop", "crash"}
    Persistent = TRUE
    StoreErrors = {}
INVARIANT AuditTrail
