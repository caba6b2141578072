SPECIFICATION Spec
CONSTANTS
    Requests = {r1}
    Handlers = {h1, h2}
    Users = {u1, u2}
    Tokens = {t1, t2}
    None = None
    Active = {u1}
    StaticLists <- EmptyOrFirst
    Backends = {"memory", "postgres", "sqlite"}
    Second = 2
    Units = {1, 2}
    TokenTTL = 1
    RequestTTL = 1
    MaxTime = 3
    StoreErrors = TRUE
SYMMETRY PamSymmetry
INVARIANT TypeOK
INVARIANT ApproverIsEnrolled
INVARIANT DecidedOnce
INVARIANT ApprovedBeforeDeadline
PROPERTY DeletesOnlyIdleTokens
PROPERTY DecisionsAreFinal
PROPERTY ImplementsLifecycle
