SPECIFICATION Spec
CONSTANTS
    Requests = {r1}
    Handlers = {h1, h2}
    Users = {u1}
    Tokens = {t1, t2}
    None = None
    Active = {u1}
    StaticLists <- EmptyOrFirst
    Backends = {"postgres"}
    Second = 1
    Units = {1}
    TokenTTL = 0
    RequestTTL = 1
    MaxTime = 3
    StoreErrors = FALSE
PROPERTY OnlyEnrolmentReplacesToken
