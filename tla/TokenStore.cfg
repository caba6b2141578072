SPECIFICATION FairSpec
CONSTANTS
    Clients = {c1, c2}
    Users = {u1}
    Tokens = {t1, t2}
    None = None
    Settings = {"auto", "true", "false"}
    MaxCrashes = 1
INVARIANT StoreAsConfigured
INVARIANT AcknowledgedIsSaved
INVARIANT ReadsAreCurrent
INVARIANT NobodyWaitsInACircle
PROPERTY EveryCallReturns
