CONSTANTS
    Replica = {r1}
    Process = {p1, p2}
    Token = {t, u}
    Free = Free
    NoToken = NoToken
    NoReplica = NoReplica
    PoolSize = 1
    RefreshTTL = 1
    MaxStale = 0
    MaxTime = 0
    Operations = {"create", "rotate"}
    Faults = {"sqlError", "crash"}
SPECIFICATION FairSpec
PROPERTIES EveryRequestReturns
