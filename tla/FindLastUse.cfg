CONSTANTS
    Replica = {r1, r2}
    Process = {p1, p2}
    Token = {t, u}
    Free = Free
    NoToken = NoToken
    NoReplica = NoReplica
    PoolSize = 2
    RefreshTTL = 1
    MaxStale = 0
    MaxTime = 1
    Operations = {"bearer", "revoke"}
    Faults = {"sqlError"}
SPECIFICATION Spec
SYMMETRY Symmetry
PROPERTY
    LastUseStays
