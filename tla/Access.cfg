CONSTANTS
    Replica = {r1, r2}
    Process = {p1, p2}
    Token = {t, u}
    Free = Free
    NoToken = NoToken
    NoReplica = NoReplica
    PoolSize = 2
    RefreshTTL = 1
    MaxStale = 0
    MaxTime = 1
    Operations = {"bearer", "manage", "revoke"}
    Faults = {"sqlError"}
SPECIFICATION Spec
SYMMETRY Symmetry
INVARIANTS
    RevocationIsImmediate ManagementIsCurrent
PROPERTIES
    NoLostUpdate StalenessIsBounded
