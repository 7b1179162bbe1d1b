CONSTANTS
    r1 = r1
    r2 = r2
    t2 = t2
    Replica = {r1}
    Task = {t1}
    Host <- OnOneReplica
    Content = {a, b}
    NoObject = NoObject
    Unknown = Unknown
    NoRow = NoRow
    Free = Free
    Operations = {"ensure", "download", "prune"}
    Faults = {"callError", "renewal", "crash", "pause", "corruption", "upstreamDiffers"}
SPECIFICATION FairSpec
PROPERTIES
    EveryActorReturns
