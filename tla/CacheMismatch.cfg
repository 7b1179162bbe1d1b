CONSTANTS
    r1 = r1
    r2 = r2
    t2 = t2
    Replica = {r1, r2}
    Task = {t1, t2}
    Host <- OnTwoReplicas
    Content = {a, b}
    NoObject = NoObject
    Unknown = Unknown
    NoRow = NoRow
    Free = Free
    Operations = {"ensure", "download", "prune"}
    Faults = {"upstreamDiffers", "corruption", "renewal", "crash"}
SYMMETRY Symmetry
SPECIFICATION Spec
PROPERTIES
    KnownChecksumsAreKept RecordedBytesAreStored PruneSparesReferenced
