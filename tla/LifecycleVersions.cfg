CONSTANTS
    p1 = p1
    p2 = p2
    r1 = r1
    r2 = r2
    Unknown = Unknown
    NoObject = NoObject
    Proc = {p1, p2}
    Version <- TwoVersions
    Content = {a}
    NoProc = NoProc
    NoRelease = NoRelease
    Upstream = Upstream
    NoTx = NoTx
    Operations = {"publish", "deleteRelease", "deleteModule", "index", "restore"}
    Faults = {"crash"}
    Catalogued = {1, 2}
    Versions <- Troublesome
    Offered <- OfTwoModules
    Walks <- FiveWalks
    MaxWrites = 3
SPECIFICATION VersionsSpec
SYMMETRY SwapProcesses
INVARIANTS
    OneFetchDespiteErrors LatestIsGreatest WalksAreWhole
PROPERTIES
    UnforcedDeleteSparesLatestAndUsed DeletedUpstreamStaysDeleted
