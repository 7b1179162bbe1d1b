CONSTANTS
    Proc = {p1, p2}
    Version <- OneVersion
    Content = {a}
    NoProc = NoProc
    NoRelease = NoRelease
    Upstream = Upstream
    NoTx = NoTx
    Operations = {"publish", "deleteRelease", "worker"}
    Faults = {"sqlError", "storageError", "lateDelete"}
SPECIFICATION FairSpec
INVARIANTS
    NothingForgottenThoughLate
PROPERTIES
    QueueDrains EveryCallFinishes
