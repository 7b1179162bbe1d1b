CONSTANTS
    Proc = {p1, p2}
    Version <- OneVersion
    Content = {a, b}
    NoProc = NoProc
    NoRelease = NoRelease
    Upstream = Upstream
    NoTx = NoTx
    Operations = {"publish", "restore", "deleteRelease"}
    Faults = {"lockLoss", "lateCommit"}
SPECIFICATION Spec
SYMMETRY Symmetry
PROPERTIES
    OnlyReplacementChangesBytes
