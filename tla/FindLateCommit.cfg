CONSTANTS
    Proc = {p1, p2}
    Version <- OneVersion
    Content = {a, b}
    NoProc = NoProc
    NoRelease = NoRelease
    Upstream = Upstream
    NoTx = NoTx
    Operations = {"publish"}
    Faults = {"lateCommit"}
SPECIFICATION Spec
SYMMETRY Symmetry
INVARIANT
    NoDanglingRelease
