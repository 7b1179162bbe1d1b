CONSTANTS
    Proc = {p1, p2}
    Version <- OneVersion
    Content = {a, b}
    NoProc = NoProc
    NoRelease = NoRelease
    Upstream = Upstream
    NoTx = NoTx
    Operations = {"publish", "deleteRelease", "deleteModule", "index", "restore", "hydrate", "worker", "reconcile"}
    Faults <- Serialized
SPECIFICATION Spec
SYMMETRY Symmetry
INVARIANTS
    TypeOK NoDanglingRelease SupersededArtifactStaysQueued
    AcknowledgedReleaseIsStored CompensationLeavesNothing
PROPERTIES
    CatalogSpec HydrationKeepsRows
