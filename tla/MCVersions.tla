------------------------------ MODULE MCVersions ------------------------------
\* The versions of one module in all its handlers, those of a catalogue as clients
\* page through it, and the artifact of an upstream version as two replicas cache
\* it.  They share no state, so a behaviour is one of them, chosen by Init and
\* named by running; the others stand still.
EXTENDS MCArtifactLifecycle, CatalogPages

CONSTANTS p1, p2, r1, r2, Unknown, NoObject    \* a process of each replica

ASSUME ArtifactAssumption ==
    /\ {r1, r2} \cap {p1, p2} = {}
    /\ NoProc \notin {p1, p2, r1, r2} /\ NoObject \notin Content /\ Unknown \notin Content
    /\ NoRelease \notin [sha : Content \cup {Unknown}, path : BOOLEAN]

VARIABLES running,
    row, object, old, upstream, lease, step, task, retried, bytes, outcome, leased, canceled

Hosts == [t \in {p1, p2} |-> IF t = p1 THEN r1 ELSE r2]
Artifact == INSTANCE UpstreamArtifactCacheProofs WITH
    Replica <- {r1, r2}, Task <- {p1, p2}, Host <- Hosts,
    NoRow <- NoRelease, Free <- NoProc, pc <- step, job <- task,
    Operations <- {"ensure", "prune"}, Faults <- {"callError"}
artifactVars ==
    <<row, object, old, upstream, lease, step, task, retried, bytes, outcome, leased, canceled>>

\* the processes change places, and with them their replicas
SwapProcesses == {f \in Permutations({p1, p2, r1, r2}) : {f[p1], f[p2]} = {p1, p2} /\ (f[p1] = p1 <=> f[r1] = r1)}

VersionsInit ==
    /\ running \in {"module", "catalogue", "artifact"}
    /\ Init /\ CatalogInit
    /\ Artifact!Init /\ (running # "artifact" => row = NoRelease /\ object = NoObject)

VersionsNext ==
    \/ running = "module" /\ Next /\ UNCHANGED <<running, catalogVars, artifactVars>>
    \/ running = "catalogue" /\ CatalogNext /\ UNCHANGED <<running, vars, artifactVars>>
    \/ running = "artifact" /\ Artifact!Next /\ UNCHANGED <<running, vars, catalogVars>>

VersionsSpec == VersionsInit /\ [][VersionsNext]_<<running, vars, catalogVars, artifactVars>>

\* forge_proxy.go:840: one fetch of a cold artifact in the whole cluster, although
\* calls fail.
OneFetchDespiteErrors == Artifact!OneFetch

\* 2.0.0-rc.2, 2.0.0-rc.10, 2.0.0-rc-1, 10.0.0+1, 10.0.0+2, and "0."
Semantic(core, pre, build) == [core |-> <<core, <<48>>, <<48>>>>, pre |-> pre, text |-> build]
RC == <<114, 99>>
Troublesome == <<
    Semantic(<<50>>, <<RC, <<50>>>>, <<>>), Semantic(<<50>>, <<RC, <<49, 48>>>>, <<>>),
    Semantic(<<50>>, <<RC \o <<45, 49>>>>, <<>>),
    Semantic(<<49, 48>>, <<>>, <<49>>), Semantic(<<49, 48>>, <<>>, <<50>>),
    [core |-> <<>>, pre |-> <<>>, text |-> <<48, 46>>]>>
OfTwoModules == <<{2, 4, 5}, {1, 3, 6}>>

WalkOf(kind, of, first, limit) == [kind |-> kind, of |-> of, first |-> first, limit |-> limit]
FiveWalks == {
    WalkOf("releases", {1, 2}, {}, 1), WalkOf("releases", {1, 2}, {}, 2), WalkOf("releases", {1}, {}, 2),
    WalkOf("modules", {1, 2}, {2}, 1), WalkOf("modules", {1, 2}, {}, 2)}
===============================================================================
