------------------------- MODULE ArtifactLifecycle -------------------------
(***************************************************************************)
(* The life of one module's release artifacts: publishing, replacing,      *)
(* deleting, indexing, restoring and hydrating upstream releases, the      *)
(* artifact-deletion worker and the reconciliation repair, all running     *)
(* concurrently on several replicas.                                       *)
(*                                                                         *)
(* Every request or job is a process.  SQL transactions are atomic; every  *)
(* other call of a handler is a step of its own, so that anything may      *)
(* happen between two calls.  The module lock covers one module identity,  *)
(* and object paths carry that identity, so one module is modelled.        *)
(*                                                                         *)
(* A release row is NoRelease, Upstream (an indexed upstream release,      *)
(* which owns no local object) or the content c of a local release, whose  *)
(* object is the content-addressed path <<version, c>>.                    *)
(***************************************************************************)
EXTENDS Naturals, FiniteSets

CONSTANTS
    Proc,        \* requests and jobs in flight, on any replica
    Version,     \* versions of the module, numbered in their semver order
    Content,     \* the archives that may be published (their SHA-256)
    NoProc, NoRelease, Upstream, NoTx,
    Operations,  \* the operations that processes start
    Faults       \* the kinds of failure that may happen

AllOperations ==
    {"publish", "deleteRelease", "deleteModule", "index", "restore", "hydrate",
     "worker", "reconcile"}

\* Those that write a release row.
CreateOperations == {"publish", "index", "restore", "hydrate"}

AllFaults ==
    {"lockError",     \* waiting for the module lock fails or is canceled
     "sqlError",      \* an SQL call fails; a write may have been applied
     "storageError",  \* an object-storage call fails; it may have been applied
     "crash",         \* the process, or its client, goes away
     "lateCommit",    \* a COMMIT reported as failed is applied later
     "lateDelete",    \* an object delete reported as failed is applied later
     "lockLoss"}      \* the lock's SQL session ends while its holder runs on

ASSUME ConstantsAssumption ==
    /\ Version \subseteq Nat \ {0}
    /\ IsFiniteSet(Version)
    /\ NoProc \notin Proc
    /\ NoRelease \notin Content
    /\ Upstream \notin Content
    /\ NoRelease # Upstream
    /\ Operations \subseteq AllOperations
    /\ Faults \subseteq AllFaults

VARIABLES
    \* SQL
    releases,    \* [Version -> release row]
    moduleRow,   \* whether the modules row exists
    latest,      \* modules.latest_version, 0 for none
    queue,       \* artifact_deletions: the paths waiting to be deleted
    tombstones,  \* deleted_releases: upstream versions not to index again
    used,        \* release_usage: versions used within ACTIVE_RELEASE_TTL
    inDoubt,     \* the job whose COMMIT has not been decided, or NoTx
    \* object storage
    objects,     \* the paths that hold an object
    stragglers,  \* deletes given up by their caller and not yet applied
    \* the module lock
    lock,
    \* the processes
    pc,
    job,         \* [op, ver, sha, force]: the request, or the item at hand
    scan,        \* versions a delete has still to check, or index to create
    batch,       \* paths a worker or a repair has still to handle
    fk,          \* whether the module ID the process read is still a row
    answer,      \* the outcome of the call being finished
    \* history
    committed,   \* objects that a release row has named since their upload
    usedAtLock   \* the used versions when a process took the lock

sqlVars     == <<releases, moduleRow, latest, queue, tombstones, used>>
storageVars == <<objects, stragglers>>
localVars   == <<job, scan, batch, fk, answer, usedAtLock>>
vars == <<sqlVars, inDoubt, storageVars, lock, pc, localVars, committed>>

-----------------------------------------------------------------------------
Path == Version \X Content
ReleaseRow == Content \cup {NoRelease, Upstream}

Job == [op : AllOperations \cup {"none"}, ver : Version \cup {0},
        sha : ReleaseRow, force : BOOLEAN]
NoJob == [op |-> "none", ver |-> 0, sha |-> NoRelease, force |-> FALSE]

\* The program counters at which a process has taken the module lock.
Locked ==
    {"getRelease", "verifyRegistered", "upload", "verifyUpload", "upsert",
     "create", "confirm", "removeUncommitted", "removeEmpty", "getModule",
     "listReleases", "checkActive", "delete", "indexNext", "indexCreate",
     "reread", "rewrite", "recheck", "remove", "complete", "unlock"}
Unlocked == {"idle", "lock", "next", "listObjects"}

Answers == {"none", "ok", "conflict", "removed", "failed", "unknown",
            "protected", "notFound"}

\* The path of a local row, as a set: rows of other kinds own no object.
\* (Mutant: upstream rows are taken to own one.)
AnyRowsPath(v, row) == IF row # NoRelease THEN {<<v, row>>} ELSE {}
LocalPath(v, row) == IF row \in Content THEN {<<v, row>>} ELSE {}
ObjectPath(p)     == <<job[p].ver, job[p].sha>>
IsArtifactReferenced(x) == releases[x[1]] = x[2]
Referenced == {x \in Path : IsArtifactReferenced(x)}
Present    == {v \in Version : releases[v] # NoRelease}

\* postgresLatestVersion: the greatest of the versions left, 0 for none.
Greatest(S) ==
    IF S = {} THEN 0 ELSE CHOOSE m \in S : \A n \in S : n <= m

\* latestVersionWithCandidate.  (Mutant: the last published version wins.)
LastPublished(v) == v
LatestWith(v)    == IF v > latest THEN v ELSE latest

\* The ON CONFLICT clause of createRelease.  (Mutant: always overwrite.)
AlwaysCreates(j) == TRUE
MayCreate(j)     == j.force \/ releases[j.ver] = NoRelease

\* The release row is the one that j publishes.  (Mutant: any row of the
\* version is taken for it.)
IsAnyRow(j)     == releases[j.ver] # NoRelease
IsRegistered(j) == releases[j.ver] = j.sha

\* sameReleaseArtifact, for the upstream row that a hydration has read.
\* (Mutant: any row of the version is taken for it.)
IsAnyRelease(j) == releases[j.ver] # NoRelease
SameArtifact(j) == releases[j.ver] = Upstream

\* A usage mark within the TTL.  (Mutant: only local releases have one.)
IsLocalActive(v)   == v \in used /\ releases[v] \in Content
IsReleaseActive(v) == v \in used

\* A tombstone.  (Mutant: looked for below the latest version only.)
IsOlderDeleted(v)   == v \in tombstones /\ v < latest
IsReleaseDeleted(v) == v \in tombstones

\* The advisory lock of the module.  (Mutant: it excludes nobody.)
LockIgnored    == TRUE
LockFree       == lock = NoProc
ReleaseLock(p) == lock' = IF lock = p THEN NoProc ELSE lock

Goto(p, label)    == pc' = [pc EXCEPT ![p] = label]
Finish(p, result) == /\ answer' = [answer EXCEPT ![p] = result]
                     /\ Goto(p, "unlock")

\* A write waits for the row locks of a transaction whose COMMIT is undecided.
RowsFree == inDoubt = NoTx

-----------------------------------------------------------------------------
Init ==
    /\ releases = [v \in Version |-> NoRelease]
    /\ moduleRow = FALSE
    /\ latest = 0
    /\ queue = {} /\ tombstones = {} /\ used = {}
    /\ inDoubt = NoTx
    /\ objects = {} /\ stragglers = {}
    /\ lock = NoProc
    /\ pc = [p \in Proc |-> "idle"]
    /\ job = [p \in Proc |-> NoJob]
    /\ scan = [p \in Proc |-> {}]
    /\ batch = [p \in Proc |-> {}]
    /\ fk = [p \in Proc |-> FALSE]
    /\ answer = [p \in Proc |-> "none"]
    /\ usedAtLock = [p \in Proc |-> {}]
    /\ committed = {}

-----------------------------------------------------------------------------
(* SQL transactions, as effects on the tables.  That what createRelease and *)
(* DeleteRelease select is still so when they write latest_version is owed  *)
(* to the module lock: without it, nothing is claimed of latest.            *)

\* createRelease: insert the row (or, for a management replacement, switch
\* it), cancel the queued deletion of its path, queue the superseded one.
CommitRelease(j) ==
    /\ MayCreate(j)
    /\ releases' = [releases EXCEPT ![j.ver] = j.sha]
    /\ latest' = LatestWith(j.ver)
    /\ queue' = (queue \cup LocalPath(j.ver, releases[j.ver]))
                    \ LocalPath(j.ver, j.sha)
    /\ committed' = committed \cup LocalPath(j.ver, j.sha)
    /\ UNCHANGED <<moduleRow, tombstones, used, fk>>

\* The modules row goes away, and every ID read from it dangles.
DropModuleRow ==
    /\ moduleRow' = FALSE
    /\ latest' = 0
    /\ fk' = [p \in Proc |-> FALSE]

DeleteReleaseTx(v) ==
    /\ releases[v] # NoRelease
    /\ releases' = [releases EXCEPT ![v] = NoRelease]
    /\ queue' = queue \cup LocalPath(v, releases[v])
    /\ tombstones' = IF releases[v] = Upstream THEN tombstones \cup {v}
                                               ELSE tombstones
    /\ IF Present = {v}
       THEN DropModuleRow
       ELSE /\ latest' = Greatest(Present \ {v})
            /\ UNCHANGED <<moduleRow, fk>>
    /\ UNCHANGED <<used, committed>>

DeleteModuleTx ==
    /\ moduleRow
    /\ releases' = [v \in Version |-> NoRelease]
    /\ queue' = queue \cup Referenced
    /\ tombstones' = {}
    /\ used' = {}
    /\ DropModuleRow
    /\ UNCHANGED committed

DeleteTx(j) == \/ j.op = "deleteRelease" /\ DeleteReleaseTx(j.ver)
               \/ j.op = "deleteModule" /\ DeleteModuleTx

DeleteModuleIfEmpty ==
    IF moduleRow /\ Present = {}
    THEN DropModuleRow /\ UNCHANGED <<releases, queue, tombstones, used>>
    ELSE UNCHANGED <<sqlVars, fk>>

\* An UpsertModule: the row exists, and p holds its ID.
UpsertRow(p) ==
    /\ moduleRow' = TRUE
    /\ fk' = [fk EXCEPT ![p] = TRUE]
    /\ UNCHANGED <<releases, latest, queue, tombstones, used>>

\* An object delete that succeeded (also when there is no object), one that
\* failed, with or without effect, and one that its caller gives up and the
\* storage applies later.  (Mutant: a missing object is an error.)
DeleteExisting(x) ==
    /\ x \in objects
    /\ objects' = objects \ {x}
    /\ committed' = committed \ {x}
    /\ UNCHANGED stragglers
DeleteObject(x) ==
    /\ objects' = objects \ {x}
    /\ committed' = committed \ {x}
    /\ UNCHANGED stragglers
DeleteObjectFails(x) ==
    \/ /\ "storageError" \in Faults
       /\ DeleteObject(x) \/ UNCHANGED <<objects, stragglers, committed>>
    \/ /\ "lateDelete" \in Faults
       /\ stragglers' = stragglers \cup {x}
       /\ UNCHANGED <<objects, committed>>
-----------------------------------------------------------------------------
(* Starting and finishing.                                                 *)

Retire(p) ==
    /\ Goto(p, "idle")
    /\ job' = [job EXCEPT ![p] = NoJob]
    /\ scan' = [scan EXCEPT ![p] = {}]
    /\ batch' = [batch EXCEPT ![p] = {}]
    /\ fk' = [fk EXCEPT ![p] = FALSE]
    /\ answer' = [answer EXCEPT ![p] = "none"]
    /\ usedAtLock' = [usedAtLock EXCEPT ![p] = {}]

Start(p, op, v, sha, force) ==
    /\ op \in Operations
    /\ pc[p] = "idle"
    /\ job' = [job EXCEPT ![p] =
                  [op |-> op, ver |-> v, sha |-> sha, force |-> force]]
    /\ UNCHANGED <<sqlVars, inDoubt, storageVars, lock, fk, answer,
                   usedAtLock, committed>>

\* publish, once the archive is validated, authorized and hashed; force is
\* input.Replace.
StartPublish(p) ==
    /\ \E v \in Version, c \in Content, replace \in BOOLEAN :
           Start(p, "publish", v, c, replace)
    /\ Goto(p, "lock")
    /\ UNCHANGED <<scan, batch>>

\* DeleteRelease(IfAllowed) and DeleteModule(IfAllowed); force skips policy.
StartDelete(p) ==
    /\ \E force \in BOOLEAN :
           \/ \E v \in Version : Start(p, "deleteRelease", v, NoRelease, force)
           \/ Start(p, "deleteModule", 0, NoRelease, force)
    /\ Goto(p, "lock")
    /\ UNCHANGED <<scan, batch>>

\* IndexUpstreamModule, for the versions that the upstream page lists.
StartIndex(p) ==
    /\ Start(p, "index", 0, Upstream, FALSE)
    /\ \E listed \in SUBSET Version : scan' = [scan EXCEPT ![p] = listed]
    /\ Goto(p, "lock")
    /\ UNCHANGED batch

\* restoreUpstreamRelease: GetRelease finds no row, and the upstream has one.
StartRestore(p) ==
    /\ \E v \in Version : /\ releases[v] = NoRelease
                          /\ Start(p, "restore", v, Upstream, FALSE)
    /\ Goto(p, "lock")
    /\ UNCHANGED <<scan, batch>>

\* hydrateUpstreamRelease: GetRelease finds an upstream row without a file
\* URI and fetches the release, before it takes the lock.
StartHydrate(p) ==
    /\ \E v \in Version : /\ releases[v] = Upstream
                          /\ Start(p, "hydrate", v, Upstream, TRUE)
    /\ Goto(p, "lock")
    /\ UNCHANGED <<scan, batch>>

\* A loop over items works on one of them.
TakeItem(p, v, sha) ==
    job' = [job EXCEPT ![p] =
               [op |-> job[p].op, ver |-> v, sha |-> sha, force |-> FALSE]]

\* ProcessArtifactDeletions: any due rows, up to the batch limit.
ListArtifactDeletions(p) ==
    /\ Start(p, "worker", 0, NoRelease, FALSE)
    /\ \E due \in SUBSET queue \ {{}} : batch' = [batch EXCEPT ![p] = due]
    /\ Goto(p, "next")
    /\ UNCHANGED scan

\* ReconcileArtifacts notes its start and lists the release rows: only an
\* object written before that start and named by no row can be repaired.
ListArtifactReleases(p) ==
    /\ Start(p, "reconcile", 0, NoRelease, FALSE)
    /\ batch' = [batch EXCEPT ![p] = objects \ Referenced]
    /\ Goto(p, "listObjects")
    /\ UNCHANGED scan

\* ... lists the objects (an Upload has dropped the rewritten ones) and reads
\* those of the rows, where a failure ends the call.
ListObjects(p) ==
    /\ pc[p] = "listObjects"
    /\ \/ /\ batch' = [batch EXCEPT ![p] = @ \cap objects]
          /\ Goto(p, "next")
          /\ UNCHANGED <<job, scan, fk, answer, usedAtLock>>
       \/ "storageError" \in Faults /\ Retire(p)
    /\ UNCHANGED <<sqlVars, inDoubt, storageVars, lock, committed>>

\* What is left to handle after x.  (Mutant: the loop does not advance.)
AllOver(p, x)   == batch[p]
Remaining(p, x) == batch[p] \ {x}

\* The loops of the worker and of the repair take their next path.
NextItem(p) ==
    /\ pc[p] = "next"
    /\ UNCHANGED <<sqlVars, inDoubt, storageVars, lock, committed>>
    /\ \/ /\ batch[p] = {}
          /\ Retire(p)
       \/ \E x \in batch[p] :
             /\ batch' = [batch EXCEPT ![p] = Remaining(p, x)]
             /\ TakeItem(p, x[1], x[2])
             /\ Goto(p, "lock")
             /\ UNCHANGED <<scan, fk, answer, usedAtLock>>

\* The first call of each operation under the lock.
EntryPoint(j) ==
    IF j.op = "publish" THEN "getRelease"
    ELSE IF j.op \in {"index", "restore"} THEN "upsert"
    ELSE IF j.op = "hydrate" THEN "reread"
    ELSE IF j.op \in {"worker", "reconcile"} THEN "recheck"
    ELSE IF j.force THEN "delete"
    ELSE IF j.op = "deleteRelease" THEN "getModule" ELSE "listReleases"

LockModule(p) ==
    /\ pc[p] = "lock"
    /\ LockFree
    /\ lock' = p
    /\ Goto(p, EntryPoint(job[p]))
    /\ usedAtLock' = [usedAtLock EXCEPT ![p] =
           IF job[p].op \in {"deleteRelease", "deleteModule"} THEN used ELSE {}]
    /\ UNCHANGED <<sqlVars, inDoubt, storageVars, job, scan, batch, fk, answer,
                   committed>>

\* The worker defers the row and goes on; every other caller gives up.
LockModuleFails(p) ==
    /\ "lockError" \in Faults
    /\ pc[p] = "lock"
    /\ IF job[p].op = "worker"
       THEN Goto(p, "next") /\ UNCHANGED localVars
       ELSE Retire(p)
    /\ UNCHANGED <<sqlVars, inDoubt, storageVars, lock, committed>>

\* The deferred releaseModuleLock.  A worker always takes its next item, a
\* repair only after a success.
Unlock(p) ==
    /\ pc[p] = "unlock"
    /\ ReleaseLock(p)
    /\ IF \/ job[p].op = "worker"
          \/ job[p].op = "reconcile" /\ answer[p] # "failed"
       THEN /\ Goto(p, "next")
            /\ answer' = [answer EXCEPT ![p] = "none"]
            /\ UNCHANGED <<job, scan, batch, fk, usedAtLock>>
       ELSE Retire(p)
    /\ UNCHANGED <<sqlVars, inDoubt, storageVars, committed>>

-----------------------------------------------------------------------------
(* publish                                                                 *)

\* An SQL read fails: the call is over.
SqlReadFails(p, result) == "sqlError" \in Faults /\ Finish(p, result)

\* GetRelease: the same bytes are already registered, other bytes are, or the
\* version is free or to be replaced.
GetRelease(p) ==
    LET existing == releases[job[p].ver] IN
    /\ pc[p] = "getRelease"
    /\ \/ existing = job[p].sha /\ Goto(p, "verifyRegistered") /\ UNCHANGED answer
       \/ /\ existing \notin {job[p].sha, NoRelease}
          /\ ~job[p].force
          /\ Finish(p, "conflict")
       \/ /\ existing # job[p].sha
          /\ existing = NoRelease \/ job[p].force
          /\ Goto(p, "upload") /\ UNCHANGED answer
       \/ SqlReadFails(p, "failed")
    /\ UNCHANGED <<sqlVars, inDoubt, storageVars, lock, job, scan, batch, fk,
                   usedAtLock, committed>>

\* verifyExistingArtifact of the registered object, then the audit event.
VerifyRegistered(p) ==
    /\ pc[p] = "verifyRegistered"
    /\ \/ ObjectPath(p) \in objects /\ Finish(p, "ok")
       \/ /\ \/ ObjectPath(p) \notin objects
             \/ {"storageError", "sqlError"} \cap Faults # {}
          /\ Finish(p, "failed")
    /\ UNCHANGED <<sqlVars, inDoubt, storageVars, lock, job, scan, batch, fk,
                   usedAtLock, committed>>

\* A repair that has not listed the objects yet will see x as rewritten.
WriteObject(x) ==
    /\ objects' = objects \cup {x}
    /\ batch' = [p \in Proc |-> IF pc[p] = "listObjects" THEN batch[p] \ {x}
                                                         ELSE batch[p]]

\* UploadReaderIfAbsent: create-only, so an object already there is kept.
Upload(p) ==
    /\ pc[p] = "upload"
    /\ \/ /\ ObjectPath(p) \notin objects
          /\ WriteObject(ObjectPath(p))
          /\ \/ Goto(p, "upsert") /\ UNCHANGED answer
             \/ "storageError" \in Faults /\ Finish(p, "failed")
       \/ /\ ObjectPath(p) \in objects
          /\ Goto(p, "verifyUpload")
          /\ UNCHANGED <<objects, batch, answer>>
       \/ /\ "storageError" \in Faults
          /\ Finish(p, "failed")
          /\ UNCHANGED <<objects, batch>>
    /\ UNCHANGED <<sqlVars, inDoubt, stragglers, lock, job, scan, fk,
                   usedAtLock, committed>>

VerifyUpload(p) ==
    /\ pc[p] = "verifyUpload"
    /\ \/ ObjectPath(p) \in objects /\ Goto(p, "upsert") /\ UNCHANGED answer
       \/ /\ ObjectPath(p) \notin objects \/ "storageError" \in Faults
          /\ Finish(p, "failed")
    /\ UNCHANGED <<sqlVars, inDoubt, storageVars, lock, job, scan, batch, fk,
                   usedAtLock, committed>>

\* UpsertModule.  A publish that fails here compensates; the others give up.
UpsertModule(p) ==
    /\ pc[p] = "upsert"
    /\ \/ /\ RowsFree
          /\ UpsertRow(p)
          /\ Goto(p, IF job[p].op = "publish" THEN "create"
                      ELSE IF job[p].op = "index" THEN "indexNext"
                      ELSE "indexCreate")
          /\ UNCHANGED answer
       \/ /\ "sqlError" \in Faults
          /\ (RowsFree /\ UpsertRow(p)) \/ UNCHANGED <<sqlVars, fk>>
          /\ IF job[p].op = "publish"
             THEN Goto(p, "removeUncommitted") /\ UNCHANGED answer
             ELSE Finish(p, "failed")
    /\ UNCHANGED <<inDoubt, storageVars, lock, job, scan, batch, usedAtLock,
                   committed>>

\* A create-only insert finds the row, or the module ID is no longer a row.
CreateRejected(p) ==
    \/ ~fk[p]
    \/ ~MayCreate(job[p])

\* CreateRelease or CreateReleaseIfAbsent.  After any error, reads included,
\* the handler asks whether the release was committed.
CreateRelease(p) ==
    /\ pc[p] = "create"
    /\ \/ /\ RowsFree /\ fk[p] /\ CommitRelease(job[p])
          /\ \/ Finish(p, "ok")
             \/ "sqlError" \in Faults /\ Goto(p, "confirm") /\ UNCHANGED answer
          /\ UNCHANGED inDoubt
       \/ /\ (RowsFree /\ CreateRejected(p)) \/ "sqlError" \in Faults
          /\ Goto(p, "confirm")
          /\ UNCHANGED <<sqlVars, fk, answer, committed, inDoubt>>
       \/ /\ "lateCommit" \in Faults
          /\ RowsFree /\ ~CreateRejected(p)
          /\ inDoubt' = job[p]
          /\ Goto(p, "confirm")
          /\ UNCHANGED <<sqlVars, fk, answer, committed>>
    /\ UNCHANGED <<storageVars, lock, job, scan, batch, usedAtLock>>

\* The GetRelease that decides between success, "unknown" and compensation.
ConfirmRelease(p) ==
    /\ pc[p] = "confirm"
    /\ \/ IsRegistered(job[p]) /\ Finish(p, "ok")
       \/ ~IsRegistered(job[p]) /\ Goto(p, "removeUncommitted") /\ UNCHANGED answer
       \/ SqlReadFails(p, "unknown")
    /\ UNCHANGED <<sqlVars, inDoubt, storageVars, lock, job, scan, batch, fk,
                   usedAtLock, committed>>

\* compensatePublishFailure: delete the object, then an empty modules row.
\* (Mutant: the result of the delete is ignored.)
RemoveUnchecked(p) ==
    /\ pc[p] = "removeUncommitted"
    /\ DeleteObject(ObjectPath(p)) \/ DeleteObjectFails(ObjectPath(p))
    /\ answer' = [answer EXCEPT ![p] = "removed"]
    /\ Goto(p, "removeEmpty")
    /\ UNCHANGED <<sqlVars, inDoubt, lock, job, scan, batch, fk, usedAtLock>>
RemoveUncommitted(p) ==
    /\ pc[p] = "removeUncommitted"
    /\ \/ DeleteObject(ObjectPath(p)) /\ answer' = [answer EXCEPT ![p] = "removed"]
       \/ DeleteObjectFails(ObjectPath(p)) /\ answer' = [answer EXCEPT ![p] = "failed"]
    /\ Goto(p, "removeEmpty")
    /\ UNCHANGED <<sqlVars, inDoubt, lock, job, scan, batch, fk, usedAtLock>>

RemoveEmptyModule(p) ==
    /\ pc[p] = "removeEmpty"
    /\ \/ RowsFree /\ DeleteModuleIfEmpty
       \/ "sqlError" \in Faults /\ UNCHANGED <<sqlVars, fk>>
    /\ Goto(p, "unlock")
    /\ UNCHANGED <<inDoubt, storageVars, lock, job, scan, batch, answer,
                   usedAtLock, committed>>

-----------------------------------------------------------------------------
(* DeleteRelease(IfAllowed) and DeleteModule(IfAllowed)                     *)

\* GetModule: the latest release is protected.
GetModule(p) ==
    /\ pc[p] = "getModule"
    /\ \/ ~moduleRow /\ Finish(p, "notFound") /\ UNCHANGED scan
       \/ moduleRow /\ latest = job[p].ver /\ Finish(p, "protected") /\ UNCHANGED scan
       \/ /\ moduleRow /\ latest # job[p].ver
          /\ scan' = [scan EXCEPT ![p] = {job[p].ver}]
          /\ Goto(p, "checkActive")
          /\ UNCHANGED answer
       \/ SqlReadFails(p, "failed") /\ UNCHANGED scan
    /\ UNCHANGED <<sqlVars, inDoubt, storageVars, lock, job, batch, fk,
                   usedAtLock, committed>>

\* ListReleases, the versions whose activity a module delete checks.
ListReleases(p) ==
    /\ pc[p] = "listReleases"
    /\ \/ /\ scan' = [scan EXCEPT ![p] = Present]
          /\ Goto(p, "checkActive") /\ UNCHANGED answer
       \/ SqlReadFails(p, "failed") /\ UNCHANGED scan
    /\ UNCHANGED <<sqlVars, inDoubt, storageVars, lock, job, batch, fk,
                   usedAtLock, committed>>

\* isReleaseActive, one version after the other.
CheckActive(p) ==
    /\ pc[p] = "checkActive"
    /\ \/ scan[p] = {} /\ Goto(p, "delete") /\ UNCHANGED <<scan, answer>>
       \/ \E v \in scan[p] :
             \/ IsReleaseActive(v) /\ Finish(p, "protected") /\ UNCHANGED scan
             \/ /\ ~IsReleaseActive(v)
                /\ scan' = [scan EXCEPT ![p] = @ \ {v}]
                /\ UNCHANGED <<pc, answer>>
       \/ scan[p] # {} /\ SqlReadFails(p, "failed") /\ UNCHANGED scan
    /\ UNCHANGED <<sqlVars, inDoubt, storageVars, lock, job, batch, fk,
                   usedAtLock, committed>>

NothingToDelete(j) ==
    \/ j.op = "deleteRelease" /\ releases[j.ver] = NoRelease
    \/ j.op = "deleteModule" /\ ~moduleRow

Delete(p) ==
    /\ pc[p] = "delete"
    /\ \/ /\ RowsFree /\ DeleteTx(job[p])
          /\ \/ Finish(p, "ok")
             \/ "sqlError" \in Faults /\ Finish(p, "failed")
          /\ UNCHANGED inDoubt
       \/ /\ \/ RowsFree /\ NothingToDelete(job[p]) /\ Finish(p, "notFound")
             \/ "sqlError" \in Faults /\ Finish(p, "failed")
          /\ UNCHANGED <<sqlVars, fk, committed, inDoubt>>
       \/ /\ "lateCommit" \in Faults
          /\ RowsFree /\ ~NothingToDelete(job[p])
          /\ inDoubt' = job[p]
          /\ Finish(p, "failed")
          /\ UNCHANGED <<sqlVars, fk, committed>>
    /\ UNCHANGED <<storageVars, lock, job, scan, batch, usedAtLock>>

-----------------------------------------------------------------------------
(* IndexUpstreamModule, one listed version after the other, and            *)
(* restoreUpstreamRelease, which does not ask for the tombstone            *)

IndexNext(p) ==
    /\ pc[p] = "indexNext"
    /\ \/ scan[p] = {} /\ Finish(p, "ok") /\ UNCHANGED <<scan, job>>
       \/ \E v \in scan[p] :
             /\ scan' = [scan EXCEPT ![p] = @ \ {v}]
             /\ IF IsReleaseDeleted(v)
                THEN UNCHANGED <<job, pc>>
                ELSE /\ TakeItem(p, v, Upstream)
                     /\ Goto(p, "indexCreate")
             /\ UNCHANGED answer
       \/ /\ scan[p] # {}
          /\ SqlReadFails(p, "failed")
          /\ UNCHANGED <<scan, job>>
    /\ UNCHANGED <<sqlVars, inDoubt, storageVars, lock, batch, fk, usedAtLock,
                   committed>>

Indexed(p) == IF job[p].op = "index"
              THEN Goto(p, "indexNext") /\ UNCHANGED answer
              ELSE Finish(p, "ok")

\* CreateReleaseIfAbsent: a version that exists is left alone.
IndexCreate(p) ==
    LET exists == releases[job[p].ver] # NoRelease IN
    /\ pc[p] = "indexCreate"
    /\ \/ /\ RowsFree /\ fk[p] /\ CommitRelease(job[p])
          /\ \/ Indexed(p)
             \/ "sqlError" \in Faults /\ Finish(p, "failed")
          /\ UNCHANGED inDoubt
       \/ /\ \/ RowsFree /\ fk[p] /\ exists /\ Indexed(p)
             \/ RowsFree /\ ~fk[p] /\ Finish(p, "failed")
             \/ "sqlError" \in Faults /\ Finish(p, "failed")
          /\ UNCHANGED <<sqlVars, fk, committed, inDoubt>>
       \/ /\ "lateCommit" \in Faults
          /\ RowsFree /\ fk[p] /\ ~exists
          /\ inDoubt' = job[p]
          /\ Finish(p, "failed")
          /\ UNCHANGED <<sqlVars, fk, committed>>
    /\ UNCHANGED <<storageVars, lock, job, scan, batch, usedAtLock>>

-----------------------------------------------------------------------------
(* hydrateUpstreamRelease                                                  *)

\* GetRelease under the lock: the snapshot is still current, or the row was
\* deleted, replaced, recreated or hydrated meanwhile.
RereadRelease(p) ==
    /\ pc[p] = "reread"
    /\ \/ /\ SameArtifact(job[p])
          /\ fk' = [fk EXCEPT ![p] = TRUE]
          /\ Goto(p, "rewrite")
          /\ UNCHANGED answer
       \/ Finish(p, "ok") /\ UNCHANGED fk
       \/ SqlReadFails(p, "failed") /\ UNCHANGED fk
    /\ UNCHANGED <<sqlVars, inDoubt, storageVars, lock, job, scan, batch,
                   usedAtLock, committed>>

\* CreateRelease, which overwrites; a failure is logged and the fetched
\* metadata served all the same.
RewriteRelease(p) ==
    /\ pc[p] = "rewrite"
    /\ Finish(p, "ok")
    /\ \/ /\ RowsFree /\ fk[p] /\ CommitRelease(job[p])
          /\ UNCHANGED inDoubt
       \/ /\ (RowsFree /\ ~fk[p]) \/ "sqlError" \in Faults
          /\ UNCHANGED <<sqlVars, fk, committed, inDoubt>>
       \/ /\ "lateCommit" \in Faults
          /\ RowsFree /\ fk[p]
          /\ inDoubt' = job[p]
          /\ UNCHANGED <<sqlVars, fk, committed>>
    /\ UNCHANGED <<storageVars, lock, job, scan, batch, usedAtLock>>

-----------------------------------------------------------------------------
(* processArtifactDeletion and repairOrphanArtifact                        *)

Queued(p) == job[p].op = "worker"

\* IsArtifactReferenced under the lock.
Recheck(p) ==
    LET referenced == IsArtifactReferenced(ObjectPath(p)) IN
    /\ pc[p] = "recheck"
    /\ \/ referenced /\ Queued(p) /\ Goto(p, "complete") /\ UNCHANGED answer
       \/ referenced /\ ~Queued(p) /\ Finish(p, "ok")
       \/ ~referenced /\ Goto(p, "remove") /\ UNCHANGED answer
       \/ SqlReadFails(p, "failed")
    /\ UNCHANGED <<sqlVars, inDoubt, storageVars, lock, job, scan, batch, fk,
                   usedAtLock, committed>>

RemoveSucceeds(p) ==
    /\ pc[p] = "remove"
    /\ DeleteObject(ObjectPath(p))
    /\ IF Queued(p) THEN Goto(p, "complete") /\ UNCHANGED answer
                    ELSE Finish(p, "ok")
    /\ UNCHANGED <<sqlVars, inDoubt, lock, job, scan, batch, fk, usedAtLock>>

\* A failure keeps the queue row, whose next attempt is deferred.
\* (Mutant: the row is completed all the same.)
RemoveFailsCompletes(p) ==
    /\ pc[p] = "remove"
    /\ DeleteObjectFails(ObjectPath(p))
    /\ IF Queued(p) THEN Goto(p, "complete") /\ UNCHANGED answer
                    ELSE Finish(p, "failed")
    /\ UNCHANGED <<sqlVars, inDoubt, lock, job, scan, batch, fk, usedAtLock>>
RemoveFails(p) ==
    /\ pc[p] = "remove"
    /\ DeleteObjectFails(ObjectPath(p))
    /\ Finish(p, "failed")
    /\ UNCHANGED <<sqlVars, inDoubt, lock, job, scan, batch, fk, usedAtLock>>

CompleteRow(p) ==
    /\ queue' = queue \ {ObjectPath(p)}
    /\ UNCHANGED <<releases, moduleRow, latest, tombstones, used>>

CompleteArtifactDeletion(p) ==
    /\ pc[p] = "complete"
    /\ \/ RowsFree /\ CompleteRow(p) /\ Finish(p, "ok")
       \/ /\ "sqlError" \in Faults
          /\ (RowsFree /\ CompleteRow(p)) \/ UNCHANGED sqlVars
          /\ Finish(p, "failed")
    /\ UNCHANGED <<inDoubt, storageVars, lock, job, scan, batch, fk,
                   usedAtLock, committed>>

-----------------------------------------------------------------------------
(* What happens around the handlers                                        *)

\* A download marks the version as used, without the module lock.
MarkReleaseUsed(v) ==
    /\ v \notin used
    /\ used' = used \cup {v}
    /\ UNCHANGED <<releases, moduleRow, latest, queue, tombstones, inDoubt,
                   storageVars, lock, pc, localVars, committed>>

\* PurgeDeletedReleases drops a tombstone at the end of its retention.
PurgeTombstone(v) ==
    /\ v \in tombstones
    /\ tombstones' = tombstones \ {v}
    /\ UNCHANGED <<releases, moduleRow, latest, queue, used, inDoubt,
                   storageVars, lock, pc, localVars, committed>>

\* A replica stops: its connections close, and PostgreSQL drops its locks.
Crash(p) ==
    /\ "crash" \in Faults
    /\ pc[p] # "idle"
    /\ Retire(p)
    /\ ReleaseLock(p)
    /\ UNCHANGED <<sqlVars, inDoubt, storageVars, committed>>

\* The connection that holds the advisory lock ends; its process goes on.
LoseLock ==
    /\ "lockLoss" \in Faults
    /\ lock # NoProc
    /\ lock' = NoProc
    /\ UNCHANGED <<sqlVars, inDoubt, storageVars, pc, localVars, committed>>

\* PostgreSQL decides a transaction whose client has given up.
DecideCommit ==
    /\ inDoubt # NoTx
    /\ inDoubt' = NoTx
    /\ \/ inDoubt.op \in CreateOperations /\ CommitRelease(inDoubt)
       \/ DeleteTx(inDoubt)
       \/ UNCHANGED <<sqlVars, fk, committed>>
    /\ UNCHANGED <<storageVars, lock, pc, job, scan, batch, answer, usedAtLock>>

\* The storage applies a delete whose client has given up.
StragglerLands ==
    \E x \in stragglers :
        /\ stragglers' = stragglers \ {x}
        /\ objects' = objects \ {x}
        /\ committed' = committed \ {x}
        /\ UNCHANGED <<sqlVars, inDoubt, lock, pc, localVars>>

-----------------------------------------------------------------------------
PublishStep(p) ==
    \/ StartPublish(p) \/ GetRelease(p) \/ VerifyRegistered(p) \/ Upload(p)
    \/ VerifyUpload(p) \/ UpsertModule(p) \/ CreateRelease(p)
    \/ ConfirmRelease(p) \/ RemoveUncommitted(p) \/ RemoveEmptyModule(p)

DeleteStep(p) ==
    \/ StartDelete(p) \/ GetModule(p) \/ ListReleases(p) \/ CheckActive(p)
    \/ Delete(p)

IndexStep(p) ==
    \/ StartIndex(p) \/ StartRestore(p) \/ StartHydrate(p) \/ IndexNext(p)
    \/ IndexCreate(p) \/ RereadRelease(p) \/ RewriteRelease(p)

CleanStep(p) ==
    \/ ListArtifactDeletions(p) \/ ListArtifactReleases(p) \/ ListObjects(p)
    \/ NextItem(p) \/ Recheck(p) \/ RemoveSucceeds(p) \/ RemoveFails(p)
    \/ CompleteArtifactDeletion(p)

ProcessStep(p) ==
    \/ LockModule(p) \/ LockModuleFails(p) \/ Unlock(p) \/ Crash(p)
    \/ PublishStep(p) \/ DeleteStep(p) \/ IndexStep(p) \/ CleanStep(p)

Environment ==
    \/ \E v \in Version : MarkReleaseUsed(v) \/ PurgeTombstone(v)
    \/ LoseLock
    \/ DecideCommit
    \/ StragglerLands

Next == (\E p \in Proc : ProcessStep(p)) \/ Environment

Spec == Init /\ [][Next]_vars

-----------------------------------------------------------------------------
(* Fairness.  A running handler goes on; pg_advisory_lock serves its       *)
(* waiters in turn; the cleanup job runs every minute and lists due rows   *)
(* oldest attempt first, so that every row is listed again and again; and  *)
(* the storage and the database do not fail for ever.  Nobody has to start *)
(* a request, and no failure has to happen.                                *)

HandlerStep(p) ==
    \/ GetRelease(p) \/ VerifyRegistered(p) \/ Upload(p) \/ VerifyUpload(p)
    \/ UpsertModule(p) \/ CreateRelease(p) \/ ConfirmRelease(p)
    \/ RemoveUncommitted(p) \/ RemoveEmptyModule(p) \/ GetModule(p)
    \/ ListReleases(p) \/ CheckActive(p) \/ Delete(p) \/ IndexNext(p)
    \/ IndexCreate(p) \/ RereadRelease(p) \/ RewriteRelease(p)
    \/ ListObjects(p) \/ NextItem(p) \/ Recheck(p) \/ RemoveSucceeds(p)
    \/ RemoveFails(p) \/ CompleteArtifactDeletion(p) \/ Unlock(p)

\* The worker lists x, and each of its calls for x succeeds at some attempt.
Lists(x) == \E p \in Proc : ListArtifactDeletions(p) /\ x \in batch'[p]
Cleans(x, Call(_)) ==
    \E p \in Proc : /\ Queued(p) /\ ObjectPath(p) = x
                    /\ Call(p) /\ answer'[p] # "failed"

Fairness ==
    /\ \A p \in Proc : WF_vars(HandlerStep(p)) /\ SF_vars(LockModule(p))
    /\ \A x \in Path : /\ SF_vars(Lists(x))
                       /\ SF_vars(Cleans(x, Recheck))
                       /\ SF_vars(Cleans(x, RemoveSucceeds))
                       /\ SF_vars(Cleans(x, CompleteArtifactDeletion))

FairSpec == Spec /\ Fairness

-----------------------------------------------------------------------------
(* Properties                                                              *)

\* Every variable keeps its type: rows, paths and program counters are the
\* ones the handlers of module_service.go and postgres.go produce.
TypeOK ==
    /\ releases \in [Version -> ReleaseRow]
    /\ moduleRow \in BOOLEAN
    /\ latest \in Version \cup {0}
    /\ queue \subseteq Path
    /\ tombstones \subseteq Version /\ used \subseteq Version
    /\ inDoubt \in Job \cup {NoTx}
    /\ objects \subseteq Path /\ stragglers \subseteq Path
    /\ lock \in Proc \cup {NoProc}
    /\ pc \in [Proc -> Locked \cup Unlocked]
    /\ job \in [Proc -> Job]
    /\ scan \in [Proc -> SUBSET Version]
    /\ batch \in [Proc -> SUBSET Path]
    /\ fk \in [Proc -> BOOLEAN]
    /\ answer \in [Proc -> Answers]
    /\ committed \subseteq Path
    /\ usedAtLock \in [Proc -> SUBSET Version]

\* SQL never keeps a local release row whose object is gone: neither the
\* deletion worker, nor a repair, nor the compensation of a failed publish
\* removes an object that a committed row names (publish,
\* processArtifactDeletion, repairOrphanArtifact).
NoDanglingRelease == Referenced \subseteq objects

\* An object whose release was deleted or superseded is never forgotten: until
\* it is deleted it stays in artifact_deletions, whatever fails in between and
\* however often its path is published again (createRelease, DeleteRelease,
\* DeleteModule, CompleteArtifactDeletion).
SupersededArtifactStaysQueued ==
    (committed \cap objects) \ Referenced \subseteq queue

\* A publisher told "created" still finds its bytes registered and stored when
\* its lock is released, also when it learnt the outcome of a failed COMMIT
\* from a second read (publish).
AcknowledgedReleaseIsStored ==
    \A p \in Proc :
        pc[p] = "unlock" /\ job[p].op = "publish" /\ answer[p] = "ok"
            => ObjectPath(p) \in Referenced \cap objects

\* A publish that failed and was compensated leaves neither its object nor its
\* release row behind (compensatePublishFailure).
CompensationLeavesNothing ==
    \A p \in Proc :
        pc[p] = "unlock" /\ job[p].op = "publish" /\ answer[p] = "removed"
            => ObjectPath(p) \notin Referenced \cup objects

\* module_service.go:613 and 334: although deletes are applied late, a superseded
\* object stays queued, and a compensation leaves nothing nor takes away what a
\* row refers to.
NothingForgottenThoughLate == SupersededArtifactStaysQueued /\ CompensationLeavesNothing

\* As long as the module lock holds, modules.latest_version is the greatest
\* version that has a row, through any order of publishes, replacements, deletes and indexing (finishReleaseMutation,
\* DeleteRelease, DeleteModuleIfEmpty), and rows exist only below a modules row.
LatestIsGreatest ==
    /\ latest = Greatest(Present)
    /\ Present # {} => moduleRow

\* Two operations never work under the module lock at once (LOCK-1).
OneWriter ==
    \A p, q \in Proc : pc[p] \in Locked /\ pc[q] \in Locked => p = q

BytesChange(v) ==
    releases[v] \in Content /\ releases'[v] \notin {releases[v], NoRelease}
Replaces(v) ==
    \/ \E p \in Proc : /\ pc[p] = "create" /\ pc'[p] # "create"
                        /\ job[p].ver = v /\ job[p].force
    \/ inDoubt # NoTx /\ inDoubt.op = "publish" /\ inDoubt.force
BytesKept == \A v \in Version : BytesChange(v) => Replaces(v)

\* The bytes of a registered local release change only by a management
\* replacement; a publish retry, a racing publisher, upstream indexing and a
\* restore keep them even when the module lock fails to serialize them
\* (CreateReleaseIfAbsent).  A hydration overwrites, so it keeps them as long
\* as the lock holds (hydrateUpstreamRelease).
OnlyReplacementChangesBytes == [][BytesKept]_vars

\* The hydration of an upstream release, fetched before the lock was taken,
\* never brings back a row that was deleted and never undoes a replacement
\* (hydrateUpstreamRelease, sameReleaseArtifact).
HydrationKeepsRows ==
    [][\A p \in Proc : pc[p] = "rewrite" /\ pc'[p] = "unlock"
                          => releases' = releases]_vars

UnforcedDelete(p) ==
    pc[p] = "delete" /\ pc'[p] = "unlock" /\ ~job[p].force

\* A delete without override removes neither the latest release of the module it
\* finds, whatever is published between its check and its transaction, nor one
\* that was in use when it took the module lock (DeleteReleaseIfAllowed,
\* DeleteModuleIfAllowed).
UnforcedDeleteSparesLatestAndUsed ==
    [][\A p \in Proc : UnforcedDelete(p) =>
          /\ \A v \in usedAtLock[p] : releases'[v] = releases[v]
          /\ job[p].op = "deleteRelease" /\ releases' # releases => job[p].ver # Greatest(Present)]_vars

Restores(v) == \E p \in Proc : /\ pc[p] = "indexCreate" /\ pc'[p] = "unlock"
                               /\ job[p].op = "restore" /\ job[p].ver = v

\* Upstream indexing never brings back a version that was deleted here, until
\* the retention of its tombstone ends or a reader asks for that very release
\* (IndexUpstreamModule, DeleteRelease, restoreUpstreamRelease).
DeletedUpstreamStaysDeleted ==
    [][\A v \in tombstones :
          releases'[v] = Upstream => releases[v] = Upstream \/ Restores(v)]_vars

\* The handlers implement the abstract catalog: every step of a publish, a
\* delete, an index, a cleanup or a failure is one atomic change of the rows
\* over stored bytes, or invisible (module_service.go, reconcile.go).
Catalog == INSTANCE ReleaseCatalog WITH catalog <- releases, stored <- objects
CatalogSpec == Catalog!Spec

\* Every queued deletion is eventually carried out or canceled, although the
\* storage and the database fail from time to time (ProcessArtifactDeletions).
QueueDrains == \A x \in Path : x \in queue ~> x \notin queue

\* Every request and job gets the module lock and finishes: no handler keeps
\* the lock, or its place in a loop, for ever (LockModule, releaseModuleLock).
EveryCallFinishes == \A p \in Proc : pc[p] # "idle" ~> pc[p] = "idle"

-----------------------------------------------------------------------------
(* The inductive invariants behind the theorems of ArtifactLifecycleProofs *)

PublishSteps == {"getRelease", "verifyRegistered", "upload", "verifyUpload",
                 "create", "confirm", "removeUncommitted", "removeEmpty"}
DeleteSteps  == {"getModule", "listReleases", "checkActive", "delete"}
CleanSteps   == {"recheck", "remove", "complete"}

\* The job that may be committed later is a whole request.
JobNamesRelease(j) ==
    /\ j.op = "publish" => j.ver \in Version /\ j.sha \in Content
    /\ j.op = "deleteRelease" => j.ver \in Version
    /\ j.op \in {"index", "restore"} => j.sha = Upstream /\ ~j.force
    /\ j.op \in {"restore", "hydrate"} => j.ver \in Version
    /\ j.op = "hydrate" => j.sha = Upstream
    /\ j.op \in Operations \cup {"none"}

\* A process is at a step of its own operation, and its job has the fields
\* that the step reads.
JobFits(p) ==
    /\ JobNamesRelease(job[p])
    /\ pc[p] = "idle" => job[p] = NoJob /\ answer[p] = "none"
    /\ pc[p] = "lock" => job[p].op # "none"
    /\ pc[p] \in PublishSteps => job[p].op = "publish"
    /\ pc[p] = "upsert" => job[p].op \in {"publish", "index", "restore"}
    /\ pc[p] = "indexNext" => job[p].op = "index"
    /\ pc[p] = "indexCreate" => /\ job[p].op \in {"index", "restore"}
                                /\ job[p].ver \in Version
    /\ pc[p] \in {"reread", "rewrite"} => job[p].op = "hydrate"
    /\ pc[p] \in DeleteSteps => job[p].op \in {"deleteRelease", "deleteModule"}
    /\ pc[p] = "getModule" => job[p].op = "deleteRelease"
    /\ pc[p] \in CleanSteps \cup {"next", "listObjects"}
           => job[p].op \in {"worker", "reconcile"}
    /\ pc[p] = "complete" => Queued(p)
    /\ pc[p] \in CleanSteps \cup {"lock"} /\ job[p].op \in {"worker", "reconcile"}
           => ObjectPath(p) \in Path

\* A transaction in doubt names the rows that it may still change.
InDoubtFits ==
    inDoubt # NoTx => /\ JobNamesRelease(inDoubt)
                      /\ inDoubt.op = "index" => inDoubt.ver \in Version

TypeInv == TypeOK /\ (\A p \in Proc : JobFits(p)) /\ InDoubtFits

\* The lock is held by the process that works under it.
LockInv == \A p \in Proc : pc[p] \in Locked <=> lock = p

\* An object delete that failed has failed for good.
DeletesAreFinal == "lateDelete" \notin Faults

\* What the calls made so far have established for the calls to come.  That an
\* object is still there is only known when no delete is applied late.
StepInv(p) ==
    /\ /\ job[p].op = "publish"
       /\ pc[p] \in {"upload", "verifyUpload", "upsert", "create", "removeUncommitted"}
       => ObjectPath(p) \notin Referenced
    /\ DeletesAreFinal /\ job[p].op = "publish" /\ pc[p] \in {"upsert", "create"}
           => ObjectPath(p) \in objects
    /\ pc[p] = "rewrite" => releases[job[p].ver] = Upstream
    /\ pc[p] = "verifyRegistered" => ObjectPath(p) \in Referenced
    /\ pc[p] = "remove" => ObjectPath(p) \notin Referenced
    /\ pc[p] = "complete" => ObjectPath(p) \notin committed \ Referenced
    /\ job[p].op = "publish" /\ pc[p] \in {"removeEmpty", "unlock"} /\ answer[p] = "removed"
           => ObjectPath(p) \notin Referenced \cup objects
    /\ job[p].op = "publish" /\ pc[p] \in {"removeEmpty", "unlock"} /\ answer[p] = "ok"
           => /\ pc[p] = "unlock" /\ ObjectPath(p) \in Referenced
              /\ DeletesAreFinal => ObjectPath(p) \in objects

\* What a row has named since its upload is named still, or queued.
CommittedIsQueued == committed \subseteq Referenced \cup queue

ArtifactInv ==
    /\ inDoubt = NoTx
    /\ LockInv
    /\ \A p \in Proc : StepInv(p)
    /\ CommittedIsQueued
    /\ DeletesAreFinal => stragglers = {} /\ NoDanglingRelease

\* What every transaction leaves behind: latest_version is right, a module ID
\* that a process holds is a row, and so is the one that a COMMIT in doubt names.
RowsInv ==
    /\ LatestIsGreatest
    /\ \A p \in Proc : fk[p] => moduleRow
    /\ inDoubt # NoTx /\ inDoubt.op \in CreateOperations => moduleRow

\* What a check under the lock has found holds until the transaction it guards:
\* the policy of a delete, of which scan is what is left to check, and the
\* tombstone of a version to index.
CheckHolds(p) ==
    /\ pc[p] \in DeleteSteps => usedAtLock[p] \subseteq used
    /\ pc[p] \in {"getModule", "listReleases", "checkActive"} => ~job[p].force
    /\ pc[p] = "listReleases" => job[p].op = "deleteModule"
    /\ pc[p] \in {"checkActive", "delete"} /\ ~job[p].force =>
           LET unchecked == IF pc[p] = "delete" THEN {} ELSE scan[p] IN
           IF job[p].op = "deleteModule"
           THEN Present \cap usedAtLock[p] \subseteq unchecked
           ELSE job[p].ver # latest /\ {job[p].ver} \cap usedAtLock[p] \subseteq unchecked
    /\ pc[p] = "indexCreate" /\ job[p].op = "index" => job[p].ver \notin tombstones

CheckInv == \A p \in Proc : CheckHolds(p)
=============================================================================
