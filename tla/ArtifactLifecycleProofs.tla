---------------------- MODULE ArtifactLifecycleProofs ----------------------
(***************************************************************************)
(* Theorems about ArtifactLifecycle, for every set of processes, versions  *)
(* and archives:                                                           *)
(*                                                                         *)
(*   TypeCorrect, BytesAreImmutable (without hydrations)                   *)
(*       under every fault;                                                *)
(*   LatestIsRight, NoArtifactIsForgotten, CompensationIsComplete,         *)
(*   MutualExclusion, HydrationIsHarmless, UnforcedDeletesAreSafe,         *)
(*   TombstonesStand                                                       *)
(*       under every fault but a lost lock and a COMMIT applied late;      *)
(*   NoReleaseDangles, PublishOutcomeIsTrue, HandlersImplementCatalog      *)
(*       when no object delete lands late either.                          *)
(***************************************************************************)
EXTENDS ArtifactLifecycle, FiniteSetTheorems, WellFoundedInduction, TLAPS

USE DEF Goto, Finish, sqlVars, storageVars, localVars

-----------------------------------------------------------------------------
(* Type correctness                                                        *)

\* A finite nonempty set of versions has a greatest element, and
\* postgresLatestVersion returns it.
LEMMA GreatestIsMember ==
    ASSUME NEW S, S \subseteq Version, S # {}
    PROVE  Greatest(S) \in S /\ \A n \in S : n <= Greatest(S)
<1> DEFINE Up(m) == {n \in S : m <= n}
<1> DEFINE Ups == {Up(m) : m \in S}
<1>1. S \subseteq Nat /\ IsFiniteSet(S)
    BY ConstantsAssumption, FS_Subset
<1>2. IsWellFoundedOn(StrictSubsetOrdering(S), FiniteSubsetsOf(S))
    BY FS_StrictSubsetOrderingWellFounded
<1>3. Ups \subseteq FiniteSubsetsOf(S)
    <2>1. \A m \in S : Up(m) \subseteq S /\ IsFiniteSet(Up(m))
        BY <1>1, FS_Subset
    <2> QED BY <2>1 DEF FiniteSubsetsOf
<1>4. Ups # {}
    OBVIOUS
<1> HIDE DEF Ups
<1>5. PICK U \in Ups : \A W \in Ups : ~ (<<W, U>> \in StrictSubsetOrdering(S))
    BY <1>2, <1>3, <1>4, WFMin
<1>6. PICK m \in S : U = Up(m)
    BY <1>5 DEF Ups
<1>7. \A n \in S : n <= m
    <2> SUFFICES ASSUME NEW n \in S, ~(n <= m) PROVE FALSE
        OBVIOUS
    <2>1. m < n /\ \A k \in S : k \in Nat
        BY <1>1
    <2>2. Up(n) \subseteq Up(m)
        <3> SUFFICES ASSUME NEW k \in S, n <= k PROVE m <= k
            OBVIOUS
        <3> QED BY <2>1
    <2>3. m \in Up(m) /\ m \notin Up(n)
        BY <2>1
    <2>4. Up(n) \in Ups /\ <<Up(n), U>> \in StrictSubsetOrdering(S)
        BY <1>6, <2>2, <2>3 DEF StrictSubsetOrdering, Ups
    <2> QED BY <1>5, <2>4
<1> QED
    BY <1>7 DEF Greatest

\* The types of the tables and of what goes with them in a transaction.
TablesOK ==
    /\ releases \in [Version -> ReleaseRow]
    /\ moduleRow \in BOOLEAN
    /\ latest \in Version \cup {0}
    /\ queue \subseteq Path
    /\ tombstones \subseteq Version /\ used \subseteq Version
    /\ fk \in [Proc -> BOOLEAN]
    /\ committed \subseteq Path

\* createRelease keeps the types of the tables.
LEMMA CommitReleaseTypes ==
    ASSUME TypeOK, NEW j \in Job, CommitRelease(j),
           j.ver \in Version, j.sha \in Content \cup {Upstream}
    PROVE  TablesOK'
BY ConstantsAssumption
   DEF TypeOK, TablesOK, CommitRelease, LatestWith, LocalPath, ReleaseRow, Path

\* DeleteRelease and DeleteModule keep the types of the tables.
LEMMA DeleteTypes ==
    ASSUME TypeOK, NEW j \in Job, DeleteTx(j),
           j.op = "deleteRelease" => j.ver \in Version
    PROVE  TablesOK'
<1>1. CASE DeleteReleaseTx(j.ver) /\ j.ver \in Version
    <2>1. Present \ {j.ver} \subseteq Version
        BY DEF Present
    <2>2. Present # {j.ver} => Present \ {j.ver} # {}
        BY <1>1 DEF DeleteReleaseTx, Present
    <2>3. latest' \in Version \cup {0}
        <3>1. CASE Present = {j.ver}
            BY <1>1, <3>1 DEF DeleteReleaseTx, DropModuleRow
        <3>2. CASE Present # {j.ver}
            <4>1. Greatest(Present \ {j.ver}) \in Version
                BY <2>1, <2>2, <3>2, GreatestIsMember
            <4> QED BY <1>1, <3>2, <4>1 DEF DeleteReleaseTx
        <3> QED BY <3>1, <3>2
    <2>4. moduleRow' \in BOOLEAN /\ fk' \in [Proc -> BOOLEAN]
        BY <1>1 DEF TypeOK, DeleteReleaseTx, DropModuleRow
    <2>5. queue' \subseteq Path
        BY <1>1 DEF TypeOK, DeleteReleaseTx, LocalPath, Path
    <2> QED
        BY <1>1, <2>3, <2>4, <2>5
           DEF TypeOK, TablesOK, DeleteReleaseTx, ReleaseRow
<1>2. CASE DeleteModuleTx
    BY <1>2 DEF TypeOK, TablesOK, DeleteModuleTx, DropModuleRow, Referenced,
                Path, ReleaseRow
<1> QED BY <1>1, <1>2 DEF DeleteTx

\* What a step of p shows of the other processes.
Frame(p) ==
    \A q \in Proc \ {p} :
        pc'[q] = pc[q] /\ job'[q] = job[q] /\ answer'[q] = answer[q]

TypesKept(p) == TypeOK' /\ JobFits(p)' /\ InDoubtFits' /\ Frame(p)

LEMMA TypesKeptSuffices ==
    ASSUME TypeInv, NEW p \in Proc, TypesKept(p)
    PROVE  TypeInv'
<1> SUFFICES ASSUME NEW q \in Proc, q # p PROVE JobFits(q)'
    BY DEF TypesKept, TypeInv
<1> QED BY DEF TypesKept, Frame, TypeInv, JobFits, ObjectPath, Queued

\* Ending a call leaves an idle process with no job.
LEMMA RetireTypes ==
    ASSUME TypeOK, NEW p \in Proc, Retire(p)
    PROVE  /\ pc' \in [Proc -> Locked \cup Unlocked]
           /\ job' \in [Proc -> Job]
           /\ scan' \in [Proc -> SUBSET Version]
           /\ batch' \in [Proc -> SUBSET Path]
           /\ fk' \in [Proc -> BOOLEAN]
           /\ answer' \in [Proc -> Answers]
           /\ usedAtLock' \in [Proc -> SUBSET Version]
           /\ JobFits(p)'
           /\ Frame(p)
<1>1. job' \in [Proc -> Job] /\ pc'[p] = "idle" /\ job'[p] = NoJob /\ answer'[p] = "none"
    BY DEF TypeOK, Retire, NoJob, Job, AllOperations, ReleaseRow
<1>2. JobFits(p)'
    BY <1>1 DEF JobFits, JobNamesRelease, NoJob, PublishSteps, DeleteSteps, CleanSteps
<1>3. Frame(p)
    BY DEF TypeOK, Retire, Frame
<1> QED
    BY <1>1, <1>2, <1>3 DEF TypeOK, Retire, Locked, Unlocked, Answers

\* The requests and jobs that start.
LEMMA StartTypes ==
    ASSUME TypeInv, NEW p \in Proc,
           \/ StartPublish(p) \/ StartDelete(p) \/ StartIndex(p)
           \/ StartRestore(p) \/ StartHydrate(p)
           \/ ListArtifactDeletions(p) \/ ListArtifactReleases(p)
    PROVE  TypesKept(p)
<1>1. job' \in [Proc -> Job] /\ pc' \in [Proc -> Locked \cup Unlocked]
    <2>1. \A op \in AllOperations, v \in Version \cup {0}, c \in ReleaseRow,
             force \in BOOLEAN :
             Start(p, op, v, c, force) => job' \in [Proc -> Job]
        BY DEF TypeInv, TypeOK, Start, Job
    <2>2. job' \in [Proc -> Job]
        BY <2>1 DEF StartPublish, StartDelete, StartIndex, StartRestore, StartHydrate, ListArtifactDeletions,
                    ListArtifactReleases, AllOperations, ReleaseRow
    <2>3. pc' \in [Proc -> Locked \cup Unlocked]
        BY DEF TypeInv, TypeOK, StartPublish, StartDelete, StartIndex, StartRestore, StartHydrate, Locked,
               Unlocked, ListArtifactDeletions, ListArtifactReleases
    <2> QED BY <2>2, <2>3
<1>2. JobFits(p)'
    <2>1. JobNamesRelease(job[p])' /\ pc'[p] \in {"lock", "next", "listObjects"}
        BY DEF TypeInv, TypeOK, StartPublish, StartDelete, StartIndex, StartRestore, StartHydrate,
               ListArtifactDeletions, ListArtifactReleases, Start, JobNamesRelease
    <2>2. pc'[p] \in {"next", "listObjects"} => job'[p].op \in {"worker", "reconcile"}
        BY DEF TypeInv, TypeOK, StartPublish, StartDelete, StartIndex, StartRestore, StartHydrate,
               ListArtifactDeletions, ListArtifactReleases, Start
    <2>3. pc'[p] = "lock" => job'[p].op \notin {"worker", "reconcile", "none"}
        BY DEF TypeInv, TypeOK, StartPublish, StartDelete, StartIndex, StartRestore, StartHydrate,
               ListArtifactDeletions, ListArtifactReleases, Start
    <2> QED
        BY <2>1, <2>2, <2>3 DEF JobFits, PublishSteps, DeleteSteps, CleanSteps
<1>3. Frame(p) /\ InDoubtFits'
    BY DEF TypeInv, TypeOK, StartPublish, StartDelete, StartIndex, StartRestore, StartHydrate, InDoubtFits,
           ListArtifactDeletions, ListArtifactReleases, Start, Frame
<1>4. scan' \in [Proc -> SUBSET Version] /\ batch' \in [Proc -> SUBSET Path]
    <2>1. CASE StartPublish(p) \/ StartDelete(p)
        BY <2>1 DEF TypeInv, TypeOK, StartPublish, StartDelete
    <2>2. CASE StartIndex(p) \/ StartRestore(p) \/ StartHydrate(p)
        BY <2>2 DEF TypeInv, TypeOK, StartIndex, StartRestore, StartHydrate
    <2>3. CASE ListArtifactDeletions(p)
        BY <2>3 DEF TypeInv, TypeOK, ListArtifactDeletions
    <2>4. CASE ListArtifactReleases(p)
        BY <2>4 DEF TypeInv, TypeOK, ListArtifactReleases
    <2> QED BY <2>1, <2>2, <2>3, <2>4
<1>5. UNCHANGED <<sqlVars, inDoubt, storageVars, lock, fk, answer, usedAtLock,
                  committed>>
    BY DEF StartPublish, StartDelete, StartIndex, StartRestore, StartHydrate, ListArtifactDeletions,
           ListArtifactReleases, Start
<1>6. TypeOK'
    BY <1>1, <1>4, <1>5 DEF TypeInv, TypeOK
<1> QED
    BY <1>2, <1>3, <1>6 DEF TypesKept

\* Taking and releasing the lock, the loops over paths, and crashes.
LEMMA LoopTypes ==
    ASSUME TypeInv, NEW p \in Proc,
           \/ ListObjects(p) \/ NextItem(p) \/ LockModule(p)
           \/ LockModuleFails(p) \/ Unlock(p) \/ Crash(p)
    PROVE  TypesKept(p)
<1> USE DEF TypeInv, TypeOK
<1>1. TypeOK /\ JobFits(p) /\ InDoubtFits /\ job[p] \in Job
    OBVIOUS
<1>2. InDoubtFits'
    BY <1>1 DEF InDoubtFits, ListObjects, NextItem, LockModule, LockModuleFails,
                Unlock, Crash
<1>3. CASE ListObjects(p) /\ ~Retire(p)
    BY <1>1, <1>2, <1>3 DEF ListObjects, TypesKept, Frame, JobFits, Queued, ObjectPath,
        PublishSteps, DeleteSteps, CleanSteps, Locked, Unlocked
<1>4. CASE Retire(p) /\ UNCHANGED <<sqlVars, inDoubt, storageVars, committed>>
                     /\ lock' \in {lock, NoProc}
    BY <1>1, <1>2, <1>4, RetireTypes DEF TypesKept
<1>5. CASE NextItem(p) /\ ~Retire(p)
    <2>1. PICK x \in batch[p] : /\ batch' = [batch EXCEPT ![p] = Remaining(p, x)]
                                /\ TakeItem(p, x[1], x[2])
                                /\ Goto(p, "lock")
                                /\ UNCHANGED <<scan, fk, answer, usedAtLock>>
        BY <1>5 DEF NextItem
    <2>2. x \in Path /\ job[p].op \in {"worker", "reconcile"}
        BY <1>1, <1>5 DEF NextItem, JobFits
    <2>3. job' \in [Proc -> Job] /\ ObjectPath(p)' = x /\ job'[p].op = job[p].op
        BY <1>1, <2>1, <2>2 DEF TakeItem, Job, Path, ReleaseRow, ObjectPath
    <2>4. TypeOK'
        BY <1>5, <2>1, <2>3 DEF NextItem, Remaining, Locked, Unlocked
    <2>5. JobFits(p)'
        BY <2>1, <2>2, <2>3 DEF JobFits, JobNamesRelease, PublishSteps, DeleteSteps,
                                CleanSteps
    <2> QED BY <1>2, <2>1, <2>4, <2>5 DEF TypesKept, Frame, TakeItem
<1>6. CASE LockModule(p)
    <2>1. EntryPoint(job[p]) \in {"getRelease", "upsert", "reread", "recheck",
                                  "delete", "getModule", "listReleases"}
        BY DEF EntryPoint
    <2>2. TypeOK'
        BY <1>6, <2>1 DEF LockModule, Locked, Unlocked
    <2>3. JobFits(p)'
        BY <1>1, <1>6 DEF LockModule, EntryPoint, JobFits, JobNamesRelease, PublishSteps,
            DeleteSteps, CleanSteps, Job, AllOperations, ObjectPath, NoJob
    <2> QED BY <1>2, <1>6, <2>2, <2>3 DEF TypesKept, Frame, LockModule
<1>7. CASE LockModuleFails(p) /\ ~Retire(p)
    <2>1. pc' = [pc EXCEPT ![p] = "next"] /\ job[p].op = "worker"
        BY <1>7 DEF LockModuleFails
    <2>2. UNCHANGED <<sqlVars, inDoubt, storageVars, lock, committed, localVars>>
        BY <1>7 DEF LockModuleFails
    <2>3. JobFits(p)'
        BY <1>1, <2>1, <2>2 DEF JobFits, JobNamesRelease, PublishSteps, DeleteSteps,
                                CleanSteps
    <2> QED BY <1>2, <2>1, <2>2, <2>3 DEF TypesKept, Frame, Locked, Unlocked
<1>8. CASE Unlock(p) /\ ~Retire(p)
    <2>1. /\ pc' = [pc EXCEPT ![p] = "next"]
          /\ job[p].op \in {"worker", "reconcile"}
          /\ answer' = [answer EXCEPT ![p] = "none"]
          /\ lock' \in {lock, NoProc}
          /\ UNCHANGED <<sqlVars, inDoubt, storageVars, committed, job, scan, batch,
                         fk, usedAtLock>>
        BY <1>8 DEF Unlock, ReleaseLock
    <2>2. JobFits(p)'
        BY <1>1, <2>1 DEF JobFits, JobNamesRelease, PublishSteps, DeleteSteps, CleanSteps
    <2> QED BY <1>2, <2>1, <2>2 DEF TypesKept, Frame, Locked, Unlocked, Answers
<1> QED
    BY <1>3, <1>4, <1>5, <1>6, <1>7, <1>8
       DEF ListObjects, NextItem, LockModuleFails, Unlock, Crash, ReleaseLock

\* publish.
LEMMA PublishTypes ==
    ASSUME TypeInv, NEW p \in Proc,
           \/ GetRelease(p) \/ VerifyRegistered(p) \/ Upload(p)
           \/ VerifyUpload(p) \/ UpsertModule(p) \/ CreateRelease(p)
           \/ ConfirmRelease(p) \/ RemoveUncommitted(p) \/ RemoveEmptyModule(p)
    PROVE  TypesKept(p)
<1>1. TypeOK /\ JobFits(p) /\ InDoubtFits /\ job[p] \in Job
    BY DEF TypeInv, TypeOK
<1>2. CASE GetRelease(p)
    <2>1. TypeOK'
        BY <1>1, <1>2
           DEF TypeOK, GetRelease, Locked, Unlocked, Answers, Finish,
               SqlReadFails
    <2>2. JobFits(p)'
        BY <1>1, <1>2
           DEF GetRelease, TypeOK, Finish, SqlReadFails, JobFits,
               JobNamesRelease, PublishSteps, DeleteSteps, CleanSteps,
               ObjectPath, Queued
    <2> QED
        BY <1>1, <1>2, <2>1, <2>2
           DEF GetRelease, TypesKept, Frame, TypeOK, InDoubtFits, Finish,
               SqlReadFails
<1>3. CASE VerifyRegistered(p)
    <2>1. TypeOK'
        BY <1>1, <1>3
           DEF TypeOK, VerifyRegistered, Locked, Unlocked, Answers, Finish
    <2>2. JobFits(p)'
        BY <1>1, <1>3
           DEF VerifyRegistered, TypeOK, Finish, JobFits, JobNamesRelease,
               PublishSteps, DeleteSteps, CleanSteps, ObjectPath, Queued
    <2> QED
        BY <1>1, <1>3, <2>1, <2>2
           DEF VerifyRegistered, TypesKept, Frame, TypeOK, InDoubtFits, Finish
<1>4. CASE Upload(p)
    <2>0. ObjectPath(p) \in Path
        BY <1>1, <1>4
           DEF Upload, JobFits, JobNamesRelease, PublishSteps, CleanSteps,
               DeleteSteps, ObjectPath, Path
    <2>1. TypeOK'
        BY <1>1, <1>4, <2>0
           DEF TypeOK, Upload, Locked, Unlocked, Answers, Finish, WriteObject
    <2>2. JobFits(p)'
        BY <1>1, <1>4, <2>0
           DEF Upload, TypeOK, Finish, WriteObject, JobFits, JobNamesRelease,
               PublishSteps, DeleteSteps, CleanSteps, ObjectPath, Queued
    <2> QED
        BY <1>1, <1>4, <2>1, <2>2
           DEF Upload, TypesKept, Frame, TypeOK, InDoubtFits, Finish
<1>5. CASE VerifyUpload(p)
    <2>1. TypeOK'
        BY <1>1, <1>5
           DEF TypeOK, VerifyUpload, Locked, Unlocked, Answers, Finish
    <2>2. JobFits(p)'
        BY <1>1, <1>5
           DEF VerifyUpload, TypeOK, Finish, JobFits, JobNamesRelease,
               PublishSteps, DeleteSteps, CleanSteps, ObjectPath, Queued
    <2> QED
        BY <1>1, <1>5, <2>1, <2>2
           DEF VerifyUpload, TypesKept, Frame, TypeOK, InDoubtFits, Finish
<1>6. CASE UpsertModule(p)
    <2>1. TypeOK'
        BY <1>1, <1>6
           DEF TypeOK, UpsertModule, Locked, Unlocked, Answers, Finish,
               UpsertRow
    <2>2. JobFits(p)'
        BY <1>1, <1>6
           DEF UpsertModule, TypeOK, Finish, UpsertRow, JobFits,
               JobNamesRelease, PublishSteps, DeleteSteps, CleanSteps,
               ObjectPath, Queued
    <2> QED
        BY <1>1, <1>6, <2>1, <2>2
           DEF UpsertModule, TypesKept, Frame, TypeOK, InDoubtFits, Finish
<1>7. CASE CreateRelease(p)
    <2>0. job[p].ver \in Version /\ job[p].sha \in Content
        BY <1>1, <1>7
           DEF CreateRelease, JobFits, JobNamesRelease, PublishSteps,
               CleanSteps, DeleteSteps, ObjectPath, Path
    <2>1. TypeOK'
        <3>1. CASE RowsFree /\ fk[p] /\ CommitRelease(job[p])
            <4>1. TablesOK'
                BY <1>1, <2>0, <3>1, CommitReleaseTypes
            <4> QED
                BY <1>1, <1>7, <2>0, <4>1
                   DEF TypeOK, TablesOK, CreateRelease, Finish, Locked, Unlocked, Answers
        <3>2. CASE UNCHANGED <<sqlVars, fk, committed>>
            BY <1>1, <1>7, <3>2 DEF TypeOK, CreateRelease, Finish, Locked, Unlocked, Answers
        <3> QED BY <1>7, <3>1, <3>2 DEF CreateRelease
    <2>2. JobFits(p)'
        BY <1>1, <1>7, <2>0
           DEF CreateRelease, TypeOK, Finish, JobFits, JobNamesRelease,
               PublishSteps, DeleteSteps, CleanSteps, ObjectPath, Queued
    <2>3. InDoubtFits'
        BY <1>1, <1>7, <2>0
           DEF CreateRelease, InDoubtFits, JobFits, PublishSteps, DeleteSteps
    <2> QED
        BY <1>1, <1>7, <2>1, <2>2, <2>3
           DEF CreateRelease, TypesKept, Frame, TypeOK, Finish
<1>8. CASE ConfirmRelease(p)
    <2>1. TypeOK'
        BY <1>1, <1>8
           DEF TypeOK, ConfirmRelease, Locked, Unlocked, Answers, Finish,
               SqlReadFails
    <2>2. JobFits(p)'
        BY <1>1, <1>8
           DEF ConfirmRelease, TypeOK, Finish, SqlReadFails, JobFits,
               JobNamesRelease, PublishSteps, DeleteSteps, CleanSteps,
               ObjectPath, Queued
    <2> QED
        BY <1>1, <1>8, <2>1, <2>2
           DEF ConfirmRelease, TypesKept, Frame, TypeOK, InDoubtFits, Finish,
               SqlReadFails
<1>9. CASE RemoveUncommitted(p)
    <2>0. ObjectPath(p) \in Path
        BY <1>1, <1>9
           DEF RemoveUncommitted, JobFits, JobNamesRelease, PublishSteps,
               CleanSteps, DeleteSteps, ObjectPath, Path
    <2>1. TypeOK'
        BY <1>1, <1>9, <2>0
           DEF TypeOK, RemoveUncommitted, Locked, Unlocked, Answers,
               DeleteObject, DeleteObjectFails
    <2>2. JobFits(p)'
        BY <1>1, <1>9, <2>0
           DEF RemoveUncommitted, TypeOK, DeleteObject, DeleteObjectFails,
               JobFits, JobNamesRelease, PublishSteps, DeleteSteps,
               CleanSteps, ObjectPath, Queued
    <2> QED
        BY <1>1, <1>9, <2>1, <2>2
           DEF RemoveUncommitted, TypesKept, Frame, TypeOK, InDoubtFits
<1>10. CASE RemoveEmptyModule(p)
    <2>1. TypeOK'
        BY <1>1, <1>10
           DEF TypeOK, RemoveEmptyModule, Locked, Unlocked, Answers,
               DeleteModuleIfEmpty, DropModuleRow
    <2>2. JobFits(p)'
        BY <1>1, <1>10
           DEF RemoveEmptyModule, TypeOK, DeleteModuleIfEmpty, DropModuleRow,
               JobFits, JobNamesRelease, PublishSteps, DeleteSteps,
               CleanSteps, ObjectPath, Queued
    <2> QED
        BY <1>1, <1>10, <2>1, <2>2
           DEF RemoveEmptyModule, TypesKept, Frame, TypeOK, InDoubtFits
<1> QED
    BY <1>2, <1>3, <1>4, <1>5, <1>6, <1>7, <1>8, <1>9, <1>10

\* DeleteRelease(IfAllowed) and DeleteModule(IfAllowed).
LEMMA DeleteStepTypes ==
    ASSUME TypeInv, NEW p \in Proc,
           \/ GetModule(p) \/ ListReleases(p) \/ CheckActive(p)
           \/ Delete(p)
    PROVE  TypesKept(p)
<1>1. TypeOK /\ JobFits(p) /\ InDoubtFits /\ job[p] \in Job
    BY DEF TypeInv, TypeOK
<1>2. CASE GetModule(p)
    <2>0. job[p].ver \in Version
        BY <1>1, <1>2
           DEF GetModule, JobFits, JobNamesRelease, PublishSteps, CleanSteps,
               DeleteSteps, ObjectPath, Path
    <2>1. TypeOK'
        BY <1>1, <1>2, <2>0
           DEF TypeOK, GetModule, Locked, Unlocked, Answers, Finish,
               SqlReadFails
    <2>2. JobFits(p)'
        BY <1>1, <1>2, <2>0
           DEF GetModule, TypeOK, Finish, SqlReadFails, JobFits,
               JobNamesRelease, PublishSteps, DeleteSteps, CleanSteps,
               ObjectPath, Queued
    <2> QED
        BY <1>1, <1>2, <2>1, <2>2
           DEF GetModule, TypesKept, Frame, TypeOK, InDoubtFits, Finish,
               SqlReadFails
<1>3. CASE ListReleases(p)
    <2>1. TypeOK'
        BY <1>1, <1>3
           DEF TypeOK, ListReleases, Locked, Unlocked, Answers, Finish,
               SqlReadFails, Present
    <2>2. JobFits(p)'
        BY <1>1, <1>3
           DEF ListReleases, TypeOK, Finish, SqlReadFails, Present, JobFits,
               JobNamesRelease, PublishSteps, DeleteSteps, CleanSteps,
               ObjectPath, Queued
    <2> QED
        BY <1>1, <1>3, <2>1, <2>2
           DEF ListReleases, TypesKept, Frame, TypeOK, InDoubtFits, Finish,
               SqlReadFails
<1>4. CASE CheckActive(p)
    <2>1. TypeOK'
        BY <1>1, <1>4
           DEF TypeOK, CheckActive, Locked, Unlocked, Answers, Finish,
               SqlReadFails
    <2>2. JobFits(p)'
        BY <1>1, <1>4
           DEF CheckActive, TypeOK, Finish, SqlReadFails, JobFits,
               JobNamesRelease, PublishSteps, DeleteSteps, CleanSteps,
               ObjectPath, Queued
    <2> QED
        BY <1>1, <1>4, <2>1, <2>2
           DEF CheckActive, TypesKept, Frame, TypeOK, InDoubtFits, Finish,
               SqlReadFails
<1>5. CASE Delete(p)
    <2>0. job[p].op = "deleteRelease" => job[p].ver \in Version
        BY <1>1, <1>5
           DEF Delete, JobFits, JobNamesRelease, PublishSteps, CleanSteps,
               DeleteSteps, ObjectPath, Path
    <2>1. TypeOK'
        <3>1. CASE RowsFree /\ DeleteTx(job[p])
            <4>1. TablesOK'
                BY <1>1, <2>0, <3>1, DeleteTypes
            <4> QED
                BY <1>1, <1>5, <2>0, <3>1, <4>1
                   DEF TypeOK, TablesOK, Delete, Finish, Locked, Unlocked, Answers
        <3>2. CASE UNCHANGED <<sqlVars, fk, committed>>
            BY <1>1, <1>5, <3>2 DEF TypeOK, Delete, Finish, Locked, Unlocked, Answers
        <3> QED BY <1>5, <3>1, <3>2 DEF Delete
    <2>2. JobFits(p)'
        BY <1>1, <1>5, <2>0
           DEF Delete, TypeOK, Finish, JobFits, JobNamesRelease, PublishSteps,
               DeleteSteps, CleanSteps, ObjectPath, Queued
    <2>3. InDoubtFits'
        BY <1>1, <1>5, <2>0
           DEF Delete, InDoubtFits, JobFits, PublishSteps, DeleteSteps
    <2> QED
        BY <1>1, <1>5, <2>1, <2>2, <2>3
           DEF Delete, TypesKept, Frame, TypeOK, Finish
<1> QED
    BY <1>2, <1>3, <1>4, <1>5

\* IndexUpstreamModule.
LEMMA IndexTypes ==
    ASSUME TypeInv, NEW p \in Proc,
           \/ IndexNext(p) \/ IndexCreate(p) \/ RereadRelease(p)
           \/ RewriteRelease(p)
    PROVE  TypesKept(p)
<1>1. TypeOK /\ JobFits(p) /\ InDoubtFits /\ job[p] \in Job
    BY DEF TypeInv, TypeOK
<1>2. CASE IndexNext(p)
    <2>0. job[p].op = "index"
        BY <1>1, <1>2
           DEF IndexNext, JobFits, JobNamesRelease, PublishSteps, CleanSteps,
               DeleteSteps, ObjectPath, Path
    <2>1. TypeOK'
        <3>1. job' \in [Proc -> Job]
            <4>1. job' = job \/ \E v \in Version : TakeItem(p, v, Upstream)
                BY <1>1, <1>2 DEF IndexNext, TypeOK
            <4>2. ASSUME NEW v \in Version, TakeItem(p, v, Upstream)
                  PROVE  job' \in [Proc -> Job]
                BY <1>1, <4>2 DEF TakeItem, TypeOK, Job, ReleaseRow
            <4> QED BY <1>1, <4>1, <4>2 DEF TypeOK
        <3>2. pc' \in [Proc -> Locked \cup Unlocked] /\ answer' \in [Proc -> Answers]
            BY <1>1, <1>2
               DEF IndexNext, Finish, SqlReadFails, TypeOK, Locked, Unlocked, Answers
        <3>3. scan' \in [Proc -> SUBSET Version]
            BY <1>1, <1>2 DEF IndexNext, TypeOK
        <3> QED BY <1>1, <1>2, <3>1, <3>2, <3>3 DEF IndexNext, TypeOK
    <2>2. JobFits(p)'
        BY <1>1, <1>2, <2>0
           DEF IndexNext, TypeOK, Finish, SqlReadFails, TakeItem, JobFits,
               JobNamesRelease, PublishSteps, DeleteSteps, CleanSteps,
               ObjectPath, Queued
    <2> QED
        BY <1>1, <1>2, <2>1, <2>2
           DEF IndexNext, TypesKept, Frame, TypeOK, InDoubtFits, Finish,
               SqlReadFails, TakeItem
<1>3. CASE IndexCreate(p)
    <2>0. job[p].ver \in Version /\ job[p].sha = Upstream
        BY <1>1, <1>3
           DEF IndexCreate, JobFits, JobNamesRelease, PublishSteps,
               CleanSteps, DeleteSteps, ObjectPath, Path
    <2>1. TypeOK'
        <3>1. CASE RowsFree /\ fk[p] /\ CommitRelease(job[p])
            <4>1. TablesOK'
                BY <1>1, <2>0, <3>1, CommitReleaseTypes
            <4> QED
                BY <1>1, <1>3, <2>0, <4>1
                   DEF TypeOK, TablesOK, IndexCreate, Indexed, Finish, Locked, Unlocked, Answers
        <3>2. CASE UNCHANGED <<sqlVars, fk, committed>>
            BY <1>1, <1>3, <3>2 DEF TypeOK, IndexCreate, Indexed, Finish, Locked, Unlocked, Answers
        <3> QED BY <1>3, <3>1, <3>2 DEF IndexCreate
    <2>2. JobFits(p)'
        BY <1>1, <1>3, <2>0
           DEF IndexCreate, Indexed, TypeOK, Finish, JobFits, JobNamesRelease,
               PublishSteps, DeleteSteps, CleanSteps, ObjectPath, Queued
    <2>3. InDoubtFits'
        BY <1>1, <1>3, <2>0
           DEF IndexCreate, InDoubtFits, JobFits, PublishSteps, DeleteSteps
    <2> QED
        BY <1>1, <1>3, <2>1, <2>2, <2>3
           DEF IndexCreate, Indexed, TypesKept, Frame, TypeOK, Finish
<1>4. CASE RereadRelease(p)
    <2>1. TypeOK'
        BY <1>1, <1>4
           DEF TypeOK, RereadRelease, Locked, Unlocked, Answers, Finish,
               SqlReadFails
    <2>2. JobFits(p)'
        BY <1>1, <1>4
           DEF RereadRelease, TypeOK, Finish, SqlReadFails, JobFits,
               JobNamesRelease, PublishSteps, DeleteSteps, CleanSteps,
               ObjectPath, Queued
    <2> QED
        BY <1>1, <1>4, <2>1, <2>2
           DEF RereadRelease, TypesKept, Frame, TypeOK, InDoubtFits, Finish,
               SqlReadFails
<1>5. CASE RewriteRelease(p)
    <2>0. job[p].ver \in Version /\ job[p].sha = Upstream /\ job[p].op = "hydrate"
        BY <1>1, <1>5 DEF RewriteRelease, JobFits, JobNamesRelease
    <2>1. TypeOK'
        <3>1. CASE RowsFree /\ fk[p] /\ CommitRelease(job[p])
            <4>1. TablesOK'
                BY <1>1, <2>0, <3>1, CommitReleaseTypes
            <4> QED
                BY <1>1, <1>5, <2>0, <4>1
                   DEF TypeOK, TablesOK, RewriteRelease, Finish, Locked, Unlocked, Answers
        <3>2. CASE UNCHANGED <<sqlVars, fk, committed>>
            BY <1>1, <1>5, <3>2
               DEF TypeOK, RewriteRelease, Finish, Locked, Unlocked, Answers
        <3> QED BY <1>5, <3>1, <3>2 DEF RewriteRelease
    <2>2. JobFits(p)'
        BY <1>1, <1>5, <2>0
           DEF RewriteRelease, TypeOK, Finish, JobFits, JobNamesRelease,
               PublishSteps, DeleteSteps, CleanSteps, ObjectPath, Queued
    <2>3. InDoubtFits'
        BY <1>1, <1>5, <2>0 DEF RewriteRelease, InDoubtFits, JobFits
    <2> QED
        BY <1>1, <1>5, <2>1, <2>2, <2>3
           DEF RewriteRelease, TypesKept, Frame, TypeOK, Finish
<1> QED
    BY <1>2, <1>3, <1>4, <1>5

\* processArtifactDeletion and repairOrphanArtifact.
LEMMA CleanTypes ==
    ASSUME TypeInv, NEW p \in Proc,
           \/ Recheck(p) \/ RemoveSucceeds(p) \/ RemoveFails(p)
           \/ CompleteArtifactDeletion(p)
    PROVE  TypesKept(p)
<1>1. TypeOK /\ JobFits(p) /\ InDoubtFits /\ job[p] \in Job
    BY DEF TypeInv, TypeOK
<1>2. CASE Recheck(p)
    <2>1. TypeOK'
        BY <1>1, <1>2
           DEF TypeOK, Recheck, Locked, Unlocked, Answers, Finish,
               SqlReadFails
    <2>2. JobFits(p)'
        BY <1>1, <1>2
           DEF Recheck, TypeOK, Finish, SqlReadFails, JobFits,
               JobNamesRelease, PublishSteps, DeleteSteps, CleanSteps,
               ObjectPath, Queued
    <2> QED
        BY <1>1, <1>2, <2>1, <2>2
           DEF Recheck, TypesKept, Frame, TypeOK, InDoubtFits, Finish,
               SqlReadFails
<1>3. CASE RemoveSucceeds(p)
    <2>0. ObjectPath(p) \in Path
        BY <1>1, <1>3
           DEF RemoveSucceeds, JobFits, JobNamesRelease, PublishSteps,
               CleanSteps, DeleteSteps, ObjectPath, Path
    <2>1. TypeOK'
        BY <1>1, <1>3, <2>0
           DEF TypeOK, RemoveSucceeds, Locked, Unlocked, Answers, Finish,
               DeleteObject
    <2>2. JobFits(p)'
        BY <1>1, <1>3, <2>0
           DEF RemoveSucceeds, TypeOK, Finish, DeleteObject, JobFits,
               JobNamesRelease, PublishSteps, DeleteSteps, CleanSteps,
               ObjectPath, Queued
    <2> QED
        BY <1>1, <1>3, <2>1, <2>2
           DEF RemoveSucceeds, TypesKept, Frame, TypeOK, InDoubtFits, Finish
<1>4. CASE RemoveFails(p)
    <2>0. ObjectPath(p) \in Path
        BY <1>1, <1>4
           DEF RemoveFails, JobFits, JobNamesRelease, PublishSteps,
               CleanSteps, DeleteSteps, ObjectPath, Path
    <2>1. TypeOK'
        BY <1>1, <1>4, <2>0
           DEF TypeOK, RemoveFails, Locked, Unlocked, Answers, Finish,
               DeleteObject, DeleteObjectFails
    <2>2. JobFits(p)'
        BY <1>1, <1>4, <2>0
           DEF RemoveFails, TypeOK, Finish, DeleteObject, DeleteObjectFails,
               JobFits, JobNamesRelease, PublishSteps, DeleteSteps,
               CleanSteps, ObjectPath, Queued
    <2> QED
        BY <1>1, <1>4, <2>1, <2>2
           DEF RemoveFails, TypesKept, Frame, TypeOK, InDoubtFits, Finish
<1>5. CASE CompleteArtifactDeletion(p)
    <2>1. TypeOK'
        BY <1>1, <1>5
           DEF TypeOK, CompleteArtifactDeletion, Locked, Unlocked, Answers,
               Finish, CompleteRow
    <2>2. JobFits(p)'
        BY <1>1, <1>5
           DEF CompleteArtifactDeletion, TypeOK, Finish, CompleteRow, JobFits,
               JobNamesRelease, PublishSteps, DeleteSteps, CleanSteps,
               ObjectPath, Queued
    <2> QED
        BY <1>1, <1>5, <2>1, <2>2
           DEF CompleteArtifactDeletion, TypesKept, Frame, TypeOK,
               InDoubtFits, Finish
<1> QED
    BY <1>2, <1>3, <1>4, <1>5

\* What happens around the handlers.
LEMMA EnvironmentTypes ==
    ASSUME TypeInv, Environment
    PROVE  TypeInv'
<1>1. TypeOK /\ InDoubtFits
    BY DEF TypeInv
<1>2. CASE \E v \in Version : MarkReleaseUsed(v) \/ PurgeTombstone(v)
    <2>1. UNCHANGED <<inDoubt, pc, job, answer>>
        BY <1>2 DEF MarkReleaseUsed, PurgeTombstone
    <2>2. TypeOK'
        BY <1>1, <1>2 DEF TypeOK, MarkReleaseUsed, PurgeTombstone
    <2> QED
        BY <2>1, <2>2 DEF TypeInv, JobFits, InDoubtFits, ObjectPath, Queued
<1>3. CASE LoseLock \/ StragglerLands
    <2>1. UNCHANGED <<inDoubt, pc, job, answer>>
        BY <1>3 DEF LoseLock, StragglerLands
    <2>2. TypeOK'
        BY <1>1, <1>3 DEF TypeOK, LoseLock, StragglerLands
    <2> QED
        BY <2>1, <2>2 DEF TypeInv, JobFits, InDoubtFits, ObjectPath, Queued
<1>4. CASE DecideCommit
    <2>1. inDoubt \in Job /\ inDoubt' = NoTx /\ UNCHANGED <<pc, job, answer>>
        BY <1>1, <1>4 DEF TypeOK, DecideCommit
    <2>2. TablesOK'
        <3>1. CASE inDoubt.op \in CreateOperations /\ CommitRelease(inDoubt)
            BY <1>1, <1>4, <2>1, <3>1, CommitReleaseTypes
               DEF DecideCommit, InDoubtFits, JobNamesRelease, CreateOperations
        <3>2. CASE DeleteTx(inDoubt)
            BY <1>1, <1>4, <2>1, <3>2, DeleteTypes
               DEF DecideCommit, InDoubtFits, JobNamesRelease
        <3>3. CASE UNCHANGED <<sqlVars, fk, committed>>
            BY <1>1, <3>3 DEF TypeOK, TablesOK
        <3> QED BY <1>4, <3>1, <3>2, <3>3 DEF DecideCommit
    <2>3. TypeOK'
        BY <1>1, <1>4, <2>1, <2>2 DEF TypeOK, TablesOK, DecideCommit
    <2> QED
        BY <2>1, <2>3 DEF TypeInv, JobFits, InDoubtFits, ObjectPath, Queued
<1> QED BY <1>2, <1>3, <1>4 DEF Environment

\* TypeInv holds at first and is kept by every step.
LEMMA TypeInvInductive ==
    /\ Init => TypeInv
    /\ TypeInv /\ [Next]_vars => TypeInv'
<1>1. ASSUME Init PROVE TypeInv
    <2>1. TypeOK
        BY <1>1 DEF Init, TypeOK, Unlocked, Answers, NoJob, Job, AllOperations,
                    ReleaseRow
    <2>2. ASSUME NEW p \in Proc PROVE JobFits(p)
        BY <1>1 DEF Init, JobFits, JobNamesRelease, NoJob, PublishSteps,
                    DeleteSteps, CleanSteps
    <2> QED BY <1>1, <2>1, <2>2 DEF Init, TypeInv, InDoubtFits
<1>2. ASSUME TypeInv, NEW p \in Proc, ProcessStep(p) PROVE TypeInv'
    <2>1. TypesKept(p)
        BY <1>2, StartTypes, LoopTypes, PublishTypes, DeleteStepTypes, IndexTypes,
           CleanTypes
           DEF ProcessStep, PublishStep, DeleteStep, IndexStep, CleanStep
    <2> QED BY <1>2, <2>1, TypesKeptSuffices
<1>3. ASSUME TypeInv, UNCHANGED vars PROVE TypeInv'
    BY <1>3 DEF vars, TypeInv, TypeOK, JobFits, InDoubtFits, ObjectPath, Queued
<1> QED
    BY <1>1, <1>2, <1>3, EnvironmentTypes DEF Next

\* Whatever fails, tables, object paths, queue, lock, jobs and program counters
\* keep their types, and a process only works at steps of its own operation:
\* TypeOK of module_service.go, reconcile.go and postgres.go.
THEOREM TypeCorrect == Spec => []TypeOK
<1>1. Spec => []TypeInv
    BY TypeInvInductive, PTL DEF Spec
<1>2. TypeInv => TypeOK
    BY DEF TypeInv
<1> QED BY <1>1, <1>2, PTL

-----------------------------------------------------------------------------
(* Registered bytes                                                        *)

\* The releases table changes in four transactions only.
LEMMA WhoChangesRows ==
    ASSUME Next
    PROVE  \/ UNCHANGED releases
           \/ \E p \in Proc :
                 \/ CreateRelease(p) /\ CommitRelease(job[p])
                 \/ IndexCreate(p) /\ CommitRelease(job[p])
                 \/ RewriteRelease(p) /\ CommitRelease(job[p])
                 \/ Delete(p) /\ DeleteTx(job[p])
           \/ DecideCommit /\ (CommitRelease(inDoubt) \/ DeleteTx(inDoubt))
<1>1. CASE Environment
    BY <1>1 DEF Environment, MarkReleaseUsed, PurgeTombstone, LoseLock,
                DecideCommit, StragglerLands
<1>2. ASSUME NEW p \in Proc,
             LockModule(p) \/ LockModuleFails(p) \/ Unlock(p) \/ Crash(p)
      PROVE  UNCHANGED releases
    BY <1>2 DEF LockModule, LockModuleFails, Unlock, Crash
<1>3. ASSUME NEW p \in Proc, PublishStep(p)
      PROVE  UNCHANGED releases \/ (CreateRelease(p) /\ CommitRelease(job[p]))
    BY <1>3 DEF PublishStep, StartPublish, Start, GetRelease, VerifyRegistered,
                Upload, VerifyUpload, UpsertModule, UpsertRow, CreateRelease,
                ConfirmRelease, RemoveUncommitted, RemoveEmptyModule,
                DeleteModuleIfEmpty
<1>4. ASSUME NEW p \in Proc, DeleteStep(p)
      PROVE  UNCHANGED releases \/ (Delete(p) /\ DeleteTx(job[p]))
    BY <1>4 DEF DeleteStep, StartDelete, Start, GetModule, ListReleases,
                CheckActive, Delete
<1>5. ASSUME NEW p \in Proc, IndexStep(p)
      PROVE  \/ UNCHANGED releases
             \/ IndexCreate(p) /\ CommitRelease(job[p])
             \/ RewriteRelease(p) /\ CommitRelease(job[p])
    BY <1>5 DEF IndexStep, StartIndex, StartRestore, StartHydrate, Start, IndexNext,
                IndexCreate, RereadRelease, RewriteRelease
<1>6. ASSUME NEW p \in Proc, CleanStep(p)
      PROVE  UNCHANGED releases
    BY <1>6 DEF CleanStep, ListArtifactDeletions, ListArtifactReleases, Start,
                ListObjects, NextItem, Recheck, RemoveSucceeds, RemoveFails,
                CompleteArtifactDeletion, CompleteRow
<1> QED
    BY <1>1, <1>2, <1>3, <1>4, <1>5, <1>6 DEF Next, ProcessStep

\* A committed release row is the old one, or the one of a job that may
\* replace rows.
LEMMA CommittedRow ==
    ASSUME TypeOK, NEW j, CommitRelease(j), NEW v \in Version,
           releases[v] \in Content, releases'[v] # releases[v]
    PROVE  j.ver = v /\ j.force
BY ConstantsAssumption DEF TypeOK, CommitRelease, MayCreate

\* A delete leaves a row as it is or removes it.
LEMMA DeletedRow ==
    ASSUME TypeOK, NEW j, DeleteTx(j), NEW v \in Version
    PROVE  releases'[v] \in {releases[v], NoRelease}
BY DEF TypeOK, DeleteTx, DeleteReleaseTx, DeleteModuleTx

-----------------------------------------------------------------------------
(* Objects, rows and the deletion queue                                    *)

\* The faults under which a COMMIT that fails has failed for good, and a process
\* that believes it holds the module lock does hold it.
LockHolds == Faults \cap {"lateCommit", "lockLoss"} = {}

\* Those under which an object delete that fails has failed for good as well.
FailuresAreFinal == LockHolds /\ DeletesAreFinal

\* What a step under the lock of p has to show.
Stored == /\ CommittedIsQueued
          /\ DeletesAreFinal => stragglers = {} /\ NoDanglingRelease

ArtifactsKept(p) == StepInv(p)' /\ Stored'

Working(p) ==
    /\ pc[p] \in Locked /\ pc'[p] \in Locked
    /\ UNCHANGED <<lock, inDoubt>>
    /\ Frame(p)

LEMMA WorkingSuffices ==
    ASSUME ArtifactInv, NEW p \in Proc, Working(p), ArtifactsKept(p)
    PROVE  ArtifactInv'
<1>1. \A q \in Proc \ {p} : pc[q] \notin Locked /\ pc'[q] \notin Locked
    BY DEF ArtifactInv, LockInv, Working, Frame
<1>2. LockInv'
    BY <1>1 DEF ArtifactInv, LockInv, Working
<1>3. \A q \in Proc \ {p} : StepInv(q)'
    BY <1>1 DEF StepInv, Locked
<1> QED
    BY <1>2, <1>3 DEF ArtifactInv, ArtifactsKept, Stored, Working

\* A step that leaves tables and objects alone, and takes p in or out of the
\* lock or leaves it outside.
LEMMA OutsideSuffices ==
    ASSUME ArtifactInv, NEW p \in Proc, Frame(p), LockInv', StepInv(p)',
           UNCHANGED <<releases, queue, committed, inDoubt, storageVars>>
    PROVE  ArtifactInv'
<1>1. \A q \in Proc \ {p} : StepInv(q)'
    BY DEF ArtifactInv, StepInv, Frame, ObjectPath, Referenced, IsArtifactReferenced
<1>2. Stored'
    BY DEF ArtifactInv, Stored, NoDanglingRelease, CommittedIsQueued, DeletesAreFinal,
           Referenced, IsArtifactReferenced
<1> QED
    BY <1>1, <1>2 DEF ArtifactInv, Stored

\* Starting, locking, unlocking, the loops and crashes.
LEMMA OutsideSteps ==
    ASSUME TypeInv, TypeInv', ArtifactInv, NEW p \in Proc, Frame(p),
           \/ StartPublish(p) \/ StartDelete(p) \/ StartIndex(p)
           \/ StartRestore(p) \/ StartHydrate(p)
           \/ ListArtifactDeletions(p) \/ ListArtifactReleases(p)
           \/ ListObjects(p) \/ NextItem(p) \/ LockModule(p)
           \/ LockModuleFails(p) \/ Unlock(p) \/ Crash(p)
    PROVE  ArtifactInv'
<1> USE DEF TypeInv, TypeOK
<1>1. UNCHANGED <<releases, queue, committed, inDoubt, storageVars>>
    BY DEF StartPublish, StartDelete, StartIndex, StartRestore, StartHydrate, ListArtifactDeletions,
           ListArtifactReleases, Start, ListObjects, NextItem, LockModule,
           LockModuleFails, Unlock, Crash
<1>2. CASE LockModule(p)
    <2>1. /\ lock = NoProc /\ lock' = p
          /\ pc'[p] \in {"getRelease", "upsert", "reread", "recheck", "delete",
                         "getModule", "listReleases"}
          /\ pc'[p] = "upsert" => job'[p].op \in {"index", "restore"}
        BY <1>2 DEF LockModule, LockFree, EntryPoint
    <2>2. LockInv'
        BY <2>1, ConstantsAssumption DEF ArtifactInv, LockInv, Frame, Locked
    <2>3. StepInv(p)'
        BY <2>1 DEF StepInv
    <2> QED BY <1>1, <2>2, <2>3, OutsideSuffices
<1>3. CASE ~LockModule(p)
    <2>1. pc'[p] \in Unlocked
        BY <1>3 DEF StartPublish, StartDelete, StartIndex, StartRestore, StartHydrate, ListArtifactDeletions,
           ListArtifactReleases, Start, ListObjects, NextItem, Retire, Unlocked,
           LockModuleFails, Unlock, Crash
    <2>2. lock' = IF lock = p THEN NoProc ELSE lock
        <3>1. CASE Unlock(p) \/ Crash(p)
            BY <3>1 DEF Unlock, Crash, ReleaseLock
        <3>2. CASE ~(Unlock(p) \/ Crash(p))
            <4>1. pc[p] \notin Locked /\ lock' = lock
                BY <1>3, <3>2 DEF StartPublish, StartDelete, StartIndex, StartRestore, StartHydrate,
                   ListArtifactDeletions, ListArtifactReleases, Start, ListObjects,
                   NextItem, LockModuleFails, Locked
            <4> QED BY <4>1 DEF ArtifactInv, LockInv
        <3> QED BY <3>1, <3>2
    <2>3. pc'[p] \notin Locked
        BY <2>1 DEF Locked, Unlocked
    <2>4. LockInv'
        BY <2>2, <2>3, ConstantsAssumption DEF ArtifactInv, LockInv, Frame
    <2>5. StepInv(p)'
        BY <2>3 DEF StepInv, Locked
    <2> QED BY <1>1, <2>4, <2>5, OutsideSuffices
<1> QED
    BY <1>2, <1>3

\* publish.
LEMMA PublishKeepsArtifacts ==
    ASSUME LockHolds, TypeInv, ArtifactInv, NEW p \in Proc, Frame(p),
           \/ GetRelease(p) \/ VerifyRegistered(p) \/ Upload(p)
           \/ VerifyUpload(p) \/ UpsertModule(p) \/ CreateRelease(p)
           \/ ConfirmRelease(p) \/ RemoveUncommitted(p) \/ RemoveEmptyModule(p)
    PROVE  Working(p) /\ ArtifactsKept(p)
<1>1. /\ pc \in [Proc -> Locked \cup Unlocked] /\ answer \in [Proc -> Answers]
      /\ job \in [Proc -> Job] /\ releases \in [Version -> ReleaseRow]
    BY DEF TypeInv, TypeOK
<1>2. JobFits(p) /\ StepInv(p) /\ Stored
    BY DEF TypeInv, ArtifactInv, Stored
<1> USE <1>1, <1>2 DEF StepInv, ObjectPath, Referenced, IsArtifactReferenced, Path
<1>3. CASE GetRelease(p)
    <2>1. Working(p)
        BY <1>3
           DEF LockHolds, GetRelease, Finish, SqlReadFails, Working,
               Locked
    <2>2. StepInv(p)'
        BY <1>3
           DEF GetRelease, Finish, SqlReadFails, JobFits, JobNamesRelease,
               PublishSteps, DeleteSteps, CleanSteps
    <2>3. Stored'
        <3>1. UNCHANGED <<releases, queue, storageVars, committed>>
            BY <1>3 DEF GetRelease
        <3> QED BY <3>1 DEF Stored, NoDanglingRelease, CommittedIsQueued, DeletesAreFinal
    <2> QED BY <2>1, <2>2, <2>3 DEF ArtifactsKept
<1>4. CASE VerifyRegistered(p)
    <2>1. Working(p)
        BY <1>4 DEF LockHolds, VerifyRegistered, Finish, Working, Locked
    <2>2. StepInv(p)'
        BY <1>4
           DEF VerifyRegistered, Finish, JobFits, JobNamesRelease,
               PublishSteps, DeleteSteps, CleanSteps
    <2>3. Stored'
        <3>1. UNCHANGED <<releases, queue, storageVars, committed>>
            BY <1>4 DEF VerifyRegistered
        <3> QED BY <3>1 DEF Stored, NoDanglingRelease, CommittedIsQueued, DeletesAreFinal
    <2> QED BY <2>1, <2>2, <2>3 DEF ArtifactsKept
<1>5. CASE Upload(p)
    <2>1. Working(p)
        BY <1>5 DEF LockHolds, Upload, Finish, Working, Locked
    <2>2. StepInv(p)'
        BY <1>5
           DEF Upload, WriteObject, Finish, JobFits, JobNamesRelease,
               PublishSteps, DeleteSteps, CleanSteps
    <2>3. Stored'
        BY <1>5
           DEF Upload, WriteObject, Finish, JobFits, JobNamesRelease,
               PublishSteps, DeleteSteps, CleanSteps, Stored,
               NoDanglingRelease, CommittedIsQueued, DeletesAreFinal
    <2> QED BY <2>1, <2>2, <2>3 DEF ArtifactsKept
<1>6. CASE VerifyUpload(p)
    <2>1. Working(p)
        BY <1>6 DEF LockHolds, VerifyUpload, Finish, Working, Locked
    <2>2. StepInv(p)'
        BY <1>6
           DEF VerifyUpload, Finish, JobFits, JobNamesRelease, PublishSteps,
               DeleteSteps, CleanSteps
    <2>3. Stored'
        <3>1. UNCHANGED <<releases, queue, storageVars, committed>>
            BY <1>6 DEF VerifyUpload
        <3> QED BY <3>1 DEF Stored, NoDanglingRelease, CommittedIsQueued, DeletesAreFinal
    <2> QED BY <2>1, <2>2, <2>3 DEF ArtifactsKept
<1>7. CASE UpsertModule(p)
    <2>1. Working(p)
        BY <1>7 DEF LockHolds, UpsertModule, Finish, Working, Locked
    <2>2. StepInv(p)'
        BY <1>7
           DEF UpsertModule, UpsertRow, Finish, JobFits, JobNamesRelease,
               PublishSteps, DeleteSteps, CleanSteps
    <2>3. Stored'
        <3>1. UNCHANGED <<releases, queue, storageVars, committed>>
            BY <1>7 DEF UpsertModule, UpsertRow
        <3> QED BY <3>1 DEF Stored, NoDanglingRelease, CommittedIsQueued, DeletesAreFinal
    <2> QED BY <2>1, <2>2, <2>3 DEF ArtifactsKept
<1>8. CASE CreateRelease(p)
    <2>1. Working(p)
        BY <1>8 DEF LockHolds, CreateRelease, Finish, Working, Locked
    <2>2. StepInv(p)'
        BY <1>8
           DEF CreateRelease, CommitRelease, MayCreate, LocalPath, Finish,
               JobFits, JobNamesRelease, PublishSteps, DeleteSteps, CleanSteps
    <2>3. Stored'
        BY <1>8
           DEF CreateRelease, CommitRelease, MayCreate, LocalPath, Finish,
               JobFits, JobNamesRelease, PublishSteps, DeleteSteps,
               CleanSteps, Stored, NoDanglingRelease,
               CommittedIsQueued, DeletesAreFinal
    <2> QED BY <2>1, <2>2, <2>3 DEF ArtifactsKept
<1>9. CASE ConfirmRelease(p)
    <2>1. Working(p)
        BY <1>9
           DEF LockHolds, ConfirmRelease, Finish, SqlReadFails,
               Working, Locked
    <2>2. StepInv(p)'
        BY <1>9
           DEF ConfirmRelease, IsRegistered, Finish, SqlReadFails, JobFits,
               JobNamesRelease, PublishSteps, DeleteSteps, CleanSteps,
               Stored, NoDanglingRelease
    <2>3. Stored'
        <3>1. UNCHANGED <<releases, queue, storageVars, committed>>
            BY <1>9 DEF ConfirmRelease
        <3> QED BY <3>1 DEF Stored, NoDanglingRelease, CommittedIsQueued, DeletesAreFinal
    <2> QED BY <2>1, <2>2, <2>3 DEF ArtifactsKept
<1>10. CASE RemoveUncommitted(p)
    <2>1. Working(p)
        BY <1>10
           DEF LockHolds, RemoveUncommitted, DeleteObject,
               DeleteObjectFails, Working, Locked
    <2>2. StepInv(p)'
        BY <1>10
           DEF RemoveUncommitted, DeleteObject, DeleteObjectFails, JobFits,
               JobNamesRelease, PublishSteps, DeleteSteps, CleanSteps
    <2>3. Stored'
        BY <1>10
           DEF RemoveUncommitted, DeleteObject, DeleteObjectFails, JobFits,
               JobNamesRelease, PublishSteps, DeleteSteps, CleanSteps, Stored,
               NoDanglingRelease, CommittedIsQueued, DeletesAreFinal
    <2> QED BY <2>1, <2>2, <2>3 DEF ArtifactsKept
<1>11. CASE RemoveEmptyModule(p)
    <2>1. Working(p)
        BY <1>11 DEF LockHolds, RemoveEmptyModule, Working, Locked
    <2>2. StepInv(p)'
        BY <1>11
           DEF RemoveEmptyModule, DeleteModuleIfEmpty, DropModuleRow, JobFits,
               JobNamesRelease, PublishSteps, DeleteSteps, CleanSteps
    <2>3. Stored'
        <3>1. UNCHANGED <<releases, queue, storageVars, committed>>
            BY <1>11 DEF RemoveEmptyModule, DeleteModuleIfEmpty
        <3> QED BY <3>1 DEF Stored, NoDanglingRelease, CommittedIsQueued, DeletesAreFinal
    <2> QED BY <2>1, <2>2, <2>3 DEF ArtifactsKept
<1> QED
    BY <1>3, <1>4, <1>5, <1>6, <1>7, <1>8, <1>9, <1>10, <1>11

\* DeleteRelease(IfAllowed) and DeleteModule(IfAllowed).
LEMMA DeleteKeepsArtifacts ==
    ASSUME LockHolds, TypeInv, ArtifactInv, NEW p \in Proc, Frame(p),
           \/ GetModule(p) \/ ListReleases(p) \/ CheckActive(p)
           \/ Delete(p)
    PROVE  Working(p) /\ ArtifactsKept(p)
<1>1. /\ pc \in [Proc -> Locked \cup Unlocked] /\ answer \in [Proc -> Answers]
      /\ job \in [Proc -> Job] /\ releases \in [Version -> ReleaseRow]
    BY DEF TypeInv, TypeOK
<1>2. JobFits(p) /\ StepInv(p) /\ Stored
    BY DEF TypeInv, ArtifactInv, Stored
<1> USE <1>1, <1>2 DEF StepInv, ObjectPath, Referenced, IsArtifactReferenced, Path
<1>3. CASE GetModule(p)
    <2>1. Working(p)
        BY <1>3
           DEF LockHolds, GetModule, Finish, SqlReadFails, Working,
               Locked
    <2>2. StepInv(p)'
        BY <1>3
           DEF GetModule, Finish, SqlReadFails, JobFits, JobNamesRelease,
               PublishSteps, DeleteSteps, CleanSteps
    <2>3. Stored'
        <3>1. UNCHANGED <<releases, queue, storageVars, committed>>
            BY <1>3 DEF GetModule
        <3> QED BY <3>1 DEF Stored, NoDanglingRelease, CommittedIsQueued, DeletesAreFinal
    <2> QED BY <2>1, <2>2, <2>3 DEF ArtifactsKept
<1>4. CASE ListReleases(p)
    <2>1. Working(p)
        BY <1>4
           DEF LockHolds, ListReleases, Finish, SqlReadFails, Working,
               Locked
    <2>2. StepInv(p)'
        BY <1>4
           DEF ListReleases, Finish, SqlReadFails, JobFits, JobNamesRelease,
               PublishSteps, DeleteSteps, CleanSteps
    <2>3. Stored'
        <3>1. UNCHANGED <<releases, queue, storageVars, committed>>
            BY <1>4 DEF ListReleases
        <3> QED BY <3>1 DEF Stored, NoDanglingRelease, CommittedIsQueued, DeletesAreFinal
    <2> QED BY <2>1, <2>2, <2>3 DEF ArtifactsKept
<1>5. CASE CheckActive(p)
    <2>1. Working(p)
        BY <1>5
           DEF LockHolds, CheckActive, Finish, SqlReadFails, Working,
               Locked
    <2>2. StepInv(p)'
        BY <1>5
           DEF CheckActive, Finish, SqlReadFails, JobFits, JobNamesRelease,
               PublishSteps, DeleteSteps, CleanSteps
    <2>3. Stored'
        <3>1. UNCHANGED <<releases, queue, storageVars, committed>>
            BY <1>5 DEF CheckActive
        <3> QED BY <3>1 DEF Stored, NoDanglingRelease, CommittedIsQueued, DeletesAreFinal
    <2> QED BY <2>1, <2>2, <2>3 DEF ArtifactsKept
<1>6. CASE Delete(p)
    <2>1. Working(p)
        BY <1>6 DEF LockHolds, Delete, Finish, Working, Locked
    <2>2. StepInv(p)'
        BY <1>6
           DEF Delete, DeleteTx, DeleteReleaseTx, DeleteModuleTx, LocalPath,
               Finish, JobFits, JobNamesRelease, PublishSteps, DeleteSteps,
               CleanSteps
    <2>3. Stored'
        <3>1. UNCHANGED storageVars
            BY <1>6 DEF Delete
        <3>2. CASE UNCHANGED <<sqlVars, committed>>
            BY <3>1, <3>2 DEF Stored, NoDanglingRelease, CommittedIsQueued, DeletesAreFinal
        <3>3. CASE DeleteReleaseTx(job[p].ver) /\ job[p].ver \in Version
            BY <3>1, <3>3, ConstantsAssumption
               DEF DeleteReleaseTx, LocalPath, Stored, NoDanglingRelease,
                   CommittedIsQueued, DeletesAreFinal
        <3>4. CASE DeleteModuleTx
            BY <3>1, <3>4, ConstantsAssumption
               DEF DeleteModuleTx, Stored, NoDanglingRelease,
                   CommittedIsQueued, DeletesAreFinal
        <3> QED
            BY <1>6, <3>2, <3>3, <3>4 DEF Delete, DeleteTx, JobFits, JobNamesRelease
    <2> QED BY <2>1, <2>2, <2>3 DEF ArtifactsKept
<1> QED
    BY <1>3, <1>4, <1>5, <1>6

\* IndexUpstreamModule.
LEMMA IndexKeepsArtifacts ==
    ASSUME LockHolds, TypeInv, ArtifactInv, NEW p \in Proc, Frame(p),
           \/ IndexNext(p) \/ IndexCreate(p) \/ RereadRelease(p)
           \/ RewriteRelease(p)
    PROVE  Working(p) /\ ArtifactsKept(p)
<1>1. /\ pc \in [Proc -> Locked \cup Unlocked] /\ answer \in [Proc -> Answers]
      /\ job \in [Proc -> Job] /\ releases \in [Version -> ReleaseRow]
    BY DEF TypeInv, TypeOK
<1>2. JobFits(p) /\ StepInv(p) /\ Stored
    BY DEF TypeInv, ArtifactInv, Stored
<1> USE <1>1, <1>2 DEF StepInv, ObjectPath, Referenced, IsArtifactReferenced, Path
<1>3. CASE IndexNext(p)
    <2>1. Working(p)
        BY <1>3
           DEF LockHolds, IndexNext, Finish, SqlReadFails, Working,
               Locked
    <2>2. StepInv(p)'
        BY <1>3
           DEF IndexNext, TakeItem, Finish, SqlReadFails, JobFits,
               JobNamesRelease, PublishSteps, DeleteSteps, CleanSteps
    <2>3. Stored'
        <3>1. UNCHANGED <<releases, queue, storageVars, committed>>
            BY <1>3 DEF IndexNext
        <3> QED BY <3>1 DEF Stored, NoDanglingRelease, CommittedIsQueued, DeletesAreFinal
    <2> QED BY <2>1, <2>2, <2>3 DEF ArtifactsKept
<1>4. CASE IndexCreate(p)
    <2>1. Working(p)
        BY <1>4 DEF LockHolds, IndexCreate, Indexed, Finish, Working, Locked
    <2>2. StepInv(p)'
        BY <1>4
           DEF IndexCreate, Indexed, CommitRelease, MayCreate, LocalPath, Finish,
               JobFits, JobNamesRelease, PublishSteps, DeleteSteps, CleanSteps
    <2>3. Stored'
        <3>1. UNCHANGED storageVars
            BY <1>4 DEF IndexCreate
        <3>2. CASE UNCHANGED <<releases, queue, committed>>
            BY <3>1, <3>2 DEF Stored, NoDanglingRelease, CommittedIsQueued, DeletesAreFinal
        <3>3. CASE CommitRelease(job[p])
            <4>1. job[p].ver \in Version /\ job[p].sha = Upstream /\ ~job[p].force
                BY <1>4 DEF IndexCreate, JobFits, JobNamesRelease
            <4>2. /\ releases[job[p].ver] = NoRelease
                  /\ releases' = [releases EXCEPT ![job[p].ver] = Upstream]
                  /\ queue' = queue /\ committed' = committed
                BY <3>3, <4>1, ConstantsAssumption
                   DEF CommitRelease, MayCreate, LocalPath
            <4>3. Referenced' = Referenced
                BY <4>1, <4>2, ConstantsAssumption
            <4> QED
                BY <3>1, <4>2, <4>3
                   DEF Stored, NoDanglingRelease, CommittedIsQueued, DeletesAreFinal
        <3> QED BY <1>4, <3>2, <3>3 DEF IndexCreate
    <2> QED BY <2>1, <2>2, <2>3 DEF ArtifactsKept
<1>5. CASE RereadRelease(p)
    <2>1. Working(p)
        BY <1>5
           DEF LockHolds, RereadRelease, Finish, SqlReadFails, Working,
               Locked
    <2>2. StepInv(p)'
        BY <1>5
           DEF RereadRelease, SameArtifact, Finish, SqlReadFails, JobFits,
               JobNamesRelease, PublishSteps, DeleteSteps, CleanSteps
    <2>3. Stored'
        <3>1. UNCHANGED <<releases, queue, storageVars, committed>>
            BY <1>5 DEF RereadRelease
        <3> QED BY <3>1 DEF Stored, NoDanglingRelease, CommittedIsQueued, DeletesAreFinal
    <2> QED BY <2>1, <2>2, <2>3 DEF ArtifactsKept
<1>6. CASE RewriteRelease(p)
    <2>1. Working(p)
        BY <1>6 DEF LockHolds, RewriteRelease, Finish, Working, Locked
    <2>2. StepInv(p)'
        BY <1>6
           DEF RewriteRelease, Finish, JobFits, JobNamesRelease, PublishSteps,
               DeleteSteps, CleanSteps
    <2>3. UNCHANGED <<releases, storageVars, queue, committed>>
        <3>1. job[p].ver \in Version /\ job[p].sha = Upstream
            BY <1>6 DEF RewriteRelease, JobFits, JobNamesRelease
        <3>2. releases[job[p].ver] = Upstream
            BY <1>6 DEF RewriteRelease
        <3>3. CASE CommitRelease(job[p])
            BY <1>6, <3>1, <3>2, <3>3, ConstantsAssumption
               DEF CommitRelease, LocalPath, RewriteRelease
        <3> QED BY <1>6, <3>3 DEF RewriteRelease
    <2>4. Stored'
        BY <2>3 DEF Stored, NoDanglingRelease, CommittedIsQueued, DeletesAreFinal
    <2> QED BY <2>1, <2>2, <2>4 DEF ArtifactsKept
<1> QED
    BY <1>3, <1>4, <1>5, <1>6

\* processArtifactDeletion and repairOrphanArtifact.
LEMMA CleanKeepsArtifacts ==
    ASSUME LockHolds, TypeInv, ArtifactInv, NEW p \in Proc, Frame(p),
           \/ Recheck(p) \/ RemoveSucceeds(p) \/ RemoveFails(p)
           \/ CompleteArtifactDeletion(p)
    PROVE  Working(p) /\ ArtifactsKept(p)
<1>1. /\ pc \in [Proc -> Locked \cup Unlocked] /\ answer \in [Proc -> Answers]
      /\ job \in [Proc -> Job] /\ releases \in [Version -> ReleaseRow]
    BY DEF TypeInv, TypeOK
<1>2. JobFits(p) /\ StepInv(p) /\ Stored
    BY DEF TypeInv, ArtifactInv, Stored
<1> USE <1>1, <1>2 DEF StepInv, ObjectPath, Referenced, IsArtifactReferenced, Path
<1>3. CASE Recheck(p)
    <2>1. Working(p)
        BY <1>3
           DEF LockHolds, Recheck, Finish, SqlReadFails, Working,
               Locked
    <2>2. StepInv(p)'
        BY <1>3
           DEF Recheck, Finish, SqlReadFails, Queued, JobFits,
               JobNamesRelease, PublishSteps, DeleteSteps, CleanSteps
    <2>3. Stored'
        <3>1. UNCHANGED <<releases, queue, storageVars, committed>>
            BY <1>3 DEF Recheck
        <3> QED BY <3>1 DEF Stored, NoDanglingRelease, CommittedIsQueued, DeletesAreFinal
    <2> QED BY <2>1, <2>2, <2>3 DEF ArtifactsKept
<1>4. CASE RemoveSucceeds(p)
    <2>1. Working(p)
        BY <1>4
           DEF LockHolds, RemoveSucceeds, DeleteObject, Finish,
               Working, Locked
    <2>2. StepInv(p)'
        BY <1>4
           DEF RemoveSucceeds, DeleteObject, Finish, Queued, JobFits,
               JobNamesRelease, PublishSteps, DeleteSteps, CleanSteps
    <2>3. Stored'
        BY <1>4
           DEF RemoveSucceeds, DeleteObject, Finish, Queued, JobFits,
               JobNamesRelease, PublishSteps, DeleteSteps, CleanSteps, Stored,
               NoDanglingRelease, CommittedIsQueued, DeletesAreFinal
    <2> QED BY <2>1, <2>2, <2>3 DEF ArtifactsKept
<1>5. CASE RemoveFails(p)
    <2>1. Working(p)
        BY <1>5
           DEF LockHolds, RemoveFails, DeleteObject, DeleteObjectFails,
               Finish, Working, Locked
    <2>2. StepInv(p)'
        BY <1>5
           DEF RemoveFails, DeleteObject, DeleteObjectFails, Finish, Queued,
               JobFits, JobNamesRelease, PublishSteps, DeleteSteps, CleanSteps
    <2>3. Stored'
        BY <1>5
           DEF RemoveFails, DeleteObject, DeleteObjectFails, Finish, Queued,
               JobFits, JobNamesRelease, PublishSteps, DeleteSteps,
               CleanSteps, Stored, NoDanglingRelease,
               CommittedIsQueued, DeletesAreFinal
    <2> QED BY <2>1, <2>2, <2>3 DEF ArtifactsKept
<1>6. CASE CompleteArtifactDeletion(p)
    <2>1. Working(p)
        BY <1>6
           DEF LockHolds, CompleteArtifactDeletion, Finish, Working,
               Locked
    <2>2. StepInv(p)'
        BY <1>6
           DEF CompleteArtifactDeletion, CompleteRow, Finish, Queued, JobFits,
               JobNamesRelease, PublishSteps, DeleteSteps, CleanSteps
    <2>3. Stored'
        BY <1>6
           DEF CompleteArtifactDeletion, CompleteRow, Finish, Queued, JobFits,
               JobNamesRelease, PublishSteps, DeleteSteps, CleanSteps, Stored,
               NoDanglingRelease, CommittedIsQueued, DeletesAreFinal
    <2> QED BY <2>1, <2>2, <2>3 DEF ArtifactsKept
<1> QED
    BY <1>3, <1>4, <1>5, <1>6

\* What happens around the handlers: a delete that lands late takes away an
\* object that nothing here relies on.
LEMMA EnvironmentKeepsArtifacts ==
    ASSUME LockHolds, ArtifactInv, Environment
    PROVE  ArtifactInv'
<1> USE DEF ArtifactInv, LockInv, StepInv, ObjectPath, NoDanglingRelease, CommittedIsQueued,
            Referenced, IsArtifactReferenced
<1>1. CASE StragglerLands
    <2>1. PICK x \in stragglers : objects' = objects \ {x} /\ committed' = committed \ {x}
        BY <1>1 DEF StragglerLands
    <2>2. UNCHANGED <<releases, queue, inDoubt, lock, pc, job, answer>>
        BY <1>1 DEF StragglerLands
    <2>3. ~DeletesAreFinal
        BY <2>1
    <2>4. \A p \in Proc : StepInv(p)'
        BY <2>1, <2>2, <2>3 DEF DeletesAreFinal
    <2> QED BY <2>1, <2>2, <2>3, <2>4 DEF DeletesAreFinal
<1>2. CASE ~StragglerLands
    <2>1. UNCHANGED <<releases, queue, committed, inDoubt, storageVars, lock, pc, job, answer>>
        BY <1>2 DEF LockHolds, Environment, MarkReleaseUsed, PurgeTombstone, LoseLock, DecideCommit
    <2> QED BY <2>1 DEF DeletesAreFinal
<1> QED BY <1>1, <1>2

\* ArtifactInv holds at first and is kept by every step.
LEMMA ArtifactInvInductive ==
    ASSUME LockHolds
    PROVE  /\ Init => ArtifactInv
           /\ TypeInv /\ ArtifactInv /\ [Next]_vars => ArtifactInv'
<1>1. ASSUME Init PROVE ArtifactInv
    BY <1>1, ConstantsAssumption
       DEF Init, ArtifactInv, LockInv, StepInv, Locked, NoJob, NoDanglingRelease,
           CommittedIsQueued, DeletesAreFinal, Referenced, IsArtifactReferenced, Path
<1>2. ASSUME TypeInv, ArtifactInv, NEW p \in Proc, ProcessStep(p)
      PROVE  ArtifactInv'
    <2>1. TypesKept(p) /\ TypeInv'
        BY <1>2, StartTypes, LoopTypes, PublishTypes, DeleteStepTypes, IndexTypes,
           CleanTypes, TypesKeptSuffices
           DEF ProcessStep, PublishStep, DeleteStep, IndexStep, CleanStep
    <2>2. Frame(p)
        BY <2>1 DEF TypesKept
    <2> QED
        BY <1>2, <2>1, <2>2, OutsideSteps, WorkingSuffices, PublishKeepsArtifacts,
           DeleteKeepsArtifacts, IndexKeepsArtifacts, CleanKeepsArtifacts
           DEF ProcessStep, PublishStep, DeleteStep, IndexStep, CleanStep
<1>3. ASSUME ArtifactInv, UNCHANGED vars PROVE ArtifactInv'
    BY <1>3 DEF vars, ArtifactInv, LockInv, StepInv, ObjectPath, NoDanglingRelease,
                CommittedIsQueued, DeletesAreFinal, Referenced, IsArtifactReferenced
<1> QED
    BY <1>1, <1>2, <1>3, EnvironmentKeepsArtifacts DEF Next

\* What the invariant says of artifacts.
LEMMA ArtifactInvImplies ==
    ASSUME TypeInv, ArtifactInv
    PROVE  /\ SupersededArtifactStaysQueued /\ CompensationLeavesNothing /\ OneWriter
           /\ DeletesAreFinal => NoDanglingRelease /\ AcknowledgedReleaseIsStored
BY DEF TypeInv, TypeOK, ArtifactInv, LockInv, StepInv, CommittedIsQueued, Locked,
       SupersededArtifactStaysQueued, AcknowledgedReleaseIsStored,
       CompensationLeavesNothing, OneWriter

\* As long as a failed COMMIT and a failed object delete have no effect later and
\* the lock is not lost: no committed local release row names an object that is
\* gone (publish, processArtifactDeletion, repairOrphanArtifact).
THEOREM NoReleaseDangles ==
    ASSUME FailuresAreFinal
    PROVE  Spec => []NoDanglingRelease
BY TypeInvInductive, ArtifactInvInductive, ArtifactInvImplies, PTL DEF Spec, FailuresAreFinal

\* Under the same faults: a publisher told "created" finds its bytes registered
\* and stored when its lock is released (publish).
THEOREM PublishOutcomeIsTrue ==
    ASSUME FailuresAreFinal
    PROVE  Spec => []AcknowledgedReleaseIsStored
BY TypeInvInductive, ArtifactInvInductive, ArtifactInvImplies, PTL DEF Spec, FailuresAreFinal

\* Also when object deletes land after their callers gave them up: an object
\* whose release was deleted or superseded stays queued until it is deleted
\* (createRelease, DeleteRelease, DeleteModule, CompleteArtifactDeletion).
THEOREM NoArtifactIsForgotten ==
    ASSUME LockHolds
    PROVE  Spec => []SupersededArtifactStaysQueued
BY TypeInvInductive, ArtifactInvInductive, ArtifactInvImplies, PTL DEF Spec

\* Also when object deletes land late: a publish that failed and was compensated
\* leaves neither its object nor its row behind (compensatePublishFailure).
THEOREM CompensationIsComplete ==
    ASSUME LockHolds
    PROVE  Spec => []CompensationLeavesNothing
BY TypeInvInductive, ArtifactInvInductive, ArtifactInvImplies, PTL DEF Spec

\* What the run with late deletes checks follows from the two
\* (module_service.go, publish).
THEOREM LateDeletesForgetNothing ==
    ASSUME LockHolds
    PROVE  Spec => []NothingForgottenThoughLate
BY NoArtifactIsForgotten, CompensationIsComplete, PTL DEF NothingForgottenThoughLate

\* As long as the lock's session and the outcome of a COMMIT are sure: two
\* operations never work under the module lock at once (LockModule,
\* releaseModuleLock).
THEOREM MutualExclusion ==
    ASSUME LockHolds
    PROVE  Spec => []OneWriter
BY TypeInvInductive, ArtifactInvInductive, ArtifactInvImplies, PTL DEF Spec

\* Whatever fails, the lock's session and the outcome of a COMMIT included,
\* the bytes that a local release row names change only by a management
\* replacement: the create-only INSERT of createRelease protects them, not the
\* module lock.  Only a hydration, whose write is not create-only, depends on
\* the lock (CreateReleaseIfAbsent, hydrateUpstreamRelease).
THEOREM BytesAreImmutable ==
    ASSUME "hydrate" \in Operations => LockHolds
    PROVE  Spec => OnlyReplacementChangesBytes
<1>1. ASSUME TypeInv, NEW v \in Version, BytesChange(v), Next,
             LockHolds => ArtifactInv
      PROVE  Replaces(v)
    <2> USE DEF BytesChange, Replaces
    <2>1. ASSUME NEW p \in Proc, CreateRelease(p), CommitRelease(job[p])
          PROVE  Replaces(v)
        <3>1. job[p].ver = v /\ job[p].force
            BY <1>1, <2>1, CommittedRow DEF TypeInv
        <3>2. pc[p] = "create" /\ pc'[p] # "create"
            BY <1>1, <2>1 DEF CreateRelease, Finish, TypeInv, TypeOK
        <3> QED BY <3>1, <3>2
    <2>2. ASSUME NEW p \in Proc, IndexCreate(p), CommitRelease(job[p])
          PROVE  FALSE
        <3>1. ~job[p].force
            BY <1>1, <2>2 DEF TypeInv, JobFits, JobNamesRelease, IndexCreate
        <3> QED BY <1>1, <2>2, <3>1, CommittedRow DEF TypeInv
    <2>5. ASSUME NEW p \in Proc, RewriteRelease(p), CommitRelease(job[p])
          PROVE  FALSE
        <3>1. job[p].op = "hydrate" /\ "hydrate" \in Operations
            BY <1>1, <2>5 DEF TypeInv, JobFits, JobNamesRelease, RewriteRelease
        <3>2. ArtifactInv
            BY <1>1, <3>1
        <3>3. releases[job[p].ver] = Upstream
            BY <2>5, <3>2 DEF ArtifactInv, StepInv, RewriteRelease
        <3>4. job[p].ver = v
            BY <1>1, <2>5, CommittedRow DEF TypeInv
        <3> QED BY <1>1, <3>3, <3>4, ConstantsAssumption
    <2>3. ASSUME NEW j, DeleteTx(j) PROVE FALSE
        BY <1>1, <2>3, DeletedRow DEF TypeInv
    <2>4. ASSUME DecideCommit, CommitRelease(inDoubt) PROVE Replaces(v)
        <3>1. inDoubt # NoTx /\ JobNamesRelease(inDoubt) /\ inDoubt.force
            BY <1>1, <2>4, CommittedRow DEF TypeInv, DecideCommit, InDoubtFits
        <3>2. inDoubt.op \notin {"index", "restore", "hydrate"}
            <4>1. inDoubt.op # "hydrate"
                BY <1>1, <3>1 DEF JobNamesRelease, ArtifactInv
            <4> QED BY <3>1, <4>1 DEF JobNamesRelease
        <3>3. CASE DeleteTx(inDoubt)
            BY <2>3, <3>3
        <3>4. CASE inDoubt.op \in CreateOperations
            BY <3>1, <3>2, <3>4 DEF CreateOperations
        <3> QED BY <1>1, <2>4, <3>3, <3>4 DEF DecideCommit, BytesChange
    <2> QED BY <1>1, <2>1, <2>2, <2>3, <2>4, <2>5, WhoChangesRows
<1>2. TypeInv /\ (LockHolds => ArtifactInv) /\ [Next]_vars => [BytesKept]_vars
    BY <1>1 DEF BytesKept
<1>3. Spec => []TypeInv
    BY TypeInvInductive, PTL DEF Spec
<1>4. Spec => [](LockHolds => ArtifactInv)
    <2>1. CASE LockHolds
        <3>1. Spec => []ArtifactInv
            BY <2>1, TypeInvInductive, ArtifactInvInductive, PTL DEF Spec
        <3> QED BY <3>1, PTL
    <2>2. CASE ~LockHolds
        BY <2>2, PTL
    <2> QED BY <2>1, <2>2
<1> QED
    BY <1>2, <1>3, <1>4, PTL DEF Spec, OnlyReplacementChangesBytes

\* As long as the lock holds: a hydration neither brings back a deleted release
\* nor undoes a replacement (hydrateUpstreamRelease, sameReleaseArtifact).
THEOREM HydrationIsHarmless ==
    ASSUME LockHolds
    PROVE  Spec => HydrationKeepsRows
<1> DEFINE Kept == \A p \in Proc : pc[p] = "rewrite" /\ pc'[p] = "unlock"
                                      => releases' = releases
<1>1. ASSUME TypeInv, ArtifactInv, Next, NEW p \in Proc,
             pc[p] = "rewrite", pc'[p] = "unlock"
      PROVE  releases' = releases
    <2>1. SUFFICES ASSUME RewriteRelease(p), CommitRelease(job[p])
                   PROVE  releases' = releases
        <3>1. ASSUME NEW q \in Proc, CreateRelease(q) \/ IndexCreate(q) \/ Delete(q)
              PROVE  FALSE
            BY <1>1, <3>1 DEF CreateRelease, IndexCreate, Delete, Indexed, Finish,
                              TypeInv, TypeOK
        <3>2. ASSUME NEW q \in Proc, RewriteRelease(q) PROVE q = p
            BY <1>1, <3>2 DEF RewriteRelease, Finish, TypeInv, TypeOK
        <3>3. ~DecideCommit
            BY <1>1 DEF ArtifactInv, DecideCommit
        <3> QED BY <1>1, <3>1, <3>2, <3>3, WhoChangesRows
    <2>2. releases[job[p].ver] = job[p].sha
        BY <1>1, <2>1 DEF TypeInv, JobFits, JobNamesRelease, ArtifactInv, StepInv
    <2> QED BY <1>1, <2>1, <2>2 DEF CommitRelease, TypeInv, TypeOK
<1>2. TypeInv /\ ArtifactInv /\ [Next]_vars => [Kept]_vars
    BY <1>1
<1>3. Spec => []TypeInv /\ []ArtifactInv
    BY TypeInvInductive, ArtifactInvInductive, PTL DEF Spec
<1> QED
    BY <1>2, <1>3, PTL DEF Spec, HydrationKeepsRows

-----------------------------------------------------------------------------
(* The latest version                                                      *)

\* postgresLatestVersion returns the only version that no other exceeds.
LEMMA GreatestIsUnique ==
    ASSUME NEW S, S \subseteq Version, NEW m \in S, \A n \in S : n <= m
    PROVE  Greatest(S) = m
<1>1. Greatest(S) \in S /\ \A n \in S : n <= Greatest(S)
    BY GreatestIsMember
<1>2. Greatest(S) \in Nat /\ m \in Nat /\ Greatest(S) <= m /\ m <= Greatest(S)
    BY <1>1, ConstantsAssumption
<1> QED BY <1>2

\* latestVersionWithCandidate finds the greatest version when a row is added or
\* replaced.
LEMMA CommitKeepsLatest ==
    ASSUME TypeOK, LatestIsGreatest, moduleRow, NEW j \in Job, CommitRelease(j),
           j.ver \in Version, j.sha \in Content \cup {Upstream}
    PROVE  LatestIsGreatest'
<1>1. Present' = Present \cup {j.ver}
    BY ConstantsAssumption DEF TypeOK, CommitRelease, Present
<1>2. /\ Present' \subseteq Version
      /\ \A n \in Version : n \in Nat /\ n > 0
    BY <1>1, ConstantsAssumption DEF Present
<1>3. latest' = (IF j.ver > latest THEN j.ver ELSE latest)
    BY DEF CommitRelease, LatestWith
<1>4. latest' \in Present' /\ \A n \in Present' : n <= latest'
    <2>1. CASE Present = {}
        BY <1>1, <1>2, <1>3, <2>1 DEF LatestIsGreatest, Greatest
    <2>2. CASE Present # {}
        <3>1. latest \in Present /\ \A n \in Present : n <= latest
            BY <1>1, <1>2, <2>2, GreatestIsMember DEF LatestIsGreatest
        <3> QED BY <1>1, <1>2, <1>3, <3>1
    <2> QED BY <2>1, <2>2
<1>5. Greatest(Present') = latest'
    BY <1>2, <1>4, GreatestIsUnique
<1> QED BY <1>5 DEF LatestIsGreatest, CommitRelease, Greatest

\* DeleteRelease finds the greatest version of the rows left, DeleteModule and
\* the delete of the last row remove the modules row with every ID read from it.
LEMMA DeleteKeepsLatest ==
    ASSUME TypeOK, RowsInv, NEW j \in Job, DeleteTx(j),
           j.op = "deleteRelease" => j.ver \in Version
    PROVE  LatestIsGreatest' /\ \A p \in Proc : fk'[p] => moduleRow'
<1>1. CASE DeleteReleaseTx(j.ver) /\ j.ver \in Version
    <2>1. Present' = Present \ {j.ver} /\ j.ver \in Present
        BY <1>1 DEF DeleteReleaseTx, Present, TypeOK
    <2>2. CASE Present = {j.ver}
        BY <1>1, <2>1, <2>2 DEF DeleteReleaseTx, DropModuleRow, LatestIsGreatest, Greatest
    <2>3. CASE Present # {j.ver}
        BY <1>1, <2>1, <2>3 DEF DeleteReleaseTx, RowsInv, LatestIsGreatest
    <2> QED BY <2>2, <2>3
<1>2. CASE DeleteModuleTx
    <2>1. Present' = {}
        BY <1>2 DEF DeleteModuleTx, Present
    <2> QED BY <1>2, <2>1 DEF DeleteModuleTx, DropModuleRow, LatestIsGreatest, Greatest
<1> QED BY <1>1, <1>2 DEF DeleteTx

\* RowsInv is kept by what leaves the tables alone and gives nobody an ID.
LEMMA RowsInvFrame ==
    ASSUME RowsInv, UNCHANGED <<releases, latest, moduleRow, inDoubt>>,
           \A p \in Proc : fk'[p] => fk[p] \/ moduleRow
    PROVE  RowsInv'
BY DEF RowsInv, LatestIsGreatest, Present

\* The calls of a publish, an index and a hydration that write a row.
LEMMA CreatesKeepRows ==
    ASSUME TypeInv, RowsInv, NEW p \in Proc,
           CreateRelease(p) \/ IndexCreate(p) \/ RewriteRelease(p)
    PROVE  RowsInv'
<1>1. job[p] \in Job /\ job[p].ver \in Version /\ job[p].sha \in Content \cup {Upstream}
    BY DEF TypeInv, TypeOK, JobFits, JobNamesRelease, PublishSteps, CreateRelease,
           IndexCreate, RewriteRelease
<1>2. CASE fk[p] /\ CommitRelease(job[p]) /\ UNCHANGED inDoubt
    <2>1. moduleRow
        BY <1>2 DEF RowsInv
    <2>2. LatestIsGreatest'
        BY <1>1, <1>2, <2>1, CommitKeepsLatest DEF TypeInv, RowsInv
    <2> QED BY <1>2, <2>1, <2>2 DEF CommitRelease, RowsInv
<1>3. CASE UNCHANGED <<sqlVars, fk>> /\ (UNCHANGED inDoubt \/ fk[p])
    BY <1>3 DEF RowsInv, LatestIsGreatest, Present
<1> QED
    BY <1>2, <1>3 DEF CreateRelease, IndexCreate, RewriteRelease, CreateRejected

\* The delete transactions.
LEMMA DeletesKeepRows ==
    ASSUME TypeInv, RowsInv, NEW p \in Proc, Delete(p)
    PROVE  RowsInv'
<1>1. job[p] \in Job /\ (job[p].op = "deleteRelease" => job[p].ver \in Version)
    BY DEF TypeInv, TypeOK, JobFits, JobNamesRelease
<1>2. job[p].op \in {"deleteRelease", "deleteModule"}
    BY DEF TypeInv, JobFits, DeleteSteps, Delete
<1>3. CASE DeleteTx(job[p]) /\ RowsFree /\ UNCHANGED inDoubt
    BY <1>1, <1>3, DeleteKeepsLatest DEF TypeInv, RowsInv, RowsFree
<1>4. CASE UNCHANGED <<sqlVars, fk>> /\ (UNCHANGED inDoubt \/ inDoubt' = job[p])
    BY <1>2, <1>4 DEF RowsInv, LatestIsGreatest, Present, CreateOperations
<1> QED
    BY <1>3, <1>4 DEF Delete

\* What happens around the handlers.
LEMMA EnvironmentKeepsRows ==
    ASSUME TypeInv, RowsInv, Environment
    PROVE  RowsInv'
<1>1. CASE DecideCommit
    <2>1. inDoubt \in Job /\ JobNamesRelease(inDoubt) /\ inDoubt # NoTx /\ inDoubt' = NoTx
        BY <1>1 DEF TypeInv, TypeOK, InDoubtFits, DecideCommit
    <2>2. CASE inDoubt.op \in CreateOperations /\ CommitRelease(inDoubt)
        <3>1. inDoubt.ver \in Version /\ inDoubt.sha \in Content \cup {Upstream}
            BY <2>1, <2>2 DEF TypeInv, InDoubtFits, JobNamesRelease, CreateOperations
        <3>2. LatestIsGreatest'
            BY <2>1, <2>2, <3>1, CommitKeepsLatest DEF TypeInv, RowsInv
        <3> QED BY <2>1, <2>2, <3>2 DEF CommitRelease, RowsInv
    <2>3. CASE DeleteTx(inDoubt)
        BY <2>1, <2>3, DeleteKeepsLatest DEF TypeInv, JobNamesRelease, RowsInv
    <2>4. CASE UNCHANGED <<sqlVars, fk>>
        BY <2>1, <2>4 DEF RowsInv, LatestIsGreatest, Present
    <2> QED BY <1>1, <2>2, <2>3, <2>4 DEF DecideCommit
<1>2. CASE ~DecideCommit
    BY <1>2, RowsInvFrame DEF Environment, MarkReleaseUsed, PurgeTombstone, LoseLock, StragglerLands
<1> QED BY <1>1, <1>2

\* RowsInv holds at first and is kept by every step.
LEMMA RowsInvInductive ==
    /\ Init => RowsInv
    /\ TypeInv /\ RowsInv /\ [Next]_vars => RowsInv'
<1>1. ASSUME Init PROVE RowsInv
    BY <1>1 DEF Init, RowsInv, LatestIsGreatest, Greatest, Present
<1>2. ASSUME TypeInv, RowsInv, NEW p \in Proc, ProcessStep(p) PROVE RowsInv'
    <2> USE <1>2
    <2>1. CASE Retire(p) /\ UNCHANGED <<sqlVars, inDoubt>>
        BY <2>1, RowsInvFrame DEF Retire, TypeInv, TypeOK
    <2>2. CASE LockModule(p) \/ LockModuleFails(p) \/ Unlock(p) \/ Crash(p)
        BY <2>1, <2>2, RowsInvFrame DEF LockModule, LockModuleFails, Unlock, Crash
    <2>3. CASE CreateRelease(p) \/ IndexCreate(p) \/ RewriteRelease(p)
        BY <2>3, CreatesKeepRows
    <2>4. CASE Delete(p)
        BY <2>4, DeletesKeepRows
    <2>5. CASE UpsertModule(p)
        <3>1. CASE UpsertRow(p)
            BY <2>5, <3>1 DEF UpsertModule, UpsertRow, TypeInv, TypeOK, RowsInv, LatestIsGreatest, Present
        <3> QED BY <2>5, <3>1, RowsInvFrame DEF UpsertModule
    <2>6. CASE RemoveEmptyModule(p)
        <3>1. CASE RowsFree /\ moduleRow /\ Present = {} /\ DropModuleRow /\ UNCHANGED releases
            BY <2>6, <3>1 DEF RemoveEmptyModule, DropModuleRow, RowsFree, RowsInv, LatestIsGreatest,
                              Greatest, Present
        <3> QED BY <2>6, <3>1, RowsInvFrame DEF RemoveEmptyModule, DeleteModuleIfEmpty
    <2>7. CASE RereadRelease(p)
        <3>1. CASE SameArtifact(job[p]) /\ fk' = [fk EXCEPT ![p] = TRUE]
            <4>1. job[p].ver \in Version
                BY <2>7 DEF TypeInv, JobFits, JobNamesRelease, RereadRelease
            <4>2. moduleRow
                BY <3>1, <4>1, ConstantsAssumption DEF SameArtifact, RowsInv, LatestIsGreatest, Present
            <4> QED BY <2>7, <4>2, RowsInvFrame DEF RereadRelease
        <3> QED BY <2>7, <3>1, RowsInvFrame DEF RereadRelease
    <2>8. CASE \/ GetRelease(p) \/ VerifyRegistered(p) \/ Upload(p) \/ VerifyUpload(p) \/ StartPublish(p)
               \/ ConfirmRelease(p) \/ RemoveUncommitted(p)
        BY <2>8, RowsInvFrame
           DEF GetRelease, VerifyRegistered, Upload, VerifyUpload, StartPublish, Start, ConfirmRelease,
               RemoveUncommitted
    <2>9. CASE \/ StartDelete(p) \/ GetModule(p) \/ ListReleases(p) \/ CheckActive(p)
               \/ StartIndex(p) \/ StartRestore(p) \/ StartHydrate(p) \/ IndexNext(p)
        BY <2>9, RowsInvFrame
           DEF StartDelete, GetModule, ListReleases, CheckActive, StartIndex, StartRestore, StartHydrate,
               Start, IndexNext
    <2>10. CASE CleanStep(p)
        BY <2>1, <2>10, RowsInvFrame
           DEF CleanStep, ListArtifactDeletions, ListArtifactReleases, Start, ListObjects, NextItem,
               Recheck, RemoveSucceeds, RemoveFails, CompleteArtifactDeletion, CompleteRow
    <2> QED
        BY <2>2, <2>3, <2>4, <2>5, <2>6, <2>7, <2>8, <2>9, <2>10
           DEF ProcessStep, PublishStep, DeleteStep, IndexStep
<1>3. ASSUME RowsInv, UNCHANGED vars PROVE RowsInv'
    BY <1>3, RowsInvFrame DEF vars
<1> QED
    BY <1>1, <1>2, <1>3, EnvironmentKeepsRows DEF Next

\* As long as the lock holds: modules.latest_version is the greatest version that
\* has a row (finishReleaseMutation, DeleteRelease, DeleteModuleIfEmpty).  The
\* greatest version is selected and written by two statements of a transaction,
\* which are one step here because the lock keeps other transactions out between
\* them; RowsInv takes the transaction as that step, so the assumption is what
\* the step owes to the code and no part of the proof.
THEOREM LatestIsRight ==
    ASSUME LockHolds
    PROVE  Spec => []LatestIsGreatest
<1>1. RowsInv => LatestIsGreatest
    BY DEF RowsInv
<1> QED BY <1>1, TypeInvInductive, RowsInvInductive, PTL DEF Spec

-----------------------------------------------------------------------------
(* Checks made under the lock                                              *)

\* The steps that no process takes under the lock, LockModule aside.
Outside(p) ==
    \/ StartPublish(p) \/ StartDelete(p) \/ StartIndex(p)
    \/ StartRestore(p) \/ StartHydrate(p)
    \/ ListArtifactDeletions(p) \/ ListArtifactReleases(p)
    \/ ListObjects(p) \/ NextItem(p) \/ LockModuleFails(p)

\* While q works under the lock the steps of the others show it nothing.
LEMMA OthersStayOutside ==
    ASSUME TypeInv, LockInv, NEW p \in Proc, NEW q \in Proc, p # q, lock = q,
           ProcessStep(p)
    PROVE  /\ UNCHANGED sqlVars
           /\ scan'[q] = scan[q] /\ usedAtLock'[q] = usedAtLock[q]
<1>1. pc[p] \notin Locked /\ lock # NoProc
    BY ConstantsAssumption DEF LockInv
<1>2. Outside(p) \/ Crash(p)
    BY <1>1
       DEF ProcessStep, PublishStep, DeleteStep, IndexStep, CleanStep, Outside, Locked, LockModule, LockFree,
           Unlock, GetRelease, VerifyRegistered, Upload, VerifyUpload, UpsertModule, CreateRelease,
           ConfirmRelease, RemoveUncommitted, RemoveEmptyModule, GetModule, ListReleases, CheckActive,
           Delete, IndexNext, IndexCreate, RereadRelease, RewriteRelease, Recheck, RemoveSucceeds,
           RemoveFails, CompleteArtifactDeletion
<1> QED
    BY <1>2
       DEF TypeInv, TypeOK, Outside, Crash, StartPublish, StartDelete, StartIndex, StartRestore,
           StartHydrate, Start, ListArtifactDeletions, ListArtifactReleases, ListObjects, NextItem,
           LockModuleFails, Retire

\* A step of a process keeps what its own checks have found.
LEMMA OwnChecksHold ==
    ASSUME TypeInv, RowsInv, CheckInv, NEW p \in Proc, ProcessStep(p), TypesKept(p)
    PROVE  CheckHolds(p)'
<1> USE DEF TypeInv, TypeOK
<1>1. CheckHolds(p) /\ JobFits(p) /\ JobFits(p)'
    BY DEF CheckInv, TypesKept
<1>2. CASE LockModule(p)
    <2>1. CASE job[p].op \in {"deleteRelease", "deleteModule"}
        BY <1>2, <2>1 DEF LockModule, EntryPoint, CheckHolds, DeleteSteps
    <2>2. CASE job[p].op \notin {"deleteRelease", "deleteModule"}
        <3>1. job[p].op \in AllOperations /\ job'[p] = job[p]
            BY <1>1, <1>2 DEF LockModule, JobFits, Job
        <3>2. pc'[p] \in {"getRelease", "upsert", "reread", "recheck"}
            BY <1>2, <2>2, <3>1 DEF LockModule, EntryPoint, AllOperations
        <3> QED BY <3>2 DEF CheckHolds, DeleteSteps
    <2> QED BY <2>1, <2>2
<1>3. CASE GetModule(p)
    BY <1>1, <1>3 DEF GetModule, SqlReadFails, CheckHolds, DeleteSteps, JobFits, Present
<1>4. CASE ListReleases(p)
    BY <1>1, <1>4 DEF ListReleases, SqlReadFails, CheckHolds, DeleteSteps, JobFits, Present
<1>5. CASE CheckActive(p)
    BY <1>1, <1>5 DEF CheckActive, IsReleaseActive, SqlReadFails, CheckHolds, DeleteSteps, JobFits, Present
<1>6. CASE IndexNext(p)
    BY <1>1, <1>6 DEF IndexNext, IsReleaseDeleted, TakeItem, SqlReadFails, CheckHolds, DeleteSteps, JobFits
<1>7. CASE UpsertModule(p)
    BY <1>1, <1>7 DEF UpsertModule, CheckHolds, DeleteSteps
<1>8. CASE pc'[p] \notin DeleteSteps \cup {"indexCreate"}
    BY <1>8 DEF CheckHolds, DeleteSteps
<1>9. CASE Outside(p) \/ Unlock(p) \/ Crash(p)
    BY <1>8, <1>9
       DEF Outside, Unlock, Crash, StartPublish, StartDelete, StartIndex, StartRestore,
           StartHydrate, ListArtifactDeletions, ListArtifactReleases, ListObjects, NextItem,
           LockModuleFails, Retire, DeleteSteps
<1>10. CASE \/ GetRelease(p) \/ VerifyRegistered(p) \/ Upload(p) \/ VerifyUpload(p) \/ CreateRelease(p)
            \/ ConfirmRelease(p) \/ RemoveUncommitted(p) \/ RemoveEmptyModule(p)
    BY <1>8, <1>10
       DEF GetRelease, VerifyRegistered, Upload, VerifyUpload, CreateRelease, ConfirmRelease,
           RemoveUncommitted, RemoveEmptyModule, SqlReadFails, DeleteSteps
<1>11. CASE \/ Delete(p) \/ IndexCreate(p) \/ RereadRelease(p) \/ RewriteRelease(p) \/ Recheck(p)
            \/ RemoveSucceeds(p) \/ RemoveFails(p) \/ CompleteArtifactDeletion(p)
    BY <1>8, <1>11
       DEF Delete, IndexCreate, Indexed, RereadRelease, RewriteRelease, Recheck, RemoveSucceeds,
           RemoveFails, CompleteArtifactDeletion, SqlReadFails, DeleteSteps
<1> QED
    BY <1>2, <1>3, <1>4, <1>5, <1>6, <1>7, <1>9, <1>10, <1>11
       DEF ProcessStep, PublishStep, DeleteStep, IndexStep, CleanStep, Outside

\* CheckInv holds at first and, as long as the lock holds, is kept by every step.
LEMMA CheckInvInductive ==
    ASSUME LockHolds
    PROVE  /\ Init => CheckInv
           /\ TypeInv /\ ArtifactInv /\ RowsInv /\ CheckInv /\ [Next]_vars => CheckInv'
<1>1. ASSUME Init PROVE CheckInv
    BY <1>1 DEF Init, CheckInv, CheckHolds, DeleteSteps
<1>2. ASSUME TypeInv, ArtifactInv, RowsInv, CheckInv, NEW p \in Proc, ProcessStep(p)
      PROVE  CheckInv'
    <2>1. TypesKept(p)
        BY <1>2, StartTypes, LoopTypes, PublishTypes, DeleteStepTypes, IndexTypes, CleanTypes
           DEF ProcessStep, PublishStep, DeleteStep, IndexStep, CleanStep
    <2>2. CheckHolds(p)'
        BY <1>2, <2>1, OwnChecksHold
    <2>3. ASSUME NEW q \in Proc, q # p PROVE CheckHolds(q)'
        <3>1. pc'[q] = pc[q] /\ job'[q] = job[q]
            BY <2>1, <2>3 DEF TypesKept, Frame
        <3>2. CASE pc[q] \notin DeleteSteps \cup {"indexCreate"}
            BY <3>1, <3>2 DEF CheckHolds, DeleteSteps
        <3>3. CASE pc[q] \in DeleteSteps \cup {"indexCreate"}
            <4>1. lock = q
                BY <1>2, <3>3 DEF ArtifactInv, LockInv, DeleteSteps, Locked
            <4>2. UNCHANGED sqlVars /\ scan'[q] = scan[q] /\ usedAtLock'[q] = usedAtLock[q]
                BY <1>2, <2>3, <4>1, OthersStayOutside DEF ArtifactInv
            <4> QED
                BY <1>2, <3>1, <4>2 DEF CheckInv, CheckHolds, Present
        <3> QED BY <3>2, <3>3
    <2> QED BY <2>2, <2>3 DEF CheckInv
<1>3. ASSUME ArtifactInv, CheckInv, Environment PROVE CheckInv'
    <2>1. CASE \E v \in Version : MarkReleaseUsed(v)
        BY <1>3, <2>1 DEF MarkReleaseUsed, CheckInv, CheckHolds, Present
    <2>2. CASE \E v \in Version : PurgeTombstone(v)
        BY <1>3, <2>2 DEF PurgeTombstone, CheckInv, CheckHolds, Present
    <2>3. CASE StragglerLands
        BY <1>3, <2>3 DEF StragglerLands, CheckInv, CheckHolds, Present
    <2> QED
        BY <1>3, <2>1, <2>2, <2>3 DEF Environment, LoseLock, DecideCommit, LockHolds, ArtifactInv
<1>4. ASSUME CheckInv, UNCHANGED vars PROVE CheckInv'
    BY <1>4 DEF vars, CheckInv, CheckHolds, Present
<1> QED
    BY <1>1, <1>2, <1>3, <1>4 DEF Next

\* As long as the lock holds: a delete without override removes neither the latest
\* release nor one that was in use when it took the lock, whatever is downloaded,
\* published or deleted meanwhile (DeleteReleaseIfAllowed, DeleteModuleIfAllowed).
THEOREM UnforcedDeletesAreSafe ==
    ASSUME LockHolds
    PROVE  Spec => UnforcedDeleteSparesLatestAndUsed
<1> DEFINE Spares ==
        \A p \in Proc : UnforcedDelete(p) =>
          /\ \A v \in usedAtLock[p] : releases'[v] = releases[v]
          /\ job[p].op = "deleteRelease" /\ releases' # releases => job[p].ver # Greatest(Present)
<1>1. ASSUME TypeInv, ArtifactInv, RowsInv, CheckInv, Next, NEW p \in Proc, UnforcedDelete(p)
      PROVE  /\ \A v \in usedAtLock[p] : releases'[v] = releases[v]
             /\ job[p].op = "deleteRelease" /\ releases' # releases => job[p].ver # Greatest(Present)
    <2>1. SUFFICES ASSUME Delete(p), DeleteTx(job[p])
                   PROVE  \A v \in usedAtLock[p] : releases'[v] = releases[v]
        <3>1. ASSUME NEW q \in Proc, CreateRelease(q) \/ IndexCreate(q) \/ RewriteRelease(q)
              PROVE  FALSE
            BY <1>1, <3>1 DEF UnforcedDelete, CreateRelease, IndexCreate, RewriteRelease, Indexed,
                              TypeInv, TypeOK
        <3>2. ASSUME NEW q \in Proc, Delete(q) PROVE q = p
            BY <1>1, <3>2 DEF UnforcedDelete, Delete, TypeInv, TypeOK
        <3>3. ~DecideCommit
            BY <1>1 DEF ArtifactInv, DecideCommit
        <3>4. job[p].op = "deleteRelease" => job[p].ver # Greatest(Present)
            BY <1>1 DEF CheckInv, CheckHolds, UnforcedDelete, RowsInv, LatestIsGreatest
        <3> QED BY <1>1, <3>1, <3>2, <3>3, <3>4, WhoChangesRows
    <2>2. CASE DeleteReleaseTx(job[p].ver) /\ job[p].op = "deleteRelease"
        <3>1. job[p].ver \notin usedAtLock[p]
            BY <1>1, <2>2 DEF CheckInv, CheckHolds, UnforcedDelete
        <3> QED BY <1>1, <2>2, <3>1 DEF DeleteReleaseTx, TypeInv, TypeOK
    <2>3. CASE DeleteModuleTx /\ job[p].op = "deleteModule"
        <3>1. Present \cap usedAtLock[p] = {}
            BY <1>1, <2>3 DEF CheckInv, CheckHolds, UnforcedDelete
        <3>2. usedAtLock[p] \subseteq Version
            BY <1>1 DEF TypeInv, TypeOK
        <3> QED BY <2>3, <3>1, <3>2 DEF DeleteModuleTx, Present
    <2> QED BY <2>1, <2>2, <2>3 DEF DeleteTx
<1>2. TypeInv /\ ArtifactInv /\ RowsInv /\ CheckInv /\ [Next]_vars => [Spares]_vars
    BY <1>1
<1>3. Spec => []TypeInv /\ []ArtifactInv /\ []RowsInv /\ []CheckInv
    BY TypeInvInductive, ArtifactInvInductive, RowsInvInductive, CheckInvInductive, PTL DEF Spec
<1> QED
    BY <1>2, <1>3, PTL DEF Spec, UnforcedDeleteSparesLatestAndUsed

\* As long as the lock holds: indexing never brings back a version whose tombstone
\* stands; only a restore does (IndexUpstreamModule, restoreUpstreamRelease).
THEOREM TombstonesStand ==
    ASSUME LockHolds
    PROVE  Spec => DeletedUpstreamStaysDeleted
<1> DEFINE Stays ==
        \A v \in tombstones : releases'[v] = Upstream => releases[v] = Upstream \/ Restores(v)
<1>1. ASSUME TypeInv, ArtifactInv, CheckInv, Next, NEW v \in tombstones,
             releases'[v] = Upstream, releases[v] # Upstream
      PROVE  Restores(v)
    <2> USE DEF TypeInv, TypeOK
    <2>1. v \in Version
        BY <1>1
    <2>2. ASSUME NEW p \in Proc, CommitRelease(job[p])
          PROVE  job[p].ver = v /\ job[p].sha = Upstream
        BY <1>1, <2>1, <2>2 DEF CommitRelease
    <2>3. ASSUME NEW p \in Proc, CreateRelease(p), CommitRelease(job[p]) PROVE FALSE
        BY <1>1, <2>2, <2>3, ConstantsAssumption DEF CreateRelease, JobFits, JobNamesRelease, PublishSteps
    <2>4. ASSUME NEW p \in Proc, IndexCreate(p), CommitRelease(job[p]) PROVE Restores(v)
        <3>1. job[p].op = "restore" /\ job[p].ver = v
            BY <1>1, <2>2, <2>4 DEF CheckInv, CheckHolds, IndexCreate, JobFits
        <3>2. pc[p] = "indexCreate"
            BY <2>4 DEF IndexCreate
        <3>3. pc'[p] = "unlock"
            <4>1. Indexed(p) => pc'[p] = "unlock"
                BY <1>1, <3>1 DEF Indexed
            <4>2. releases # releases'
                BY <1>1, <2>1
            <4> QED BY <1>1, <2>4, <4>1, <4>2 DEF IndexCreate
        <3> QED BY <3>1, <3>2, <3>3 DEF Restores
    <2>5. ASSUME NEW p \in Proc, RewriteRelease(p), CommitRelease(job[p]) PROVE FALSE
        BY <1>1, <2>2, <2>5 DEF RewriteRelease, ArtifactInv, StepInv
    <2>6. ASSUME NEW j, DeleteTx(j) PROVE FALSE
        BY <1>1, <2>1, <2>6, DeletedRow, ConstantsAssumption
    <2>7. ~DecideCommit
        BY <1>1 DEF ArtifactInv, DecideCommit
    <2> QED BY <1>1, <2>3, <2>4, <2>5, <2>6, <2>7, WhoChangesRows
<1>2. TypeInv /\ ArtifactInv /\ CheckInv /\ [Next]_vars => [Stays]_vars
    <2>1. UNCHANGED vars => UNCHANGED releases
        BY DEF vars
    <2> QED BY <1>1, <2>1
<1>3. Spec => []TypeInv /\ []ArtifactInv /\ []CheckInv
    BY TypeInvInductive, ArtifactInvInductive, RowsInvInductive, CheckInvInductive, PTL DEF Spec
<1> QED
    BY <1>2, <1>3, PTL DEF Spec, DeletedUpstreamStaysDeleted

-----------------------------------------------------------------------------
(* The abstract catalog                                                    *)

\* The objects change in an upload, in a removal, and when a late delete lands;
\* no such step touches a row.
LEMMA WhoChangesObjects ==
    ASSUME Next
    PROVE  \/ UNCHANGED objects
           \/ /\ UNCHANGED releases
              /\ \/ \E p \in Proc : Upload(p) /\ objects' = objects \cup {ObjectPath(p)}
                 \/ \E p \in Proc : /\ pc[p] \in {"removeUncommitted", "remove"}
                                    /\ objects' = objects \ {ObjectPath(p)}
                 \/ stragglers # {}
<1>1. CASE Environment
    BY <1>1 DEF Environment, MarkReleaseUsed, PurgeTombstone, LoseLock, DecideCommit, StragglerLands
<1>2. ASSUME NEW p \in Proc,
             LockModule(p) \/ LockModuleFails(p) \/ Unlock(p) \/ Crash(p)
      PROVE  UNCHANGED objects
    BY <1>2 DEF LockModule, LockModuleFails, Unlock, Crash
<1>3. ASSUME NEW p \in Proc, PublishStep(p), ~Upload(p), ~RemoveUncommitted(p)
      PROVE  UNCHANGED objects
    BY <1>3 DEF PublishStep, StartPublish, Start, GetRelease, VerifyRegistered, VerifyUpload,
                UpsertModule, CreateRelease, ConfirmRelease, RemoveEmptyModule
<1>4. ASSUME NEW p \in Proc, Upload(p)
      PROVE  UNCHANGED releases /\ (UNCHANGED objects \/ objects' = objects \cup {ObjectPath(p)})
    BY <1>4 DEF Upload, WriteObject
<1>5. ASSUME NEW p \in Proc, RemoveUncommitted(p) \/ RemoveSucceeds(p) \/ RemoveFails(p)
      PROVE  /\ pc[p] \in {"removeUncommitted", "remove"} /\ UNCHANGED releases
             /\ UNCHANGED objects \/ objects' = objects \ {ObjectPath(p)}
    BY <1>5 DEF RemoveUncommitted, RemoveSucceeds, RemoveFails, DeleteObject, DeleteObjectFails
<1>6. ASSUME NEW p \in Proc, DeleteStep(p) \/ IndexStep(p)
      PROVE  UNCHANGED objects
    BY <1>6 DEF DeleteStep, StartDelete, Start, GetModule, ListReleases, CheckActive, Delete,
                IndexStep, StartIndex, StartRestore, StartHydrate, IndexNext, IndexCreate,
                RereadRelease, RewriteRelease
<1>7. ASSUME NEW p \in Proc, CleanStep(p), ~RemoveSucceeds(p), ~RemoveFails(p)
      PROVE  UNCHANGED objects
    BY <1>7 DEF CleanStep, ListArtifactDeletions, ListArtifactReleases, Start, ListObjects,
                NextItem, Recheck, CompleteArtifactDeletion
<1> QED
    BY <1>1, <1>2, <1>3, <1>4, <1>5, <1>6, <1>7 DEF Next, ProcessStep

\* A step that changes a row registers stored bytes, indexes a free version,
\* withdraws a release or the module, or shows the catalog nothing.
LEMMA RowStepIsCatalogStep ==
    ASSUME TypeInv, ArtifactInv, DeletesAreFinal, Next, UNCHANGED objects
    PROVE  [Catalog!Next]_(Catalog!vars)
<1> USE DEF TypeInv, TypeOK, Catalog!vars
<1>1. CASE UNCHANGED releases
    BY <1>1
<1>2. ASSUME NEW p \in Proc, CreateRelease(p), CommitRelease(job[p])
      PROVE  Catalog!Next
    <2>1. job[p].ver \in Version /\ job[p].sha \in Content /\ ObjectPath(p) \in objects
        BY <1>2 DEF CreateRelease, JobFits, JobNamesRelease, PublishSteps, ArtifactInv, StepInv
    <2>2. Catalog!Register(job[p].ver, job[p].sha)
        BY <1>2, <2>1 DEF CommitRelease, Catalog!Register, ObjectPath
    <2> QED BY <2>1, <2>2 DEF Catalog!Next
<1>3. ASSUME NEW p \in Proc, IndexCreate(p), CommitRelease(job[p])
      PROVE  Catalog!Next
    <2>1. job[p].ver \in Version /\ job[p].sha = Upstream /\ ~job[p].force
        BY <1>3 DEF IndexCreate, JobFits, JobNamesRelease
    <2>2. Catalog!Index(job[p].ver)
        BY <1>3, <2>1 DEF CommitRelease, MayCreate, Catalog!Index
    <2> QED BY <2>1, <2>2 DEF Catalog!Next
<1>4. ASSUME NEW p \in Proc, RewriteRelease(p), CommitRelease(job[p])
      PROVE  UNCHANGED releases
    BY <1>4 DEF RewriteRelease, CommitRelease, JobFits, JobNamesRelease, ArtifactInv, StepInv
<1>5. ASSUME NEW p \in Proc, Delete(p), DeleteTx(job[p])
      PROVE  Catalog!Next
    <2>1. CASE DeleteReleaseTx(job[p].ver) /\ job[p].op = "deleteRelease"
        <3>1. job[p].ver \in Version
            BY <2>1 DEF JobFits, JobNamesRelease
        <3>2. releases' = [v \in Version |-> IF v \in {job[p].ver} THEN NoRelease ELSE releases[v]]
            BY <2>1, <3>1 DEF DeleteReleaseTx
        <3> QED BY <3>1, <3>2 DEF Catalog!Next, Catalog!Withdraw
    <2>2. CASE DeleteModuleTx
        <3>1. releases' = [v \in Version |-> IF v \in Version THEN NoRelease ELSE releases[v]]
            BY <2>2 DEF DeleteModuleTx
        <3> QED BY <3>1 DEF Catalog!Next, Catalog!Withdraw
    <2> QED BY <1>5, <2>1, <2>2 DEF DeleteTx
<1>6. ~DecideCommit
    BY DEF ArtifactInv, DecideCommit
<1> QED
    BY <1>1, <1>2, <1>3, <1>4, <1>5, <1>6, WhoChangesRows

\* As long as failures are final, the handlers implement the abstract catalog:
\* whatever they interleave, a reader sees rows change one at a time over bytes
\* that are stored (module_service.go, reconcile.go).
THEOREM HandlersImplementCatalog ==
    ASSUME FailuresAreFinal
    PROVE  Spec => CatalogSpec
<1>1. Init => Catalog!Init
    BY DEF Init, Catalog!Init
<1>2. ASSUME TypeInv, ArtifactInv, Next
      PROVE  [Catalog!Next]_(Catalog!vars)
    <2> USE <1>2 DEF TypeInv, TypeOK
    <2>1. CASE UNCHANGED objects
        BY <2>1, RowStepIsCatalogStep DEF FailuresAreFinal
    <2>2. ASSUME NEW p \in Proc, UNCHANGED releases, Upload(p), objects' = objects \cup {ObjectPath(p)}
          PROVE  Catalog!Next
        <3>1. job[p].ver \in Version /\ job[p].sha \in Content
            BY <2>2 DEF Upload, JobFits, JobNamesRelease, PublishSteps
        <3> QED BY <2>2, <3>1 DEF Catalog!Next, Catalog!Store, ObjectPath
    <2>3. ASSUME NEW p \in Proc, UNCHANGED releases, pc[p] \in {"removeUncommitted", "remove"},
                 objects' = objects \ {ObjectPath(p)}
          PROVE  Catalog!Next
        <3>1. job[p].ver \in Version /\ job[p].sha \in Content
            <4>1. CASE pc[p] = "removeUncommitted"
                BY <4>1 DEF JobFits, JobNamesRelease, PublishSteps
            <4>2. CASE pc[p] = "remove"
                BY <4>2 DEF JobFits, CleanSteps, ObjectPath, Path
            <4> QED BY <2>3, <4>1, <4>2
        <3>2. releases[job[p].ver] # job[p].sha
            BY <2>3, <3>1 DEF ArtifactInv, StepInv, ObjectPath, Referenced, IsArtifactReferenced, Path,
                              JobFits, PublishSteps
        <3> QED BY <2>3, <3>1, <3>2 DEF Catalog!Next, Catalog!Collect, ObjectPath
    <2>4. stragglers = {}
        BY DEF ArtifactInv, FailuresAreFinal
    <2> QED BY <2>1, <2>2, <2>3, <2>4, WhoChangesObjects
<1>3. UNCHANGED vars => UNCHANGED Catalog!vars
    BY DEF vars, Catalog!vars
<1>4. Spec => []TypeInv /\ []ArtifactInv
    BY TypeInvInductive, ArtifactInvInductive, PTL DEF Spec, FailuresAreFinal
<1> QED
    BY <1>1, <1>2, <1>3, <1>4, PTL DEF Spec, CatalogSpec, Catalog!Spec
=============================================================================
