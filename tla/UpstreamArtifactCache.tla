----------------------- MODULE UpstreamArtifactCache -----------------------
(***************************************************************************)
(* The cached artifact of one upstream release: how replicas fetch it      *)
(* once, check and repair it, record its checksums in the release row and  *)
(* prune it when no row refers to it.                                      *)
(*                                                                         *)
(* An actor is a task (a request, or the pruner) or the single flight of a *)
(* replica, in which the requests of that replica wait for one load or one *)
(* integrity check.  Each call to SQL, to the object storage or to the     *)
(* upstream is a step.  The artifact lease is an SQL row with an expiry:   *)
(* its holder renews it, and stops working when a renewal fails.           *)
(***************************************************************************)
CONSTANTS
    Replica,     \* each has one flight for the object path
    Task,        \* requests and cleanup jobs
    Host,        \* [Task -> Replica], where a task runs
    Content,     \* the bytes an artifact may have
    NoObject, Unknown, NoRow, Free,
    Operations,  \* the tasks' operations
    Faults       \* the kinds of failure that may happen

AllOperations == {"ensure", "download", "prune"}

AllFaults ==
    {"callError",        \* a call fails or times out, with or without effect
     "renewal",          \* a renewal of the lease fails
     "crash",            \* a replica stops
     "pause",            \* a holder stands still until its lease has expired
     "corruption",       \* the cache starts with bytes that nobody fetched
     "upstreamDiffers"}  \* the upstream's checksum is not that of its file

Actor == Replica \cup Task

ASSUME ConstantsAssumption ==
    /\ Host \in [Task -> Replica]
    /\ Replica \cap Task = {}
    /\ Free \notin Actor
    /\ NoObject \notin Content /\ Unknown \notin Content
    /\ NoRow \notin [sha : Content \cup {Unknown}, path : BOOLEAN]
    /\ Operations \subseteq AllOperations /\ Faults \subseteq AllFaults

VARIABLES
    row,        \* the upstream release row: its checksum, and whether its
                \* storage_path refers to the cached object
    object,     \* the cached object
    old,        \* whether it is older than the retention of the cache
    upstream,   \* the bytes that the upstream serves
    lease,      \* app_leases: the holder of the artifact lease, or Free
    pc,
    job,        \* what an actor works on: [op, sha, path]
    retried,    \* the tasks in their second attempt
    bytes,      \* what an actor has read
    outcome,    \* what it will return once it has released the lease
    leased,     \* the actors that acquired the lease and renew it
    canceled    \* those of them whose renewal failed

remote == <<row, object, old, upstream>>
local  == <<job, retried, bytes, outcome, leased, canceled>>
vars   == <<remote, lease, pc, local>>

-----------------------------------------------------------------------------
Release == [sha : Content \cup {Unknown}, path : BOOLEAN]
Job     == [op : AllOperations \cup {"none", "load", "verify"},
            sha : Content \cup {Unknown}, path : BOOLEAN]
NoJob   == [op |-> "none", sha |-> Unknown, path |-> FALSE]

\* The steps that an actor takes under its lease context.
Work == {"recheck", "verify", "remove", "fetch", "upload", "present",
         "confirm", "discard", "digest", "record", "refcheck", "prune"}
Steps == Work \cup {"idle", "exists", "materialize", "await", "acquire",
                    "poll", "release"}

Goto(a, label) == pc' = [pc EXCEPT ![a] = label]

\* Return result, after releasing the lease.
Finish(a, result) == /\ outcome' = [outcome EXCEPT ![a] = result]
                     /\ Goto(a, "release")

\* Where a request goes on when its artifact is cached.  (Mutant: it reads
\* the object without the lease.)
DigestUnleased(t) == "digest"
AfterFlight(t)    == "acquire"

\* The actors of S are done, and the requests of W go on.
Retire(S, W) ==
    /\ pc' = [a \in Actor |-> IF a \in S THEN "idle"
                              ELSE IF a \in W THEN AfterFlight(a) ELSE pc[a]]
    /\ job' = [a \in Actor |-> IF a \in S THEN NoJob ELSE job[a]]
    /\ retried' = retried \ S
    /\ bytes' = [a \in Actor |-> IF a \in S THEN NoObject ELSE bytes[a]]
    /\ outcome' = [a \in Actor |-> IF a \in S THEN "none" ELSE outcome[a]]
    /\ leased' = leased \ S
    /\ canceled' = canceled \ S

\* The checksum that the upstream's metadata gives for its file.
Described == {Unknown, upstream} \cup
             (IF "upstreamDiffers" \in Faults THEN Content ELSE {})

\* There is an object, and it is what the actor expects.
IsCached(a) == object # NoObject
IsValid(a)  == job[a].sha \in {Unknown, object}

\* sameReleaseArtifact: the row is still the snapshot that the task read.  One
\* that was deleted and created again keeps its ID while its module remains.
\* (Mutant: any row is taken for it.)
IsAnyArtifact(a) == row # NoRow
SameArtifact(a)  == row = [sha |-> job[a].sha, path |-> job[a].path]

\* EnsureReleaseChecksums tries twice.  (Mutant: until it succeeds.)
AlwaysLeft(a)   == TRUE
AttemptsLeft(a) == a \notin retried

\* IsArtifactReferenced.
IsReferenced == row # NoRow /\ row.path

\* AcquireLease finds no lease, or an expired one.  (Mutant: it is not asked.)
LeaseIgnored == TRUE
LeaseFree    == lease = Free

\* Where an actor goes on when it holds the lease.
AfterLease(a) ==
    CASE job[a].op = "load"   -> "recheck"
      [] job[a].op = "verify" -> "verify"
      [] job[a].op = "ensure" -> "digest"
      [] job[a].op = "prune"  -> "refcheck"

Init ==
    /\ upstream \in Content
    /\ row \in {r \in Release : r.path => r.sha # Unknown} \cup {NoRow}
    /\ row # NoRow => row.sha \in Described
    /\ object \in Content \cup {NoObject}
    /\ object \in {NoObject, upstream} \/ "corruption" \in Faults
    /\ old \in BOOLEAN /\ (old => object # NoObject)
    /\ lease = Free
    /\ pc = [a \in Actor |-> "idle"]
    /\ job = [a \in Actor |-> NoJob]
    /\ retried = {}
    /\ bytes = [a \in Actor |-> NoObject]
    /\ outcome = [a \in Actor |-> "none"]
    /\ leased = {} /\ canceled = {}

-----------------------------------------------------------------------------
(* Tasks                                                                   *)

Begin(t, op, sha, path, label) ==
    /\ op \in Operations
    /\ pc[t] = "idle"
    /\ job' = [job EXCEPT ![t] = [op |-> op, sha |-> sha, path |-> path]]
    /\ Goto(t, label)
    /\ UNCHANGED <<remote, lease, retried, bytes, outcome, leased, canceled>>

\* EnsureReleaseChecksums, with the row that its caller has read.
StartEnsure(t) ==
    /\ row # NoRow
    /\ Begin(t, "ensure", row.sha, row.path,
             IF row.sha # Unknown /\ row.path THEN "exists" ELSE "materialize")

\* A recorded artifact that is still cached is served as it is; one that is
\* gone is materialized again, for a snapshot without its path.
CheckRecorded(t) ==
    /\ pc[t] = "exists" /\ t \in Task
    /\ IF IsCached(t)
       THEN Retire({t}, {})
       ELSE /\ job' = [job EXCEPT ![t].path = FALSE]
            /\ Goto(t, "materialize")
            /\ UNCHANGED <<retried, bytes, outcome, leased, canceled>>
    /\ UNCHANGED <<remote, lease>>

\* handleArtifactRequest, for an artifact that is not cached.
StartDownload(t) ==
    /\ object = NoObject
    /\ Begin(t, "download", Unknown, FALSE, "materialize")

\* PruneUpstreamArtifactCache comes across the object.  The cleanup job runs
\* on one replica at a time.
StartPrune(t) ==
    /\ object # NoObject /\ old
    /\ \A u \in Task : job[u].op # "prune"
    /\ Begin(t, "prune", Unknown, FALSE, "acquire")

\* EnsureArtifact and EnsureArtifactIntegrity: start the flight of the
\* replica, or join whichever is under way.
Materialize(t) ==
    LET r == Host[t]
        flight == [op |-> IF job[t].sha = Unknown THEN "load" ELSE "verify",
                   sha |-> job[t].sha, path |-> FALSE]
    IN
    /\ pc[t] = "materialize"
    /\ IF pc[r] = "idle"
       THEN /\ job' = [job EXCEPT ![r] = flight]
            /\ pc' = [pc EXCEPT ![t] = "await",
                         ![r] = IF flight.op = "load" THEN "exists" ELSE "acquire"]
       ELSE Goto(t, "await") /\ UNCHANGED job
    /\ UNCHANGED <<remote, lease, retried, bytes, outcome, leased, canceled>>

\* The client of a waiting request goes away; the flight goes on.
GiveUp(t) ==
    /\ pc[t] = "await"
    /\ "callError" \in Faults
    /\ Retire({t}, {})
    /\ UNCHANGED <<remote, lease>>

\* calculateReleaseChecksums: read the object.  A missing one, like a missing
\* row below, is ErrNotFound, after which EnsureReleaseChecksums tries again.
Digest(t) ==
    /\ pc[t] = "digest" /\ t \notin canceled
    /\ IF ~IsCached(t)
       THEN Finish(t, "again") /\ UNCHANGED bytes
       ELSE /\ bytes' = [bytes EXCEPT ![t] = object]
            /\ IF IsValid(t)
               THEN Goto(t, "record") /\ UNCHANGED outcome
               ELSE Finish(t, "failed")
    /\ UNCHANGED <<remote, lease, job, retried, leased, canceled>>

\* UpdateReleaseChecksums, in the module lock with the row read again.
RecordRow(t) ==
    IF SameArtifact(t)
    THEN row' = [sha |-> bytes[t], path |-> TRUE]
    ELSE UNCHANGED row
Record(t) ==
    /\ pc[t] = "record" /\ t \notin canceled
    /\ IF row = NoRow
       THEN Finish(t, "again") /\ UNCHANGED row
       ELSE Finish(t, "ok") /\ RecordRow(t)
    /\ UNCHANGED <<object, old, upstream, lease, job, retried, bytes, leased,
                   canceled>>

\* The pruner looks for references under the lease, then deletes.
CheckReference(t) ==
    /\ pc[t] = "refcheck" /\ t \notin canceled
    /\ IF IsReferenced
       THEN Finish(t, "ok")
       ELSE Goto(t, "prune") /\ UNCHANGED outcome
    /\ UNCHANGED <<remote, lease, job, retried, bytes, leased, canceled>>

DropObject == object' = NoObject /\ old' = FALSE

Prune(t) ==
    /\ pc[t] = "prune" /\ t \notin canceled
    /\ DropObject
    /\ Finish(t, "ok")
    /\ UNCHANGED <<row, upstream, lease, job, retried, bytes, leased, canceled>>

\* ReleaseLease deletes the row of its holder, or fails.
ReleaseLease(a) ==
    \/ lease' = IF lease = a /\ a \in leased THEN Free ELSE lease
    \/ "callError" \in Faults /\ UNCHANGED lease

\* The task returns, or starts its second attempt.
Return(t) ==
    /\ pc[t] = "release" /\ t \in Task
    /\ ReleaseLease(t)
    /\ IF outcome[t] = "again" /\ AttemptsLeft(t)
       THEN /\ Goto(t, "materialize")
            /\ outcome' = [outcome EXCEPT ![t] = "none"]
            /\ bytes' = [bytes EXCEPT ![t] = NoObject]
            /\ leased' = leased \ {t} /\ canceled' = canceled \ {t}
            /\ retried' = retried \cup {t}
            /\ UNCHANGED job
       ELSE Retire({t}, {})
    /\ UNCHANGED remote

-----------------------------------------------------------------------------
(* Flights: loadArtifact and the body of EnsureArtifactIntegrity           *)

\* loadArtifact: a cached object needs no lease.
CheckCached(r) ==
    /\ pc[r] = "exists" /\ r \in Replica
    /\ IF IsCached(r) THEN Finish(r, "ok")
                      ELSE Goto(r, "acquire") /\ UNCHANGED outcome
    /\ UNCHANGED <<remote, lease, job, retried, bytes, leased, canceled>>

\* A load that gets no lease looks for the object that its holder fetches, and
\* goes on without a lease when it is there.
Busy(r) ==
    /\ pc[r] = "acquire" /\ job[r].op = "load"
    /\ ~LeaseFree
    /\ Goto(r, "poll")
    /\ UNCHANGED <<remote, lease, local>>
Poll(r) ==
    /\ pc[r] = "poll"
    /\ Goto(r, IF IsCached(r) THEN "recheck" ELSE "acquire")
    /\ UNCHANGED <<remote, lease, local>>

Recheck(r) ==
    /\ pc[r] = "recheck" /\ r \notin canceled
    /\ IF IsCached(r) THEN Finish(r, "ok")
                      ELSE Goto(r, "fetch") /\ UNCHANGED outcome
    /\ UNCHANGED <<remote, lease, job, retried, bytes, leased, canceled>>

\* verifyCachedArtifact, before and after the fetch.
Verify(r) ==
    /\ pc[r] = "verify" /\ r \notin canceled
    /\ \/ IsCached(r) /\ IsValid(r) /\ Finish(r, "ok")
       \/ IsCached(r) /\ ~IsValid(r) /\ Goto(r, "remove") /\ UNCHANGED outcome
       \/ ~IsCached(r) /\ Goto(r, "fetch") /\ UNCHANGED outcome
    /\ UNCHANGED <<remote, lease, job, retried, bytes, leased, canceled>>

Remove(r) ==
    /\ pc[r] = "remove" /\ r \notin canceled
    /\ DropObject
    /\ Goto(r, "fetch")
    /\ UNCHANGED <<row, upstream, lease, local>>

\* fetchAndCacheArtifact: the request to the upstream, ...
Fetch(r) ==
    /\ pc[r] = "fetch" /\ r \notin canceled
    /\ bytes' = [bytes EXCEPT ![r] = upstream]
    /\ Goto(r, "upload")
    /\ UNCHANGED <<remote, lease, job, retried, outcome, leased, canceled>>

\* ... its body written to the storage, unless there is an object, ...
StoreBytes(r) ==
    IF IsCached(r) THEN UNCHANGED <<object, old>>
                   ELSE object' = bytes[r] /\ old' = FALSE
AfterUpload(r) ==
    \/ IsCached(r) /\ Goto(r, "present") /\ UNCHANGED outcome
    \/ ~IsCached(r) /\ job[r].op = "verify" /\ Goto(r, "confirm") /\ UNCHANGED outcome
    \/ ~IsCached(r) /\ job[r].op = "load" /\ Finish(r, "ok")
Upload(r) ==
    /\ pc[r] = "upload" /\ r \notin canceled
    /\ StoreBytes(r)
    /\ AfterUpload(r)
    /\ UNCHANGED <<row, upstream, lease, job, retried, bytes, leased, canceled>>

\* ... which then must still be there.
CheckPresent(r) ==
    /\ pc[r] = "present" /\ r \notin canceled
    /\ \/ IsCached(r) /\ job[r].op = "verify" /\ Goto(r, "confirm") /\ UNCHANGED outcome
       \/ IsCached(r) /\ job[r].op = "load" /\ Finish(r, "ok")
       \/ ~IsCached(r) /\ Finish(r, "failed")
    /\ UNCHANGED <<remote, lease, job, retried, bytes, leased, canceled>>

Confirm(r) ==
    /\ pc[r] = "confirm" /\ r \notin canceled
    /\ IF IsCached(r) /\ IsValid(r)
       THEN Finish(r, "ok")
       ELSE Goto(r, "discard") /\ UNCHANGED outcome
    /\ UNCHANGED <<remote, lease, job, retried, bytes, leased, canceled>>

Discard(r) ==
    /\ pc[r] = "discard" /\ r \notin canceled
    /\ DropObject
    /\ Finish(r, "failed")
    /\ UNCHANGED <<row, upstream, lease, job, retried, bytes, leased, canceled>>

\* The flight ends, and with it the wait of every request that joined it.
Land(r) ==
    LET waiting == {t \in Task : pc[t] = "await" /\ Host[t] = r}
        woken == {t \in waiting : outcome[r] = "ok" /\ job[t].op = "ensure"}
    IN
    /\ pc[r] = "release" /\ r \in Replica
    /\ ReleaseLease(r)
    /\ Retire({r} \cup (waiting \ woken), woken)
    /\ UNCHANGED remote

-----------------------------------------------------------------------------
(* The artifact lease, and what fails                                      *)

AcquireLease(a) ==
    /\ pc[a] = "acquire"
    /\ LeaseFree
    /\ lease' = a
    /\ leased' = leased \cup {a}
    /\ Goto(a, AfterLease(a))
    /\ UNCHANGED <<remote, job, retried, bytes, outcome, canceled>>

\* The wait for the lease is bounded.
WaitEnds(a) ==
    /\ pc[a] = "acquire"
    /\ ~LeaseFree
    /\ Finish(a, "failed")
    /\ UNCHANGED <<remote, lease, job, retried, bytes, leased, canceled>>

\* renewArtifactLease cancels the work of its holder, long before the lease
\* expires: it renews at every third of the duration.
RenewalFails(a) ==
    /\ "renewal" \in Faults
    /\ a \in leased \ canceled /\ pc[a] \in Work
    /\ canceled' = canceled \cup {a}
    /\ UNCHANGED <<remote, lease, pc, job, retried, bytes, outcome, leased>>

\* After a pause the renewal takes the expired lease again, or finds it taken.
RenewLate(a) ==
    /\ a \in leased \ canceled /\ lease # a
    /\ IF lease = Free
       THEN lease' = a /\ UNCHANGED canceled
       ELSE canceled' = canceled \cup {a} /\ UNCHANGED lease
    /\ UNCHANGED <<remote, pc, job, retried, bytes, outcome, leased>>

\* A lease expires when nobody renews it.
Expire ==
    /\ lease # Free
    /\ lease \notin leased \/ "pause" \in Faults
    /\ lease' = Free
    /\ UNCHANGED <<remote, pc, local>>

\* A call fails, because of the store or of the canceled context; a write may
\* have been applied all the same.
CallFails(a) ==
    /\ pc[a] \in Work \cup {"exists", "poll", "acquire"}
    /\ "callError" \in Faults \/ a \in canceled
    /\ \/ UNCHANGED remote
       \/ /\ pc[a] \in {"remove", "discard", "prune"}
          /\ DropObject /\ UNCHANGED <<row, upstream>>
       \/ /\ pc[a] = "upload"
          /\ StoreBytes(a) /\ UNCHANGED <<row, upstream>>
       \/ /\ pc[a] = "record" /\ row # NoRow
          /\ RecordRow(a) /\ UNCHANGED <<object, old, upstream>>
    /\ Finish(a, "failed")
    /\ UNCHANGED <<lease, job, retried, bytes, leased, canceled>>

\* A replica stops; the lease of what it ran stays until it expires.
Crash(r) ==
    LET gone == {r} \cup {t \in Task : Host[t] = r} IN
    /\ "crash" \in Faults
    /\ \E a \in gone : pc[a] # "idle"
    /\ Retire(gone, {})
    /\ UNCHANGED <<remote, lease>>

-----------------------------------------------------------------------------
(* Around them: DeleteRelease, createRelease for an upstream release, and   *)
(* time.  A flight lasts minutes at most, the retention of the cache days.  *)

DeleteRow ==
    /\ row # NoRow
    /\ row' = NoRow
    /\ UNCHANGED <<object, old, upstream, lease, pc, local>>

CreateRow ==
    /\ row = NoRow
    /\ \E sha \in Described : row' = [sha |-> sha, path |-> FALSE]
    /\ UNCHANGED <<object, old, upstream, lease, pc, local>>

Age ==
    /\ object # NoObject /\ ~old
    /\ \A r \in Replica : pc[r] = "idle"
    /\ old' = TRUE
    /\ UNCHANGED <<row, object, upstream, lease, pc, local>>

-----------------------------------------------------------------------------
TaskStep(t) ==
    \/ CheckRecorded(t) \/ Materialize(t) \/ Digest(t) \/ Record(t)
    \/ CheckReference(t) \/ Prune(t) \/ Return(t)

FlightStep(r) ==
    \/ CheckCached(r) \/ Busy(r) \/ Poll(r) \/ Recheck(r) \/ Verify(r)
    \/ Remove(r) \/ Fetch(r) \/ Upload(r) \/ CheckPresent(r) \/ Confirm(r)
    \/ Discard(r) \/ Land(r)

LeaseStep(a) ==
    \/ AcquireLease(a) \/ WaitEnds(a) \/ RenewalFails(a) \/ RenewLate(a)
    \/ CallFails(a)

Next ==
    \/ \E t \in Task : StartEnsure(t) \/ StartDownload(t) \/ StartPrune(t)
                       \/ GiveUp(t) \/ TaskStep(t)
    \/ \E r \in Replica : FlightStep(r) \/ Crash(r)
    \/ \E a \in Actor : LeaseStep(a)
    \/ Expire \/ DeleteRow \/ CreateRow \/ Age

Spec == Init /\ [][Next]_vars

\* A task and a flight in progress go on, the wait for the lease ends, and
\* canceled work stops.
Fairness ==
    /\ \A t \in Task : WF_vars(TaskStep(t))
    /\ \A r \in Replica : WF_vars(FlightStep(r))
    /\ \A a \in Actor : /\ SF_vars(AcquireLease(a) \/ WaitEnds(a))
                        /\ WF_vars(a \in canceled /\ CallFails(a))

FairSpec == Spec /\ Fairness

-----------------------------------------------------------------------------
(* Properties                                                              *)

\* Every variable keeps its type, and only who has acquired the lease has its
\* renewal canceled.
TypeOK ==
    /\ row \in Release \cup {NoRow}
    /\ object \in Content \cup {NoObject} /\ upstream \in Content
    /\ old \in BOOLEAN
    /\ lease \in Actor \cup {Free}
    /\ pc \in [Actor -> Steps]
    /\ job \in [Actor -> Job]
    /\ retried \subseteq Task
    /\ bytes \in [Actor -> Content \cup {NoObject}]
    /\ outcome \in [Actor -> {"none", "ok", "failed", "again"}]
    /\ canceled \subseteq leased /\ leased \subseteq Actor

\* A cold artifact is fetched once in the whole cluster: while one replica
\* fetches it, no other does, and nobody fetches one that is cached
\* (loadArtifact, EnsureArtifactIntegrity).
OneFetch ==
    \A a, b \in Actor : pc[a] = "upload" /\ pc[b] = "upload"
                            => a = b /\ object = NoObject

\* When a release row begins to refer to the cached object, that object is
\* there and has the checksum that the row records, whoever repairs or prunes
\* it meanwhile (calculateReleaseChecksums).
RecordedBytesAreStored ==
    [][row' # row /\ row' # NoRow /\ row'.path => object = row'.sha]_vars

\* Back-filling never replaces a checksum that the row already has, although
\* the row may be deleted and created again while an artifact is read, and a
\* check may have joined a load that verifies nothing (calculateReleaseChecksums,
\* EnsureArtifactIntegrity).
KnownChecksumsAreKept ==
    [][row # NoRow /\ row' # NoRow /\ row.sha # Unknown
          => row'.sha = row.sha]_vars

\* The pruner never deletes an object that a row refers to, although requests
\* record references all the time (PruneUpstreamArtifactCache).
PruneSparesReferenced ==
    [][\A t \in Task : pc[t] = "prune" /\ object' # object => ~IsReferenced]_vars

\* Every request, flight and prune returns, whatever is deleted under it and
\* whoever holds the lease (EnsureReleaseChecksums, acquireArtifactLease).
EveryActorReturns == \A a \in Actor : pc[a] # "idle" ~> pc[a] = "idle"

-----------------------------------------------------------------------------
(* The inductive invariants behind the theorems of                         *)
(* UpstreamArtifactCacheProofs                                             *)

\* An actor is at a step of its own operation, and what it is about to record
\* agrees with what its snapshot knew.
StepFits(a) ==
    /\ pc[a] \in {"materialize", "await"} => job[a].op \in {"ensure", "download"}
    /\ pc[a] = "exists" => job[a].op = IF a \in Task THEN "ensure" ELSE "load"
    /\ outcome[a] = "again" => pc[a] = "release" /\ job[a].op = "ensure"
    /\ pc[a] = "acquire" => job[a].op \in {"ensure", "prune", "load", "verify"}
    /\ pc[a] = "poll" => job[a].op = "load"
    /\ pc[a] \in {"recheck", "fetch", "upload", "present"}
           => job[a].op \in {"load", "verify"}
    /\ pc[a] \in {"verify", "remove", "confirm", "discard"} => job[a].op = "verify"
    /\ pc[a] \in {"digest", "record"} => job[a].op = "ensure"
    /\ pc[a] \in {"refcheck", "prune"} => job[a].op = "prune"
    /\ pc[a] = "upload" => bytes[a] \in Content
    /\ pc[a] = "record" => bytes[a] \in Content /\ job[a].sha \in {Unknown, bytes[a]}

TypeInv == TypeOK /\ \A a \in Actor : StepFits(a)

\* Whoever works on the object holds the lease, loads without one excepted;
\* what the holder has read stays true until it acts on it.
LeaseInv ==
    /\ \A a \in leased : lease = a
    /\ \A a \in Actor : pc[a] \in Work /\ job[a].op # "load" => a \in leased
    /\ \A a \in Actor : /\ pc[a] = "record" => object = bytes[a]
                        /\ pc[a] = "prune" => ~IsReferenced

\* Where the files are what the metadata says, a flight that goes on without the
\* lease has an object that stays: the pruner is only after an old one, and none
\* gets old while a flight is under way.  So who fetches holds the lease.
FetchFits(a) ==
    /\ job[a].sha \in {Unknown, upstream}
    /\ bytes[a] \in {NoObject, upstream}
    /\ pc[a] # "remove"
    /\ (job[a].op = "prune" => a \in Task) /\ (job[a].op = "load" => a \in Replica)
    /\ job[a].op = "prune" /\ pc[a] \in {"acquire", "refcheck", "prune"} => old
    /\ job[a].op = "load" /\ pc[a] \in {"acquire", "poll", "recheck"} => ~old
    /\ pc[a] = "recheck" /\ a \notin leased => object # NoObject
    /\ pc[a] \in {"fetch", "upload"} => a \in leased
    /\ pc[a] \in {"fetch", "upload", "discard"} => object = NoObject

FetchInv ==
    /\ object \in {NoObject, upstream} /\ (old => object # NoObject)
    /\ row # NoRow => row.sha \in {Unknown, upstream}
    /\ \A a \in Actor : FetchFits(a)
    /\ \A a, b \in Actor : job[a].op = "prune" /\ job[b].op = "prune" => a = b
=============================================================================
