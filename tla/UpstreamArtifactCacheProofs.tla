-------------------- MODULE UpstreamArtifactCacheProofs --------------------
(***************************************************************************)
(* Theorems about UpstreamArtifactCache, for any replicas, tasks and       *)
(* contents.  KnownChecksumsStay needs no lease and holds under every      *)
(* fault; the others need that a holder of the lease does not stand still  *)
(* until it expires, and FetchedOnce also that files and metadata agree.   *)
(***************************************************************************)
EXTENDS UpstreamArtifactCache, TLAPS

USE DEF Goto, Finish, remote, local

-----------------------------------------------------------------------------
(* Types                                                                   *)

\* The calls in an actor's own program, grouped by what they change.
Reads(a) ==
    \/ Digest(a) \/ CheckReference(a) \/ CheckCached(a) \/ Busy(a) \/ Poll(a)
    \/ Recheck(a) \/ Verify(a) \/ Fetch(a) \/ CheckPresent(a) \/ Confirm(a)
Writes(a) ==
    \/ Record(a) \/ Prune(a) \/ Remove(a) \/ Upload(a) \/ Discard(a) \/ CallFails(a)
Leases(a) == AcquireLease(a) \/ WaitEnds(a) \/ RenewalFails(a) \/ RenewLate(a)
Starts(t) == StartEnsure(t) \/ StartDownload(t) \/ StartPrune(t) \/ Materialize(t)
Ends(a) ==
    \/ a \in Task /\ (GiveUp(a) \/ CheckRecorded(a) \/ Return(a))
    \/ a \in Replica /\ (Land(a) \/ Crash(a))
Around == Expire \/ DeleteRow \/ CreateRow \/ Age

\* Next, by these groups.
LEMMA NextCases ==
    ASSUME Next
    PROVE  \/ \E a \in Actor : Reads(a) \/ Writes(a) \/ Leases(a) \/ Ends(a)
           \/ \E t \in Task : Starts(t)
           \/ Around
BY DEF Next, TaskStep, FlightStep, LeaseStep, Reads, Writes, Leases, Starts, Ends,
       Around, Actor

\* Retiring actors keeps the types, if those that go on are requests.
LEMMA RetireTypes ==
    ASSUME TypeInv, NEW S, NEW W, Retire(S, W),
           \A a \in W \ S : pc[a] = "await" /\ job[a].op = "ensure"
    PROVE  /\ pc' \in [Actor -> Steps]
           /\ job' \in [Actor -> Job]
           /\ bytes' \in [Actor -> Content \cup {NoObject}]
           /\ outcome' \in [Actor -> {"none", "ok", "failed", "again"}]
           /\ retried' \subseteq Task
           /\ canceled' \subseteq leased' /\ leased' \subseteq Actor
           /\ \A a \in Actor : StepFits(a)'
<1>1. /\ pc' \in [Actor -> Steps]
      /\ job' \in [Actor -> Job]
      /\ bytes' \in [Actor -> Content \cup {NoObject}]
      /\ outcome' \in [Actor -> {"none", "ok", "failed", "again"}]
    BY DEF TypeInv, TypeOK, Retire, AfterFlight, NoJob, Job, Steps, AllOperations
<1>2. /\ retried' \subseteq Task
      /\ canceled' \subseteq leased' /\ leased' \subseteq Actor
    BY DEF TypeInv, TypeOK, Retire
<1>3. ASSUME NEW a \in Actor PROVE StepFits(a)'
    <2>1. CASE a \in S
        BY <2>1 DEF Retire, StepFits
    <2>2. CASE a \in W \ S
        BY <2>2 DEF TypeInv, Retire, StepFits, AfterFlight
    <2>3. CASE a \notin S /\ a \notin W
        BY <2>3 DEF TypeInv, Retire, StepFits
    <2> QED BY <2>1, <2>2, <2>3
<1> QED BY <1>1, <1>2, <1>3

LEMMA ReadTypes ==
    ASSUME TypeInv, NEW a \in Actor, Reads(a)
    PROVE  TypeInv'
<1>1. TypeOK'
    BY DEF TypeInv, TypeOK, Reads, Digest, CheckReference, CheckCached, Busy, Poll,
           Recheck, Verify, Fetch, CheckPresent, Confirm, Steps, Work, IsCached
<1>2. \A b \in Actor \ {a} : StepFits(b)'
    BY DEF TypeInv, TypeOK, Reads, Digest, CheckReference, CheckCached, Busy, Poll,
           Recheck, Verify, Fetch, CheckPresent, Confirm, StepFits
<1>3. StepFits(a)'
    <2>1. CASE Digest(a)
        BY <2>1 DEF TypeInv, TypeOK, Digest, StepFits, IsCached, IsValid
    <2>2. CASE Fetch(a)
        BY <2>2 DEF TypeInv, TypeOK, Fetch, StepFits
    <2>3. CASE \/ CheckReference(a) \/ CheckCached(a) \/ Busy(a) \/ Poll(a)
               \/ Recheck(a) \/ Verify(a) \/ CheckPresent(a) \/ Confirm(a)
        BY <2>3 DEF TypeInv, TypeOK, CheckReference, CheckCached, Busy, Poll,
                    Recheck, Verify, CheckPresent, Confirm, StepFits
    <2> QED BY <2>1, <2>2, <2>3 DEF Reads
<1> QED BY <1>1, <1>2, <1>3 DEF TypeInv

LEMMA WriteTypes ==
    ASSUME TypeInv, NEW a \in Actor, Writes(a)
    PROVE  TypeInv'
<1>1. row' \in Release \cup {NoRow}
    <2>1. pc[a] = "record" => [sha |-> bytes[a], path |-> TRUE] \in Release
        BY DEF TypeInv, TypeOK, StepFits, Release
    <2> QED
        BY <2>1 DEF TypeInv, TypeOK, Writes, Record, Prune, Remove, Upload, Discard,
                    CallFails, RecordRow, DropObject, StoreBytes
<1>2. object' \in Content \cup {NoObject} /\ upstream' \in Content /\ old' \in BOOLEAN
    BY DEF TypeInv, TypeOK, Writes, Record, Prune, Remove, Upload, Discard,
           CallFails, RecordRow, DropObject, StoreBytes
<1>3. UNCHANGED <<lease, job, retried, bytes, leased, canceled>>
    BY DEF Writes, Record, Prune, Remove, Upload, Discard, CallFails
<1>4. /\ pc' \in [Actor -> Steps]
      /\ outcome' \in [Actor -> {"none", "ok", "failed", "again"}]
      /\ \A b \in Actor \ {a} : pc'[b] = pc[b] /\ outcome'[b] = outcome[b]
    BY DEF TypeInv, TypeOK, Writes, Record, Prune, Remove, Upload, Discard,
           CallFails, AfterUpload, Steps, Work
<1>5. StepFits(a)'
    BY DEF TypeInv, TypeOK, Writes, Record, Prune, Remove, Upload, Discard,
           CallFails, AfterUpload, StepFits
<1>6. \A b \in Actor \ {a} : StepFits(b)'
    BY <1>3, <1>4 DEF TypeInv, StepFits
<1> QED BY <1>1, <1>2, <1>3, <1>4, <1>5, <1>6 DEF TypeInv, TypeOK

LEMMA LeaseTypes ==
    ASSUME TypeInv, NEW a \in Actor, Leases(a)
    PROVE  TypeInv'
<1>1. pc[a] = "acquire" => AfterLease(a) \in {"recheck", "verify", "digest", "refcheck"}
    BY DEF TypeInv, StepFits, AfterLease
<1>2. TypeOK'
    BY <1>1 DEF TypeInv, TypeOK, Leases, AcquireLease, WaitEnds, RenewalFails,
                RenewLate, Steps, Work
<1>3. \A b \in Actor \ {a} : StepFits(b)'
    BY DEF TypeInv, TypeOK, Leases, AcquireLease, WaitEnds, RenewalFails, RenewLate,
           StepFits
<1>4. StepFits(a)'
    <2>1. CASE AcquireLease(a)
        BY <2>1 DEF TypeInv, TypeOK, AcquireLease, AfterLease, StepFits
    <2>2. CASE WaitEnds(a) \/ RenewalFails(a) \/ RenewLate(a)
        BY <2>2 DEF TypeInv, TypeOK, WaitEnds, RenewalFails, RenewLate, StepFits
    <2> QED BY <2>1, <2>2 DEF Leases
<1> QED BY <1>2, <1>3, <1>4 DEF TypeInv

LEMMA StartTypes ==
    ASSUME TypeInv, NEW t \in Task, Starts(t)
    PROVE  TypeInv'
<1>1. t \in Actor /\ Host[t] \in Replica /\ Host[t] \in Actor /\ Host[t] # t
    BY ConstantsAssumption DEF Actor
<1>2. CASE Materialize(t)
    <2> DEFINE r == Host[t]
    <2> DEFINE flight == [op |-> IF job[t].sha = Unknown THEN "load" ELSE "verify",
                          sha |-> job[t].sha, path |-> FALSE]
    <2>1. flight \in Job /\ flight.op \in {"load", "verify"}
        BY <1>1 DEF TypeInv, TypeOK, Job
    <2>2. CASE pc[r] = "idle"
        <3>1. job' = [job EXCEPT ![r] = flight]
            BY <1>2, <2>2 DEF Materialize
        <3>2. pc' = [pc EXCEPT ![t] = "await",
                               ![r] = IF flight.op = "load" THEN "exists" ELSE "acquire"]
            BY <1>2, <2>2 DEF Materialize
        <3>3. UNCHANGED <<remote, lease, retried, bytes, outcome, leased, canceled>>
            BY <1>2 DEF Materialize
        <3> HIDE DEF flight, r
        <3>4. TypeOK'
            BY <1>1, <2>1, <3>1, <3>2, <3>3 DEF TypeInv, TypeOK, Steps, r
        <3>5. StepFits(t)' /\ StepFits(r)'
            BY <1>1, <1>2, <2>1, <2>2, <3>1, <3>2, <3>3, ConstantsAssumption
               DEF TypeInv, TypeOK, StepFits, Materialize, r
        <3>6. \A a \in Actor \ {t, r} : StepFits(a)'
            BY <1>1, <3>1, <3>2, <3>3 DEF TypeInv, TypeOK, StepFits, r
        <3> QED BY <3>4, <3>5, <3>6 DEF TypeInv
    <2>3. CASE pc[r] # "idle"
        <3>1. pc' = [pc EXCEPT ![t] = "await"] /\ UNCHANGED job
            BY <1>2, <2>3 DEF Materialize
        <3> QED
            BY <1>1, <1>2, <3>1 DEF Materialize, TypeInv, TypeOK, StepFits, Steps
    <2> QED BY <2>2, <2>3
<1>3. CASE StartEnsure(t) \/ StartDownload(t) \/ StartPrune(t)
    <2>1. PICK op \in AllOperations, sha \in Content \cup {Unknown}, path \in BOOLEAN,
               label \in {"exists", "materialize", "acquire"} :
              /\ Begin(t, op, sha, path, label)
              /\ label = "exists" => op = "ensure"
              /\ label = "materialize" => op \in {"ensure", "download"}
              /\ label = "acquire" => op = "prune"
        <3>1. CASE StartEnsure(t)
            <4>1. row.sha \in Content \cup {Unknown} /\ row.path \in BOOLEAN
                BY <3>1 DEF StartEnsure, TypeInv, TypeOK, Release
            <4> QED BY <3>1, <4>1 DEF StartEnsure, AllOperations
        <3>2. CASE StartDownload(t)
            BY <3>2 DEF StartDownload, AllOperations
        <3>3. CASE StartPrune(t)
            BY <3>3 DEF StartPrune, AllOperations
        <3> QED BY <1>3, <3>1, <3>2, <3>3
    <2>2. TypeOK'
        BY <1>1, <2>1 DEF Begin, TypeInv, TypeOK, Job, Steps
    <2>3. StepFits(t)'
        BY <1>1, <2>1, ConstantsAssumption DEF Begin, TypeInv, TypeOK, StepFits
    <2>4. \A a \in Actor \ {t} : StepFits(a)'
        BY <1>1, <2>1 DEF Begin, TypeInv, TypeOK, StepFits
    <2> QED BY <2>2, <2>3, <2>4 DEF TypeInv
<1> QED BY <1>2, <1>3 DEF Starts

LEMMA EndTypes ==
    ASSUME TypeInv, NEW a \in Actor, Ends(a)
    PROVE  TypeInv'
<1>1. UNCHANGED remote /\ lease' \in Actor \cup {Free}
    BY DEF TypeInv, TypeOK, Ends, GiveUp, CheckRecorded, Return, Land, Crash, ReleaseLease
<1>2. CASE \E S, W : /\ Retire(S, W)
                      /\ \A b \in W \ S : pc[b] = "await" /\ job[b].op = "ensure"
    BY <1>1, <1>2, RetireTypes DEF TypeInv, TypeOK
<1>3. CASE a \in Task /\ CheckRecorded(a) /\ ~IsCached(a)
    <2>1. /\ job' = [job EXCEPT ![a].path = FALSE]
          /\ pc' = [pc EXCEPT ![a] = "materialize"]
          /\ UNCHANGED <<lease, retried, bytes, outcome, leased, canceled>>
          /\ pc[a] = "exists" /\ job[a].op = "ensure"
        BY <1>3 DEF CheckRecorded, TypeInv, StepFits
    <2>2. job'[a] = [job[a] EXCEPT !.path = FALSE] /\ job' \in [Actor -> Job]
        BY <2>1 DEF TypeInv, TypeOK, Job
    <2>3. TypeOK'
        BY <1>1, <2>1, <2>2 DEF TypeInv, TypeOK, Steps
    <2>4. StepFits(a)'
        BY <2>1, <2>2 DEF TypeInv, TypeOK, StepFits, Job
    <2>5. \A b \in Actor \ {a} : StepFits(b)'
        BY <2>1 DEF TypeInv, TypeOK, StepFits
    <2> QED BY <2>3, <2>4, <2>5 DEF TypeInv
<1>4. CASE /\ a \in Task /\ Return(a)
           /\ outcome[a] = "again" /\ AttemptsLeft(a)
    BY <1>1, <1>4 DEF Return, TypeInv, TypeOK, StepFits, Steps
<1>5. CASE a \in Replica /\ Land(a)
    <2> DEFINE waiting == {t \in Task : pc[t] = "await" /\ Host[t] = a}
    <2> DEFINE woken == {t \in waiting : outcome[a] = "ok" /\ job[t].op = "ensure"}
    <2>1. Retire({a} \cup (waiting \ woken), woken)
        BY <1>5 DEF Land
    <2> QED BY <1>2, <2>1
<1> QED
    <2>1. CASE a \in Task /\ GiveUp(a)
        BY <1>2, <2>1 DEF GiveUp
    <2>2. CASE a \in Task /\ CheckRecorded(a)
        BY <1>2, <1>3, <2>2 DEF CheckRecorded
    <2>3. CASE a \in Task /\ Return(a)
        BY <1>2, <1>4, <2>3 DEF Return
    <2>4. CASE a \in Replica /\ Crash(a)
        BY <1>2, <2>4 DEF Crash
    <2> QED BY <1>5, <2>1, <2>2, <2>3, <2>4 DEF Ends

LEMMA TypeInvInductive ==
    /\ Init => TypeInv
    /\ TypeInv /\ [Next]_vars => TypeInv'
<1>1. ASSUME Init PROVE TypeInv
    <2>1. NoJob \in Job
        BY DEF NoJob, Job
    <2>2. TypeOK
        BY <1>1, <2>1 DEF Init, TypeOK, Steps
    <2>3. \A a \in Actor : StepFits(a)
        BY <1>1 DEF Init, StepFits
    <2> QED BY <2>2, <2>3 DEF TypeInv
<1>2. ASSUME TypeInv, [Next]_vars PROVE TypeInv'
    <2>1. CASE UNCHANGED vars
        BY <1>2, <2>1 DEF TypeInv, TypeOK, StepFits, vars
    <2>2. CASE Around
        <3>1. TypeOK'
            <4>1. CASE Expire
                BY <1>2, <4>1 DEF Expire, TypeInv, TypeOK, remote, local
            <4>2. CASE DeleteRow
                BY <1>2, <4>2 DEF DeleteRow, TypeInv, TypeOK, local
            <4>3. CASE CreateRow
                <5>1. Described \subseteq Content \cup {Unknown}
                    BY <1>2 DEF TypeInv, TypeOK, Described
                <5>2. \A sha \in Described : [sha |-> sha, path |-> FALSE] \in Release
                    BY <5>1 DEF Release
                <5> QED BY <1>2, <4>3, <5>2 DEF CreateRow, TypeInv, TypeOK, local
            <4>4. CASE Age
                BY <1>2, <4>4 DEF Age, TypeInv, TypeOK, local
            <4> QED BY <2>2, <4>1, <4>2, <4>3, <4>4 DEF Around
        <3>2. UNCHANGED <<pc, job, bytes, outcome>>
            BY <2>2 DEF Around, Expire, DeleteRow, CreateRow, Age
        <3> QED BY <1>2, <3>1, <3>2 DEF TypeInv, StepFits
    <2>3. CASE \E a \in Actor : Reads(a) \/ Writes(a) \/ Leases(a) \/ Ends(a)
        BY <1>2, <2>3, ReadTypes, WriteTypes, LeaseTypes, EndTypes
    <2>4. CASE \E t \in Task : Starts(t)
        BY <1>2, <2>4, StartTypes
    <2> QED BY <1>2, <2>1, <2>2, <2>3, <2>4, NextCases
<1> QED BY <1>1, <1>2

\* Row, object, lease and the actors' state keep their types, and actors only
\* take steps of their own operation.
THEOREM TypeCorrect == Spec => []TypeOK
<1>1. TypeInv => TypeOK
    BY DEF TypeInv
<1> QED BY <1>1, TypeInvInductive, PTL DEF Spec

-----------------------------------------------------------------------------
(* Who changes the row                                                     *)

\* Only the end of a checksum calculation makes the row refer to the object.
LEMMA WhoChangesTheRow ==
    ASSUME TypeInv, Next, row' # row
    PROVE  \/ row' = NoRow
           \/ row = NoRow /\ row'.path = FALSE
           \/ \E t \in Actor : /\ pc[t] = "record" /\ SameArtifact(t)
                               /\ row' = [sha |-> bytes[t], path |-> TRUE]
                               /\ object' = object
<1>1. CASE Around
    BY <1>1 DEF Around, Expire, DeleteRow, CreateRow, Age
<1>2. CASE \E a \in Actor : Writes(a)
    <2>1. PICK a \in Actor : Writes(a)
        BY <1>2
    <2>2. /\ pc[a] = "record" /\ RecordRow(a) /\ UNCHANGED object
        BY <2>1 DEF Writes, Record, Prune, Remove, Upload, Discard, CallFails
    <2> QED BY <2>2 DEF RecordRow
<1>3. CASE \E a \in Actor : Reads(a) \/ Leases(a) \/ Ends(a)
    BY <1>3 DEF Reads, Digest, CheckReference, CheckCached, Busy, Poll, Recheck, Verify,
                Fetch, CheckPresent, Confirm, Leases, AcquireLease, WaitEnds,
                RenewalFails, RenewLate, Ends, GiveUp, CheckRecorded, Return, Land, Crash
<1>4. CASE \E t \in Task : Starts(t)
    BY <1>4 DEF Starts, StartEnsure, StartDownload, StartPrune, Begin, Materialize
<1> QED BY <1>1, <1>2, <1>3, <1>4, NextCases

\* Under every fault, a lease that expires under its holder included, a known
\* checksum stays until its row is deleted: what a calculation records agrees
\* with its snapshot, and the snapshot with the row (calculateReleaseChecksums).
THEOREM KnownChecksumsStay == Spec => KnownChecksumsAreKept
<1> DEFINE Kept == row # NoRow /\ row' # NoRow /\ row.sha # Unknown
                      => row'.sha = row.sha
<1>1. TypeInv /\ [Next]_vars => Kept
    <2> SUFFICES ASSUME TypeInv, [Next]_vars, row # NoRow, row' # NoRow,
                        row.sha # Unknown, row' # row
                 PROVE  row'.sha = row.sha
        OBVIOUS
    <2>1. PICK t \in Actor : /\ pc[t] = "record" /\ SameArtifact(t)
                             /\ row' = [sha |-> bytes[t], path |-> TRUE]
        BY WhoChangesTheRow DEF vars
    <2>2. job[t].sha \in {Unknown, bytes[t]}
        BY <2>1 DEF TypeInv, StepFits
    <2> QED BY <2>1, <2>2 DEF SameArtifact
<1>2. TypeInv /\ [Next]_vars => [Kept]_vars
    BY <1>1
<1> QED BY <1>2, TypeInvInductive, PTL DEF Spec, KnownChecksumsAreKept

-----------------------------------------------------------------------------
(* The lease                                                               *)

NoPause == "pause" \notin Faults

\* A step of a that leaves the others and what they have read alone.
LEMMA HolderSuffices ==
    ASSUME TypeInv, LeaseInv, NEW a \in Actor,
           \A b \in Actor \ {a} : pc'[b] = pc[b] /\ job'[b] = job[b] /\ bytes'[b] = bytes[b],
           \A b \in Actor \ {a} : (b \in leased') <=> (b \in leased),
           \A b \in leased' : lease' = b,
           pc'[a] \in Work /\ job'[a].op # "load" => a \in leased',
           pc'[a] = "record" => object' = bytes'[a],
           pc'[a] = "prune" => ~IsReferenced',
           \A b \in Actor \ {a} : pc[b] = "record" => object' = object,
           \A b \in Actor \ {a} : pc[b] = "prune" => IsReferenced' = IsReferenced
    PROVE  LeaseInv'
BY DEF LeaseInv

\* A holder works alone: nobody else is about to record or to prune.
LEMMA HoldersExclude ==
    ASSUME TypeInv, LeaseInv, NEW a \in Actor, a \in leased,
           NEW b \in Actor, b # a, pc[b] \in Work
    PROVE  pc[b] \notin {"record", "prune"}
<1> SUFFICES ASSUME pc[b] \in {"record", "prune"} PROVE FALSE
    OBVIOUS
<1>1. job[b].op # "load"
    BY DEF TypeInv, StepFits
<1> QED BY <1>1 DEF LeaseInv

LEMMA ReadKeepsLease ==
    ASSUME TypeInv, TypeInv', LeaseInv, NEW a \in Actor, Reads(a)
    PROVE  LeaseInv'
<1>1. UNCHANGED <<row, object, lease, leased, job>>
    BY DEF Reads, Digest, CheckReference, CheckCached, Busy, Poll, Recheck, Verify,
           Fetch, CheckPresent, Confirm
<1>2. \A b \in Actor \ {a} : pc'[b] = pc[b] /\ bytes'[b] = bytes[b]
    BY DEF TypeInv, TypeOK, Reads, Digest, CheckReference, CheckCached, Busy, Poll,
           Recheck, Verify, Fetch, CheckPresent, Confirm
<1>3. pc'[a] \in Work /\ job[a].op # "load" => pc[a] \in Work
    BY DEF TypeInv, TypeOK, Reads, Digest, CheckReference, CheckCached, Busy, Poll,
           Recheck, Verify, Fetch, CheckPresent, Confirm, StepFits, Work
<1>4. /\ pc'[a] = "record" => object = bytes'[a]
      /\ pc'[a] = "prune" => ~IsReferenced
    BY DEF TypeInv, TypeOK, Reads, Digest, CheckReference, CheckCached, Busy, Poll,
           Recheck, Verify, Fetch, CheckPresent, Confirm
<1>5. IsReferenced' = IsReferenced
    BY <1>1 DEF IsReferenced
<1> QED BY <1>1, <1>2, <1>3, <1>4, <1>5 DEF LeaseInv

LEMMA WriteKeepsLease ==
    ASSUME TypeInv, TypeInv', LeaseInv, NEW a \in Actor, Writes(a)
    PROVE  LeaseInv'
<1>1. UNCHANGED <<lease, leased, job, bytes>>
    BY DEF Writes, Record, Prune, Remove, Upload, Discard, CallFails
<1>2. /\ \A b \in Actor \ {a} : pc'[b] = pc[b]
      /\ pc'[a] \notin {"record", "prune"}
      /\ pc'[a] \in Work => pc[a] \in Work
    BY DEF TypeInv, TypeOK, Writes, Record, Prune, Remove, Upload, Discard, CallFails,
           AfterUpload, Work
<1>3. CASE a \in leased
    <2>1. \A b \in Actor \ {a} : pc[b] \notin {"record", "prune"}
        BY <1>3, HoldersExclude DEF Work
    <2> QED BY <1>1, <1>2, <2>1 DEF LeaseInv
<1>4. CASE a \notin leased
    <2>1. pc[a] \notin {"record", "prune", "remove", "discard"}
        <3> SUFFICES ASSUME pc[a] \in {"record", "prune", "remove", "discard"} PROVE FALSE
            OBVIOUS
        <3>1. job[a].op # "load" /\ pc[a] \in Work
            BY DEF TypeInv, StepFits, Work
        <3> QED BY <1>4, <3>1 DEF LeaseInv
    <2>2. UNCHANGED row /\ (object # NoObject => object' = object)
        BY <2>1 DEF Writes, Record, Prune, Remove, Upload, Discard, CallFails,
                    StoreBytes, IsCached
    <2>3. \A b \in Actor : pc[b] = "record" => object # NoObject
        BY ConstantsAssumption DEF LeaseInv, TypeInv, StepFits
    <2>4. IsReferenced' = IsReferenced
        BY <2>2 DEF IsReferenced
    <2> QED BY <1>1, <1>2, <2>2, <2>3, <2>4 DEF LeaseInv
<1> QED BY <1>3, <1>4

LEMMA LeasesKeepLease ==
    ASSUME TypeInv, TypeInv', LeaseInv, NEW a \in Actor, Leases(a)
    PROVE  LeaseInv'
<1>1. UNCHANGED <<row, object, job, bytes>> /\ IsReferenced' = IsReferenced
    BY DEF Leases, AcquireLease, WaitEnds, RenewalFails, RenewLate, IsReferenced
<1>2. CASE AcquireLease(a)
    <2>1. leased = {}
        BY <1>2, ConstantsAssumption DEF AcquireLease, LeaseFree, LeaseInv, TypeInv, TypeOK
    <2>2. AfterLease(a) \notin {"record", "prune"}
        BY <1>2 DEF AcquireLease, AfterLease, TypeInv, StepFits
    <2>3. /\ pc' = [pc EXCEPT ![a] = AfterLease(a)]
          /\ lease' = a /\ leased' = {a}
        BY <1>2, <2>1 DEF AcquireLease
    <2> QED BY <1>1, <2>1, <2>2, <2>3 DEF LeaseInv, TypeInv, TypeOK
<1>3. CASE WaitEnds(a) \/ RenewalFails(a)
    BY <1>1, <1>3 DEF WaitEnds, RenewalFails, LeaseInv, TypeInv, TypeOK, Work
<1>4. CASE RenewLate(a)
    BY <1>4 DEF RenewLate, LeaseInv
<1> QED BY <1>2, <1>3, <1>4 DEF Leases

LEMMA StartsKeepLease ==
    ASSUME TypeInv, TypeInv', LeaseInv, NEW t \in Task, Starts(t)
    PROVE  LeaseInv'
<1>1. UNCHANGED <<row, object, lease, leased, bytes>> /\ IsReferenced' = IsReferenced
    BY DEF Starts, StartEnsure, StartDownload, StartPrune, Begin, Materialize, IsReferenced
<1>2. \A a \in Actor : \/ pc'[a] = pc[a] /\ job'[a] = job[a]
                       \/ pc'[a] \notin Work
    BY ConstantsAssumption
       DEF Starts, StartEnsure, StartDownload, StartPrune, Begin, Materialize, TypeInv,
           TypeOK, Work, Actor
<1>3. "record" \in Work /\ "prune" \in Work
    BY DEF Work
<1> QED BY <1>1, <1>2, <1>3 DEF LeaseInv

LEMMA EndsKeepLease ==
    ASSUME TypeInv, TypeInv', LeaseInv, NEW a \in Actor, Ends(a)
    PROVE  LeaseInv'
<1>1. UNCHANGED <<row, object>> /\ IsReferenced' = IsReferenced
    BY DEF Ends, GiveUp, CheckRecorded, Return, Land, Crash, IsReferenced
<1>2. \A b \in Actor : \/ /\ pc'[b] = pc[b] /\ job'[b] = job[b] /\ bytes'[b] = bytes[b]
                          /\ (b \in leased' <=> b \in leased)
                       \/ pc'[b] \notin Work
    <2>1. ASSUME NEW S, NEW W, Retire(S, W), NEW b \in Actor
          PROVE  \/ /\ pc'[b] = pc[b] /\ job'[b] = job[b] /\ bytes'[b] = bytes[b]
                    /\ (b \in leased' <=> b \in leased)
                 \/ pc'[b] \notin Work
        BY <2>1 DEF Retire, AfterFlight, Work
    <2>2. CASE \E S, W : Retire(S, W)
        BY <2>1, <2>2
    <2>3. CASE CheckRecorded(a) /\ ~IsCached(a)
        BY <2>3 DEF CheckRecorded, TypeInv, TypeOK, Work
    <2>4. CASE Return(a) /\ outcome[a] = "again" /\ AttemptsLeft(a)
        BY <2>4 DEF Return, TypeInv, TypeOK, Work
    <2> QED BY <2>2, <2>3, <2>4 DEF Ends, GiveUp, CheckRecorded, Return, Land, Crash
<1>3. \A b \in leased' : lease' = b
    <2>1. leased' \subseteq leased
        BY DEF Ends, GiveUp, CheckRecorded, Return, Land, Crash, Retire
    <2>2. CASE lease' = lease
        BY <2>1, <2>2 DEF LeaseInv
    <2>3. CASE lease' # lease
        <3>1. a \in leased /\ lease = a /\ a \notin leased'
            BY <2>3 DEF Ends, GiveUp, CheckRecorded, Return, Land, Crash, Retire,
                        ReleaseLease
        <3> QED BY <2>1, <3>1 DEF LeaseInv
    <2> QED BY <2>2, <2>3
<1>4. "record" \in Work /\ "prune" \in Work
    BY DEF Work
<1> QED BY <1>1, <1>2, <1>3, <1>4 DEF LeaseInv

LEMMA LeaseInvInductive ==
    ASSUME NoPause
    PROVE  /\ Init => LeaseInv
           /\ TypeInv /\ TypeInv' /\ LeaseInv /\ [Next]_vars => LeaseInv'
<1>1. Init => LeaseInv
    BY DEF Init, LeaseInv, Work
<1>2. ASSUME TypeInv, TypeInv', LeaseInv, [Next]_vars PROVE LeaseInv'
    <2>1. CASE UNCHANGED vars
        BY <1>2, <2>1 DEF LeaseInv, IsReferenced, vars
    <2>2. CASE Around
        <3>1. UNCHANGED <<pc, job, bytes, leased, object>>
            BY <2>2 DEF Around, Expire, DeleteRow, CreateRow, Age
        <3>2. IsReferenced' => IsReferenced
            BY <2>2 DEF Around, Expire, DeleteRow, CreateRow, Age, IsReferenced
        <3>3. \A b \in leased : lease' = lease
            BY <1>2, <2>2 DEF Around, Expire, DeleteRow, CreateRow, Age, NoPause, LeaseInv
        <3> QED BY <1>2, <3>1, <3>2, <3>3 DEF LeaseInv
    <2>3. CASE \E a \in Actor : Reads(a) \/ Writes(a) \/ Leases(a) \/ Ends(a)
        BY <1>2, <2>3, ReadKeepsLease, WriteKeepsLease, LeasesKeepLease, EndsKeepLease
    <2>4. CASE \E t \in Task : Starts(t)
        BY <1>2, <2>4, StartsKeepLease
    <2> QED BY <1>2, <2>1, <2>2, <2>3, <2>4, NextCases
<1> QED BY <1>1, <1>2

\* Unless a holder stands still until its lease expires, a row that begins to
\* refer to the cached object has the checksum of the bytes that are stored
\* (calculateReleaseChecksums under WithCachedArtifactLease).
THEOREM RecordedBytesStored ==
    ASSUME NoPause
    PROVE  Spec => RecordedBytesAreStored
<1> DEFINE Recorded == row' # row /\ row' # NoRow /\ row'.path => object = row'.sha
<1>1. TypeInv /\ LeaseInv /\ [Next]_vars => [Recorded]_vars
    <2> SUFFICES ASSUME TypeInv, LeaseInv, [Next]_vars, row' # row, row' # NoRow, row'.path
                 PROVE  object = row'.sha
        OBVIOUS
    <2>1. PICK t \in Actor : /\ pc[t] = "record"
                             /\ row' = [sha |-> bytes[t], path |-> TRUE]
        BY WhoChangesTheRow DEF vars
    <2> QED BY <2>1 DEF LeaseInv
<1> QED
    BY <1>1, TypeInvInductive, LeaseInvInductive, PTL DEF Spec, RecordedBytesAreStored

\* ... and the pruner deletes no object that a row refers to
\* (PruneUpstreamArtifactCache under WithCachedArtifactLease).
THEOREM PruneIsHarmless ==
    ASSUME NoPause
    PROVE  Spec => PruneSparesReferenced
<1> DEFINE Spared == \A t \in Task : pc[t] = "prune" /\ object' # object => ~IsReferenced
<1>1. LeaseInv => [Spared]_vars
    BY DEF LeaseInv, Actor
<1> QED
    BY <1>1, TypeInvInductive, LeaseInvInductive, PTL DEF Spec, PruneSparesReferenced
-----------------------------------------------------------------------------
(* One fetch                                                               *)

\* The cache and the metadata hold what the upstream serves.
FilesMatch == "corruption" \notin Faults /\ "upstreamDiffers" \notin Faults

LEMMA ReadKeepsFetch ==
    ASSUME TypeInv, LeaseInv, FetchInv, NEW a \in Actor, Reads(a)
    PROVE  FetchInv'
<1>1. UNCHANGED <<row, object, old, upstream, leased, job>>
    BY DEF Reads, Digest, CheckReference, CheckCached, Busy, Poll, Recheck, Verify,
           Fetch, CheckPresent, Confirm
<1>2. \A b \in Actor \ {a} : pc'[b] = pc[b] /\ bytes'[b] = bytes[b]
    BY DEF TypeInv, TypeOK, Reads, Digest, CheckReference, CheckCached, Busy, Poll,
           Recheck, Verify, Fetch, CheckPresent, Confirm
<1>3. FetchFits(a) /\ StepFits(a) /\ (pc[a] \in Work /\ job[a].op # "load" => a \in leased)
    BY DEF FetchInv, TypeInv, LeaseInv
<1>4. bytes'[a] \in {NoObject, upstream}
    BY <1>3 DEF Reads, Digest, CheckReference, CheckCached, Busy, Poll, Recheck, Verify,
                Fetch, CheckPresent, Confirm, TypeInv, TypeOK, FetchFits, FetchInv
<1>5. pc' = [pc EXCEPT ![a] = pc'[a]]
    BY DEF Reads, Digest, CheckReference, CheckCached, Busy, Poll, Recheck, Verify,
           Fetch, CheckPresent, Confirm, TypeInv, TypeOK
<1>6. FetchFits(a)'
    <2>1. CASE Digest(a) \/ CheckReference(a) \/ CheckPresent(a)
        BY <1>1, <1>3, <1>4, <2>1
           DEF Digest, CheckReference, CheckPresent, TypeInv, TypeOK, FetchFits, StepFits
    <2>2. CASE CheckCached(a) \/ Busy(a) \/ Poll(a)
        BY <1>1, <1>3, <1>4, <2>2
           DEF CheckCached, Busy, Poll, IsCached, TypeInv, TypeOK, FetchFits, StepFits, FetchInv
    <2>3. CASE Recheck(a) \/ Fetch(a)
        BY <1>1, <1>3, <1>4, <2>3
           DEF Recheck, Fetch, IsCached, TypeInv, TypeOK, FetchFits, StepFits
    <2>4. CASE Verify(a) \/ Confirm(a)
        BY <1>1, <1>3, <1>4, <2>4
           DEF Verify, Confirm, IsCached, IsValid, TypeInv, TypeOK, FetchFits, StepFits,
               FetchInv, Work
    <2> QED BY <2>1, <2>2, <2>3, <2>4 DEF Reads
<1>7. \A b \in Actor \ {a} : FetchFits(b)'
    BY <1>1, <1>2 DEF FetchInv, FetchFits
<1> QED BY <1>1, <1>6, <1>7 DEF FetchInv

LEMMA WriteKeepsFetch ==
    ASSUME TypeInv, LeaseInv, FetchInv, NEW a \in Actor, Writes(a)
    PROVE  FetchInv'
<1>1. UNCHANGED <<upstream, leased, job, bytes>>
    BY DEF Writes, Record, Prune, Remove, Upload, Discard, CallFails
<1>2. FetchFits(a) /\ StepFits(a) /\ (pc[a] \in Work /\ job[a].op # "load" => a \in leased)
    BY DEF FetchInv, TypeInv, LeaseInv
<1>3. /\ \A b \in Actor \ {a} : pc'[b] = pc[b]
      /\ \/ pc'[a] = "release"
         \/ pc[a] = "upload" /\ pc'[a] \in {"present", "confirm"}
    BY <1>2 DEF TypeInv, TypeOK, Writes, Record, Prune, Remove, Upload, Discard, CallFails,
                AfterUpload, FetchFits
<1>4. row' # NoRow => row'.sha \in {Unknown, upstream}
    <2>1. CASE row' = row
        BY <2>1 DEF FetchInv
    <2>2. CASE row' # row
        <3>1. pc[a] = "record" /\ row' = [sha |-> bytes[a], path |-> TRUE]
            BY <2>2 DEF Writes, Record, Prune, Remove, Upload, Discard, CallFails, RecordRow
        <3> QED BY <1>2, <3>1, ConstantsAssumption DEF FetchFits, StepFits
    <2> QED BY <2>1, <2>2
<1>5. \/ UNCHANGED <<object, old>>
      \/ /\ pc[a] = "prune" /\ old /\ object' = NoObject /\ ~old'
         /\ a \in leased
      \/ /\ pc[a] \in {"upload", "discard"} /\ object = NoObject /\ ~old'
         /\ a \in leased
         /\ object' \in {NoObject, upstream} /\ (pc[a] = "discard" => object' = NoObject)
    BY <1>2 DEF Writes, Record, Prune, Remove, Upload, Discard, CallFails, DropObject,
                StoreBytes, IsCached, FetchFits, StepFits, Work
<1>6. \A b \in Actor \ {a} : a \in leased => b \notin leased
    BY DEF LeaseInv
<1>7. FetchFits(a)'
    BY <1>1, <1>2, <1>3, <1>5 DEF FetchFits
<1>8. ASSUME NEW b \in Actor \ {a} PROVE FetchFits(b)'
    <2>1. FetchFits(b) /\ StepFits(b) /\ (pc[b] \in Work /\ job[b].op # "load" => b \in leased)
        BY DEF FetchInv, TypeInv, LeaseInv
    <2>2. pc'[b] = pc[b] /\ (a \in leased => b \notin leased)
        BY <1>3, <1>6
    <2>3. CASE UNCHANGED <<object, old>>
        BY <1>1, <2>1, <2>2, <2>3 DEF FetchFits
    <2>4. CASE pc[a] = "prune" /\ old /\ object' = NoObject /\ ~old' /\ a \in leased
        <3>1. job[b].op # "prune"
            BY <1>2, <2>4 DEF FetchInv, StepFits
        <3> QED BY <1>1, <1>2, <2>1, <2>2, <2>4, <3>1 DEF FetchFits, StepFits, Work
    <2>5. CASE /\ pc[a] \in {"upload", "discard"} /\ object = NoObject /\ ~old'
               /\ a \in leased
               /\ object' \in {NoObject, upstream} /\ (pc[a] = "discard" => object' = NoObject)
        BY <1>1, <1>2, <2>1, <2>2, <2>5 DEF FetchFits, StepFits, FetchInv, Work
    <2> QED BY <1>5, <2>3, <2>4, <2>5
<1>9. object' \in {NoObject, upstream} /\ (old' => object' # NoObject)
    BY <1>5 DEF FetchInv
<1> QED BY <1>1, <1>4, <1>7, <1>8, <1>9 DEF FetchInv

LEMMA LeasesKeepFetch ==
    ASSUME TypeInv, LeaseInv, FetchInv, NEW a \in Actor, Leases(a)
    PROVE  FetchInv'
<1>1. UNCHANGED <<row, object, old, upstream, job, bytes>>
    BY DEF Leases, AcquireLease, WaitEnds, RenewalFails, RenewLate
<1>2. FetchFits(a) /\ StepFits(a)
    BY DEF FetchInv, TypeInv
<1>3. ASSUME NEW b \in Actor PROVE FetchFits(b)'
    <2>1. FetchFits(b) /\ StepFits(b)
        BY DEF FetchInv, TypeInv
    <2>2. CASE AcquireLease(a)
        BY <1>1, <2>1, <2>2 DEF AcquireLease, AfterLease, FetchFits, StepFits, TypeInv, TypeOK
    <2>3. CASE WaitEnds(a) \/ RenewalFails(a) \/ RenewLate(a)
        BY <1>1, <2>1, <2>3 DEF WaitEnds, RenewalFails, RenewLate, FetchFits, TypeInv, TypeOK
    <2> QED BY <2>2, <2>3 DEF Leases
<1> QED BY <1>1, <1>3 DEF FetchInv

LEMMA StartsKeepFetch ==
    ASSUME TypeInv, LeaseInv, FetchInv, NEW t \in Task, Starts(t)
    PROVE  FetchInv'
<1>1. UNCHANGED <<row, object, old, upstream, leased, bytes>>
    BY DEF Starts, StartEnsure, StartDownload, StartPrune, Begin, Materialize
<1>2. t \in Actor /\ Host[t] \in Actor /\ Host[t] # t
    BY ConstantsAssumption DEF Actor
<1>3. CASE Materialize(t)
    <2> DEFINE r == Host[t]
    <2> DEFINE flight == [op |-> IF job[t].sha = Unknown THEN "load" ELSE "verify",
                          sha |-> job[t].sha, path |-> FALSE]
    <2>1. /\ flight.sha \in {Unknown, upstream} /\ flight.op \in {"load", "verify"}
          /\ job[t].op # "prune"
        BY <1>2, <1>3 DEF FetchInv, FetchFits, TypeInv, StepFits, Materialize
    <2>2. CASE pc[r] = "idle"
        <3>1. /\ job' = [job EXCEPT ![r] = flight]
              /\ pc' = [pc EXCEPT ![t] = "await",
                                  ![r] = IF flight.op = "load" THEN "exists" ELSE "acquire"]
            BY <1>3, <2>2 DEF Materialize
        <3> HIDE DEF flight
        <3>2. ASSUME NEW a \in Actor PROVE FetchFits(a)'
            <4>1. FetchFits(a)
                BY DEF FetchInv
            <4> QED BY <1>1, <1>2, <2>1, <3>1, <4>1, ConstantsAssumption DEF FetchFits, TypeInv, TypeOK
        <3>3. \A a \in Actor : job'[a].op = "prune" => job[a].op = "prune"
            BY <1>2, <2>1, <3>1 DEF TypeInv, TypeOK
        <3> QED BY <1>1, <3>2, <3>3 DEF FetchInv
    <2>3. CASE pc[r] # "idle"
        <3>1. pc' = [pc EXCEPT ![t] = "await"] /\ UNCHANGED job
            BY <1>3, <2>3 DEF Materialize
        <3> QED BY <1>1, <3>1 DEF FetchInv, FetchFits, TypeInv, TypeOK
    <2> QED BY <2>2, <2>3
<1>4. CASE StartEnsure(t) \/ StartDownload(t) \/ StartPrune(t)
    <2>1. PICK op \in AllOperations, sha \in {Unknown, upstream}, path \in BOOLEAN,
               label \in {"exists", "materialize", "acquire"} :
              /\ Begin(t, op, sha, path, label)
              /\ op # "load"
              /\ op = "prune" => old /\ \A u \in Task : job[u].op # "prune"
              /\ op # "prune" => label # "acquire"
        <3>1. CASE StartEnsure(t)
            <4>1. row.sha \in {Unknown, upstream} /\ row.path \in BOOLEAN
                BY <3>1 DEF StartEnsure, FetchInv, TypeInv, TypeOK, Release
            <4> QED BY <3>1, <4>1 DEF StartEnsure, AllOperations
        <3>2. CASE StartDownload(t)
            <4>1. Begin(t, "download", Unknown, FALSE, "materialize")
                BY <3>2 DEF StartDownload
            <4> QED BY <4>1 DEF AllOperations
        <3>3. CASE StartPrune(t)
            <4>1. /\ Begin(t, "prune", Unknown, FALSE, "acquire")
                  /\ old /\ \A u \in Task : job[u].op # "prune"
                BY <3>3 DEF StartPrune
            <4> QED BY <4>1 DEF AllOperations
        <3> QED BY <1>4, <3>1, <3>2, <3>3
    <2>2. /\ job' = [job EXCEPT ![t] = [op |-> op, sha |-> sha, path |-> path]]
          /\ pc' = [pc EXCEPT ![t] = label]
        BY <2>1 DEF Begin
    <2>3. ASSUME NEW a \in Actor PROVE FetchFits(a)'
        <3>1. FetchFits(a)
            BY DEF FetchInv
        <3> QED BY <1>1, <1>2, <2>1, <2>2, <3>1 DEF FetchFits, TypeInv, TypeOK, AllOperations
    <2>4. \A r \in Replica : job[r].op # "prune"
        BY ConstantsAssumption DEF FetchInv, FetchFits, Actor
    <2> QED BY <1>1, <1>2, <2>1, <2>2, <2>3, <2>4 DEF FetchInv, TypeInv, TypeOK, Actor
<1> QED BY <1>3, <1>4 DEF Starts

LEMMA EndsKeepFetch ==
    ASSUME TypeInv, LeaseInv, FetchInv, NEW a \in Actor, Ends(a)
    PROVE  FetchInv'
<1>1. UNCHANGED <<row, object, old, upstream>>
    BY DEF Ends, GiveUp, CheckRecorded, Return, Land, Crash
<1>2. CASE \E S, W : Retire(S, W) /\ \A b \in W : job[b].op = "ensure"
    <2>1. PICK S, W : Retire(S, W) /\ \A b \in W : job[b].op = "ensure"
        BY <1>2
    <2>2. ASSUME NEW b \in Actor
          PROVE  FetchFits(b)' /\ (job'[b].op = "prune" => job[b].op = "prune")
        <3>1. FetchFits(b)
            BY DEF FetchInv
        <3>2. CASE b \in S
            BY <1>1, <2>1, <3>1, <3>2 DEF Retire, FetchFits, NoJob
        <3>3. CASE b \notin S
            <4>1. job'[b] = job[b] /\ bytes'[b] = bytes[b] /\ (b \in leased' <=> b \in leased)
                BY <2>1, <3>3 DEF Retire
            <4>2. pc'[b] = pc[b] \/ (job[b].op = "ensure" /\ pc'[b] = "acquire")
                <5>1. pc'[b] = IF b \in W THEN "acquire" ELSE pc[b]
                    BY <2>1, <3>3 DEF Retire, AfterFlight
                <5> QED BY <2>1, <5>1
            <4>3. CASE pc'[b] = pc[b]
                BY <1>1, <3>1, <4>1, <4>3 DEF FetchFits
            <4>4. CASE job[b].op = "ensure" /\ pc'[b] = "acquire"
                BY <1>1, <3>1, <4>1, <4>4 DEF FetchFits
            <4> QED BY <4>1, <4>2, <4>3, <4>4
        <3> QED BY <3>2, <3>3
    <2> QED BY <1>1, <2>2 DEF FetchInv
<1>3. CASE a \in Task /\ CheckRecorded(a) /\ ~IsCached(a)
    <2>1. /\ job' = [job EXCEPT ![a].path = FALSE]
          /\ pc' = [pc EXCEPT ![a] = "materialize"]
          /\ UNCHANGED <<bytes, leased>>
        BY <1>3 DEF CheckRecorded
    <2>2. /\ job'[a].sha = job[a].sha /\ job'[a].op = job[a].op
          /\ \A b \in Actor \ {a} : job'[b] = job[b]
        BY <2>1 DEF TypeInv, TypeOK, Job
    <2>3. ASSUME NEW b \in Actor PROVE FetchFits(b)'
        <3>1. FetchFits(b)
            BY DEF FetchInv
        <3> QED BY <1>1, <2>1, <2>2, <3>1 DEF FetchFits, TypeInv, TypeOK
    <2> QED BY <1>1, <2>2, <2>3 DEF FetchInv
<1>4. CASE a \in Task /\ Return(a) /\ outcome[a] = "again" /\ AttemptsLeft(a)
    <2>1. /\ pc' = [pc EXCEPT ![a] = "materialize"] /\ bytes' = [bytes EXCEPT ![a] = NoObject]
          /\ leased' = leased \ {a} /\ UNCHANGED job
        BY <1>4 DEF Return
    <2>2. ASSUME NEW b \in Actor PROVE FetchFits(b)'
        <3>1. FetchFits(b)
            BY DEF FetchInv
        <3> QED BY <1>1, <2>1, <3>1 DEF FetchFits, TypeInv, TypeOK
    <2> QED BY <1>1, <2>1, <2>2 DEF FetchInv
<1>5. CASE a \in Replica /\ Land(a)
    <2> DEFINE waiting == {t \in Task : pc[t] = "await" /\ Host[t] = a}
    <2> DEFINE woken == {t \in waiting : outcome[a] = "ok" /\ job[t].op = "ensure"}
    <2>1. Retire({a} \cup (waiting \ woken), woken)
        BY <1>5 DEF Land
    <2> QED BY <1>2, <2>1
<1> QED BY <1>2, <1>3, <1>4, <1>5 DEF Ends, GiveUp, CheckRecorded, Return, Crash

LEMMA FetchInvInductive ==
    ASSUME FilesMatch
    PROVE  /\ Init => FetchInv
           /\ TypeInv /\ LeaseInv /\ FetchInv /\ [Next]_vars => FetchInv'
<1>1. Described \subseteq {Unknown, upstream}
    BY DEF Described, FilesMatch
<1>2. ASSUME Init PROVE FetchInv
    <2>1. \A a \in Actor : FetchFits(a)
        BY <1>2 DEF Init, FetchFits, NoJob
    <2>2. /\ object \in {NoObject, upstream} /\ (old => object # NoObject)
          /\ row # NoRow => row.sha \in {Unknown, upstream}
        BY <1>1, <1>2 DEF Init, FilesMatch
    <2>3. \A a \in Actor : job[a].op # "prune"
        BY <1>2 DEF Init, NoJob
    <2> QED BY <2>1, <2>2, <2>3 DEF FetchInv
<1>3. ASSUME TypeInv, LeaseInv, FetchInv, [Next]_vars PROVE FetchInv'
    <2>1. CASE UNCHANGED vars
        BY <1>3, <2>1 DEF FetchInv, FetchFits, vars
    <2>2. CASE Expire \/ DeleteRow
        BY <1>3, <2>2 DEF Expire, DeleteRow, FetchInv, FetchFits
    <2>3. CASE CreateRow
        <3>1. UNCHANGED <<object, old, upstream, pc, local>> /\ row'.sha \in {Unknown, upstream}
            BY <1>1, <2>3 DEF CreateRow
        <3> QED BY <1>3, <3>1 DEF FetchInv, FetchFits
    <2>4. CASE Age
        <3>1. /\ UNCHANGED <<row, object, upstream, pc, local>> /\ old' /\ object # NoObject
              /\ \A r \in Replica : pc[r] = "idle"
            BY <2>4 DEF Age
        <3>2. ASSUME NEW a \in Actor PROVE FetchFits(a)'
            <4>1. FetchFits(a) /\ (job[a].op = "load" => a \in Replica)
                BY <1>3 DEF FetchInv, FetchFits
            <4> QED BY <3>1, <4>1 DEF FetchFits
        <3> QED BY <1>3, <3>1, <3>2 DEF FetchInv
    <2>5. CASE \E a \in Actor : Reads(a) \/ Writes(a) \/ Leases(a) \/ Ends(a)
        BY <1>3, <2>5, ReadKeepsFetch, WriteKeepsFetch, LeasesKeepFetch, EndsKeepFetch
    <2>6. CASE \E t \in Task : Starts(t)
        BY <1>3, <2>6, StartsKeepFetch
    <2> QED BY <1>3, <2>1, <2>2, <2>3, <2>4, <2>5, <2>6, NextCases DEF Around
<1> QED BY <1>2, <1>3

\* Where files and metadata agree and no holder stands still until its lease
\* expires, at most one flight of the cluster fetches, and only what is not
\* cached, whatever calls and renewals fail and whichever replicas stop
\* (loadArtifact, forge_proxy.go:840).
THEOREM FetchedOnce ==
    ASSUME NoPause, FilesMatch
    PROVE  Spec => []OneFetch
<1>1. LeaseInv /\ FetchInv => OneFetch
    BY DEF LeaseInv, FetchInv, FetchFits, OneFetch
<1> QED BY <1>1, TypeInvInductive, LeaseInvInductive, FetchInvInductive, PTL DEF Spec
=============================================================================
