------------------------ MODULE RequestTablesProofs ------------------------
(***************************************************************************)
(* Theorems about the tables a replica keeps for its clients, for every    *)
(* set of requests, clients, keys and sizes and every limit and interval:  *)
(* the usage throttle (FailedWritesAreRetried), the rate limits            *)
(* (LimitHolds), the response cache (AgesAreTrue) and the bounds of all    *)
(* three (MemoryIsBounded).                                                *)
(***************************************************************************)
EXTENDS MCRequests, FiniteSetTheorems, WellFoundedInduction, TLAPS

-----------------------------------------------------------------------------
(* What the heaps of both tables rest on *)

\* A finite nonempty set of numbers has a first one in the order of the heaps:
\* by the time f, and by its own number where times are equal.
LEMMA HeapHasTop ==
    ASSUME NEW S, IsFiniteSet(S), S # {}, S \subseteq Nat,
           NEW f, \A k \in S : f[k] \in Int
    PROVE  \E k \in S : \A l \in S \ {k} :
               f[k] < f[l] \/ (f[k] = f[l] /\ k < l)
<1> DEFINE Upto(k, l) == f[l] < f[k] \/ (f[l] = f[k] /\ l <= k)
<1> DEFINE Down(k) == {l \in S : Upto(k, l)}
<1> DEFINE Downs == {Down(k) : k \in S}
<1>1. Downs \subseteq FiniteSubsetsOf(S)
    <2>1. \A k \in S : Down(k) \subseteq S /\ IsFiniteSet(Down(k))
        BY FS_Subset
    <2> QED BY <2>1 DEF FiniteSubsetsOf
<1>2. Downs # {}
    OBVIOUS
<1> HIDE DEF Downs
<1>3. PICK U \in Downs : \A W \in Downs : ~ (<<W, U>> \in StrictSubsetOrdering(S))
    BY <1>1, <1>2, FS_StrictSubsetOrderingWellFounded, WFMin
<1>4. PICK k \in S : U = Down(k)
    BY <1>3 DEF Downs
<1>5. ASSUME NEW l \in S \ {k}
      PROVE  f[k] < f[l] \/ (f[k] = f[l] /\ k < l)
    <2> SUFFICES ASSUME ~(f[k] < f[l] \/ (f[k] = f[l] /\ k < l)) PROVE FALSE
        OBVIOUS
    <2>1. k \in Nat /\ l \in Nat /\ k # l /\ f[k] \in Int /\ f[l] \in Int
        OBVIOUS
    <2>2. Down(l) \subseteq Down(k)
        <3> SUFFICES ASSUME NEW m \in S, Upto(l, m) PROVE Upto(k, m)
            OBVIOUS
        <3>1. m \in Nat /\ f[m] \in Int
            OBVIOUS
        <3> QED BY <2>1, <3>1
    <2>3. k \in Down(k) /\ k \notin Down(l)
        BY <2>1
    <2>4. Down(l) \in Downs /\ <<Down(l), U>> \in StrictSubsetOrdering(S)
        BY <1>4, <2>2, <2>3 DEF StrictSubsetOrdering, Downs
    <2> QED BY <1>3, <2>4
<1> QED BY <1>5

-----------------------------------------------------------------------------
(* The usage throttle *)

ThrottleTypes ==
    /\ now \in Nat
    /\ expiresAt \in [UsageKeys -> Nat]
    /\ step \in [Downloads -> {"idle", "recording", "writing", "forgetting"}]
    /\ noting = [q \in Downloads |-> noting[q]]
    /\ \A q \in Downloads : step[q] # "idle" => noting[q] \in UsageKeys
    /\ readAt \in [Downloads -> Nat] /\ \A q \in Downloads : readAt[q] <= now
    /\ table \in {"release_usage", "release_consumers"}
    /\ rows \in [UsageKeys -> Nat] /\ \A k \in UsageKeys : rows[k] <= now
    /\ swept \subseteq UsageKeys /\ (table = "release_consumers" => swept = {})

\* A recorded key is behind a row of its interval, which its age or a delete of
\* the module alone can have removed, or behind a request that is still to write
\* such a row, or that will forget the key.
Noted(k) ==
    \/ rows[k] + UsageInterval >= expiresAt[k]
    \/ k \in swept
    \/ expiresAt[k] + UsageRetention < now + UsageInterval
    \/ \E q \in Downloads :
        /\ noting[q] = k
        /\ \/ step[q] = "forgetting"
           \/ step[q] = "writing" /\ readAt[q] + UsageInterval >= expiresAt[k]

Capacity == IsFiniteSet({k \in UsageKeys : expiresAt[k] # 0}) /\ WithinCapacity

ThrottleInv ==
    /\ ThrottleTypes
    /\ \A k \in UsageKeys : expiresAt[k] # 0 => Noted(k)
    /\ Capacity

LEMMA ThrottleInvInit == ThrottleInit => ThrottleInv
<1> SUFFICES ASSUME ThrottleInit PROVE ThrottleInv
    OBVIOUS
<1>1. ThrottleTypes
    BY ThrottleAssumption DEF ThrottleInit, ThrottleTypes
<1>2. {k \in UsageKeys : expiresAt[k] # 0} = {}
    BY DEF ThrottleInit
<1>3. Capacity
    BY <1>2, FS_EmptySet, ThrottleAssumption DEF Capacity, WithinCapacity
<1> QED BY <1>1, <1>2, <1>3 DEF ThrottleInv

LEMMA ThrottleTypesStep ==
    ASSUME ThrottleTypes, [ThrottleNext]_throttleVars
    PROVE  ThrottleTypes'
<1> USE ThrottleAssumption
<1>1. CASE UNCHANGED throttleVars
    BY <1>1 DEF ThrottleTypes, throttleVars
<1>2. CASE ThrottleTick
    BY <1>2 DEF ThrottleTypes, ThrottleTick
<1>3. ASSUME NEW q \in Downloads, NEW k \in UsageKeys, Download(q, k)
      PROVE  ThrottleTypes'
    BY <1>3 DEF ThrottleTypes, Download
<1>4. ASSUME NEW q \in Downloads, Record(q)
      PROVE  ThrottleTypes'
    <2>1. expiresAt' \in [UsageKeys -> Nat]
        BY <1>4 DEF ThrottleTypes, Record, Expired, Recorded
    <2> QED BY <1>4, <2>1 DEF ThrottleTypes, Record, Finish
<1>5. ASSUME NEW q \in Downloads, WriteRow(q) \/ WriteRowFails(q)
      PROVE  ThrottleTypes'
    <2>1. noting[q] \in UsageKeys /\ rows' \in {rows, Noting(noting[q], readAt[q])} /\ now' = now
        BY <1>5 DEF ThrottleTypes, WriteRow, WriteRowFails
    <2>2. rows' \in [UsageKeys -> Nat] /\ \A k \in UsageKeys : rows'[k] <= now'
        BY <2>1 DEF ThrottleTypes, Noting
    <2> QED BY <1>5, <2>2 DEF ThrottleTypes, WriteRow, WriteRowFails, Finish
<1>6. ASSUME NEW q \in Downloads, Forget(q)
      PROVE  ThrottleTypes'
    BY <1>6 DEF ThrottleTypes, Forget, Forgotten, Finish
<1>7. ASSUME NEW releases \in SUBSET UsageKeys, DeleteUsage(releases)
      PROVE  ThrottleTypes'
    BY <1>7 DEF ThrottleTypes, DeleteUsage, Without
<1>8. ASSUME NEW before \in Nat, PruneRows(before)
      PROVE  ThrottleTypes'
    BY <1>8 DEF ThrottleTypes, PruneRows, Without
<1>9. 1..MaxTime \subseteq Nat
    OBVIOUS
<1> QED BY <1>1, <1>2, <1>3, <1>4, <1>5, <1>6, <1>7, <1>8, <1>9 DEF ThrottleNext

LEMMA NotedStep ==
    ASSUME ThrottleTypes, [ThrottleNext]_throttleVars,
           NEW k \in UsageKeys, expiresAt[k] # 0 => Noted(k), expiresAt'[k] # 0
    PROVE  Noted(k)'
<1> USE ThrottleAssumption
<1>1. CASE UNCHANGED throttleVars
    BY <1>1 DEF throttleVars, Noted
<1>2. CASE ThrottleTick
    BY <1>2 DEF ThrottleTick, ThrottleTypes, Noted
<1>3. ASSUME NEW q \in Downloads, NEW l \in UsageKeys, Download(q, l)
      PROVE  Noted(k)'
    BY <1>3 DEF ThrottleTypes, Download, Noted
<1>4. ASSUME NEW q \in Downloads, Record(q)
      PROVE  Noted(k)'
    <2>1. CASE noting[q] \in Live(readAt[q])
        <3>1. expiresAt'[k] = expiresAt[k] /\ rows' = rows /\ now' = now /\ swept' = swept
            BY <1>4, <2>1 DEF Record, Expired
        <3>2. \A r \in Downloads : step[r] \in {"writing", "forgetting"} =>
                 noting'[r] = noting[r] /\ step'[r] = step[r] /\ readAt'[r] = readAt[r]
            BY <1>4, <2>1 DEF ThrottleTypes, Record, Finish
        <3> QED BY <3>1, <3>2 DEF Noted
    <2>2. CASE noting[q] \notin Live(readAt[q])
        <3>1. rows' = rows /\ now' = now /\ swept' = swept \ {noting[q]}
              /\ noting' = noting /\ readAt' = readAt
              /\ expiresAt' = Recorded(noting[q], readAt[q])
              /\ step' = [step EXCEPT ![q] = "writing"] /\ step[q] = "recording"
            BY <1>4, <2>2 DEF Record
        <3>2. CASE k = noting[q]
            <4>1. expiresAt'[k] = readAt[q] + UsageInterval
                BY <3>1, <3>2 DEF Recorded
            <4>2. step'[q] = "writing"
                BY <3>1 DEF ThrottleTypes
            <4>3. readAt'[q] + UsageInterval >= expiresAt'[k]
                BY <3>1, <4>1 DEF ThrottleTypes
            <4> QED BY <3>1, <3>2, <4>2, <4>3 DEF Noted
        <3>3. CASE k # noting[q]
            <4>1. expiresAt'[k] = expiresAt[k] /\ (k \in swept' <=> k \in swept)
                BY <3>1, <3>3 DEF Recorded
            <4>2. \A r \in Downloads : step[r] \in {"writing", "forgetting"} => step'[r] = step[r]
                BY <3>1 DEF ThrottleTypes
            <4> QED BY <3>1, <4>1, <4>2 DEF Noted
        <3> QED BY <3>2, <3>3
    <2> QED BY <2>1, <2>2
<1>5. ASSUME NEW q \in Downloads, WriteRow(q)
      PROVE  Noted(k)'
    <2>1. expiresAt' = expiresAt /\ now' = now /\ swept' = swept /\ noting[q] \in UsageKeys
          /\ rows' = Noting(noting[q], readAt[q])
        BY <1>5 DEF WriteRow, ThrottleTypes
    <2>2. rows[k] \in Nat /\ rows'[k] \in Nat /\ rows'[k] >= rows[k]
          /\ (noting[q] = k => rows'[k] >= readAt[q])
        BY <2>1 DEF ThrottleTypes, Noting
    <2>3. \A r \in Downloads \ {q} :
             noting'[r] = noting[r] /\ step'[r] = step[r] /\ readAt'[r] = readAt[r]
        BY <1>5 DEF WriteRow, Finish, ThrottleTypes
    <2>4. step[q] = "writing" /\ readAt[q] \in Nat /\ expiresAt[k] \in Nat
        BY <1>5 DEF WriteRow, ThrottleTypes
    <2> QED BY <2>1, <2>2, <2>3, <2>4 DEF Noted
<1>6. ASSUME NEW q \in Downloads, WriteRowFails(q)
      PROVE  Noted(k)'
    <2>1. expiresAt' = expiresAt /\ noting' = noting /\ readAt' = readAt
          /\ now' = now /\ swept' = swept
          /\ step' = [step EXCEPT ![q] = "forgetting"]
        BY <1>6 DEF WriteRowFails
    <2>2. rows[k] \in Nat /\ rows'[k] \in Nat /\ rows'[k] >= rows[k]
        BY <1>6 DEF WriteRowFails, ThrottleTypes, Noting
    <2>3. expiresAt[k] \in Nat
        BY DEF ThrottleTypes
    <2> QED BY <2>1, <2>2, <2>3 DEF Noted, ThrottleTypes
<1>7. ASSUME NEW q \in Downloads, Forget(q)
      PROVE  Noted(k)'
    <2>1. k # noting[q] /\ expiresAt'[k] = expiresAt[k] /\ rows' = rows
          /\ now' = now /\ swept' = swept
        BY <1>7 DEF Forget, Forgotten, ThrottleTypes
    <2>2. \A r \in Downloads \ {q} :
             noting'[r] = noting[r] /\ step'[r] = step[r] /\ readAt'[r] = readAt[r]
        BY <1>7 DEF Forget, Finish, ThrottleTypes
    <2> QED BY <2>1, <2>2 DEF Noted
<1>8. ASSUME NEW releases \in SUBSET UsageKeys, DeleteUsage(releases)
      PROVE  Noted(k)'
    <2>1. expiresAt' = expiresAt /\ step' = step /\ noting' = noting /\ readAt' = readAt
          /\ now' = now /\ swept \subseteq swept'
          /\ (k \notin swept' => rows'[k] = rows[k])
        BY <1>8 DEF DeleteUsage, Without
    <2> QED BY <2>1 DEF Noted
<1>9. ASSUME NEW before \in Nat, PruneRows(before)
      PROVE  Noted(k)'
    <2>1. expiresAt' = expiresAt /\ step' = step /\ noting' = noting /\ readAt' = readAt
          /\ now' = now /\ swept' = swept
        BY <1>9 DEF PruneRows
    <2>2. rows'[k] = rows[k] \/ (rows[k] < before /\ before + UsageRetention <= now)
        BY <1>9 DEF PruneRows, Without
    <2>3. rows[k] \in Nat /\ now \in Nat /\ expiresAt[k] \in Nat
        BY DEF ThrottleTypes
    <2> QED BY <2>1, <2>2, <2>3 DEF Noted
<1>10. 1..MaxTime \subseteq Nat
    OBVIOUS
<1> QED BY <1>1, <1>2, <1>3, <1>4, <1>5, <1>6, <1>7, <1>8, <1>9, <1>10 DEF ThrottleNext

\* A record keeps what is live, and gives up the entry that expires first when
\* the set is full.
LEMMA CapacityStep ==
    ASSUME ThrottleTypes, Capacity, [ThrottleNext]_throttleVars
    PROVE  Capacity'
<1> DEFINE Held == {k \in UsageKeys : expiresAt[k] # 0}
<1> USE ThrottleAssumption
<1>1. ASSUME {k \in UsageKeys : expiresAt'[k] # 0} \subseteq Held
      PROVE  Capacity'
    <2>1. IsFiniteSet(Held) /\ Cardinality(Held) \in Nat /\ Cardinality(Held) <= MaxUsageEntries
        BY FS_CardinalityType DEF Capacity, WithinCapacity
    <2>2. IsFiniteSet({k \in UsageKeys : expiresAt'[k] # 0})
          /\ Cardinality({k \in UsageKeys : expiresAt'[k] # 0}) <= Cardinality(Held)
          /\ Cardinality({k \in UsageKeys : expiresAt'[k] # 0}) \in Nat
        BY <1>1, <2>1, FS_Subset, FS_CardinalityType
    <2> QED BY <2>1, <2>2 DEF Capacity, WithinCapacity
<1>2. CASE expiresAt' = expiresAt
    BY <1>1, <1>2
<1>3. ASSUME NEW q \in Downloads, Record(q)
      PROVE  Capacity'
    <2> DEFINE t == readAt[q]
    <2>1. CASE noting[q] \in Live(t)
        <3>1. expiresAt' = Expired(t)
            BY <1>3, <2>1 DEF Record
        <3> QED BY <1>1, <3>1 DEF Expired
    <2>2. CASE noting[q] \notin Live(t)
        <3>1. expiresAt' = Recorded(noting[q], t)
            BY <1>3, <2>2 DEF Record
        <3>2. Live(t) \subseteq Held /\ IsFiniteSet(Live(t)) /\ Cardinality(Live(t)) \in Nat
              /\ Cardinality(Live(t)) <= MaxUsageEntries
            <4>1. Live(t) \subseteq Held
                BY DEF ThrottleTypes, Live
            <4> QED BY <4>1, FS_Subset, FS_CardinalityType DEF Capacity, WithinCapacity
        <3>3. /\ KeptFor(noting[q], t) \subseteq Live(t) /\ IsFiniteSet(KeptFor(noting[q], t))
              /\ Cardinality(KeptFor(noting[q], t)) \in Nat
              /\ Cardinality(KeptFor(noting[q], t)) < MaxUsageEntries
            <4>1. CASE Cardinality(Live(t)) < MaxUsageEntries
                BY <3>2, <4>1 DEF KeptFor
            <4>2. CASE Cardinality(Live(t)) >= MaxUsageEntries
                <5>1. Live(t) # {}
                    BY <3>2, <4>2, FS_EmptySet
                <5>2. NextExpiry(Live(t)) \in Live(t)
                    <6>1. \A k \in Live(t) : expiresAt[k] \in Int
                        BY DEF ThrottleTypes, Live
                    <6>2. Live(t) \subseteq Nat
                        BY DEF Live
                    <6> HIDE DEF t
                    <6>3. \E k \in Live(t) : \A l \in Live(t) \ {k} :
                             expiresAt[k] < expiresAt[l] \/ (expiresAt[k] = expiresAt[l] /\ k < l)
                        BY <3>2, <5>1, <6>1, <6>2, HeapHasTop
                    <6> QED BY <6>3 DEF NextExpiry
                <5>3. KeptFor(noting[q], t) = Live(t) \ {NextExpiry(Live(t))}
                    BY <3>2, <4>2 DEF KeptFor
                <5>4. Cardinality(KeptFor(noting[q], t)) = Cardinality(Live(t)) - 1
                      /\ IsFiniteSet(KeptFor(noting[q], t))
                    BY <3>2, <5>2, <5>3, FS_RemoveElement
                <5> QED BY <3>2, <5>3, <5>4, FS_CardinalityType
            <4> QED BY <3>2, <4>1, <4>2
        <3> DEFINE K == KeptFor(noting[q], t) \cup {noting[q]}
        <3>4. IsFiniteSet(K) /\ Cardinality(K) \in Nat /\ Cardinality(K) <= MaxUsageEntries
            <4>1. IsFiniteSet(K)
                BY <3>3, FS_AddElement
            <4>2. Cardinality(K) = Cardinality(KeptFor(noting[q], t))
                  \/ Cardinality(K) = Cardinality(KeptFor(noting[q], t)) + 1
                BY <3>3, FS_AddElement
            <4> HIDE DEF K
            <4> QED BY <3>3, <4>1, <4>2
        <3>5. {k \in UsageKeys : expiresAt'[k] # 0} \subseteq K
            BY <3>1 DEF Recorded
        <3> HIDE DEF K
        <3>6. IsFiniteSet({k \in UsageKeys : expiresAt'[k] # 0})
              /\ Cardinality({k \in UsageKeys : expiresAt'[k] # 0}) <= Cardinality(K)
              /\ Cardinality({k \in UsageKeys : expiresAt'[k] # 0}) \in Nat
            BY <3>4, <3>5, FS_Subset, FS_CardinalityType
        <3> QED BY <3>4, <3>6 DEF Capacity, WithinCapacity
    <2> QED BY <2>1, <2>2
<1>4. ASSUME NEW q \in Downloads, Forget(q)
      PROVE  Capacity'
    BY <1>1, <1>4 DEF Forget, Forgotten, ThrottleTypes
<1> QED
    BY <1>2, <1>3, <1>4
       DEF ThrottleNext, ThrottleTick, Download, WriteRow, WriteRowFails, DeleteUsage, PruneRows,
           throttleVars

LEMMA ThrottleInvStep ==
    ThrottleInv /\ [ThrottleNext]_throttleVars => ThrottleInv'
BY ThrottleTypesStep, NotedStep, CapacityStep DEF ThrottleInv

-----------------------------------------------------------------------------
(* The rate limits: what one client was admitted *)

Bucket == [left : Int, count : Nat]
Past   == [History -> Nat]

AdmissionsOf(f) == UNION {{h} \X (1..f[h]) : h \in History}

\* Of what a client was admitted within the history f, no more than the limit is
\* from the window of its bucket b, and no more than the limit from before.
TwoWindows(b, f) ==
    /\ IsFiniteSet(AdmissionsOf(f))
    /\ \E Old \in SUBSET AdmissionsOf(f) :
        /\ \A x \in Old : x[1] >= Window - b.left - CountDelay
        /\ Cardinality(Old) <= Limit
        /\ Cardinality(AdmissionsOf(f) \ Old) <= Limit
        /\ b.count > 0 => Cardinality(AdmissionsOf(f) \ Old) <= b.count

LEMMA HistoryIsNat == History \subseteq Nat /\ 0 \in History /\ Long \in Int /\ Long < 0
BY LimitAssumption DEF History, Long

LEMMA AdmissionsMember ==
    ASSUME NEW f \in Past, NEW x
    PROVE  x \in AdmissionsOf(f) <=> \E h \in History : \E i \in 1..f[h] : x = <<h, i>>
BY DEF AdmissionsOf

\* A bucket that is over has nobody from before its window in the history.
LEMMA QuietWindow ==
    ASSUME NEW b \in Bucket, NEW f \in Past, TwoWindows(b, f), b.left <= 0
    PROVE  /\ IsFiniteSet(AdmissionsOf(f)) /\ Cardinality(AdmissionsOf(f)) \in Nat
           /\ Cardinality(AdmissionsOf(f)) <= Limit
<1>1. PICK Old \in SUBSET AdmissionsOf(f) :
         /\ \A x \in Old : x[1] >= Window - b.left - CountDelay
         /\ Cardinality(AdmissionsOf(f) \ Old) <= Limit
    BY DEF TwoWindows
<1>2. Old = {}
    <2> SUFFICES ASSUME NEW x \in Old PROVE FALSE
        OBVIOUS
    <2>1. x[1] \in History
        BY AdmissionsMember
    <2> QED BY <1>1, <2>1, LimitAssumption DEF History, Bucket
<1>3. AdmissionsOf(f) \ Old = AdmissionsOf(f)
    BY <1>2
<1> QED BY <1>1, <1>3, FS_CardinalityType DEF TwoWindows

LEMMA WindowEnds ==
    ASSUME NEW b \in Bucket, NEW f \in Past, TwoWindows(b, f), b.left <= 0
    PROVE  TwoWindows(NoBucket, f)
<1>1. AdmissionsOf(f) \ {} = AdmissionsOf(f) /\ {} \in SUBSET AdmissionsOf(f)
    OBVIOUS
<1>2. NoBucket.left = Long /\ NoBucket.count = 0
    BY DEF NoBucket
<1>3. IsFiniteSet(AdmissionsOf(f)) /\ Cardinality(AdmissionsOf(f)) <= Limit
    BY QuietWindow
<1>4. Cardinality({}) <= Limit
    BY FS_EmptySet, LimitAssumption
<1>5. \E Old \in SUBSET AdmissionsOf(f) :
        /\ \A x \in Old : x[1] >= Window - NoBucket.left - CountDelay
        /\ Cardinality(Old) <= Limit
        /\ Cardinality(AdmissionsOf(f) \ Old) <= Limit
        /\ NoBucket.count > 0 => Cardinality(AdmissionsOf(f) \ Old) <= NoBucket.count
    <2>1. ~(NoBucket.count > 0)
        BY <1>2
    <2> WITNESS {} \in SUBSET AdmissionsOf(f)
    <2> QED BY <1>1, <1>3, <1>4, <2>1
<1> QED BY <1>3, <1>5 DEF TwoWindows

LEMMA NobodyAdmitted ==
    ASSUME NEW b \in Bucket
    PROVE  TwoWindows(b, Nobody)
<1>1. Nobody \in Past /\ AdmissionsOf(Nobody) = {}
    BY HistoryIsNat DEF Nobody, Past, AdmissionsOf
<1>2. IsFiniteSet({}) /\ Cardinality({}) = 0 /\ {} \ {} = {}
    BY FS_EmptySet
<1> QED BY <1>1, <1>2, LimitAssumption DEF TwoWindows, Bucket

LEMMA OneMore ==
    ASSUME NEW f \in Past
    PROVE  /\ [f EXCEPT ![0] = @ + 1] \in Past
           /\ AdmissionsOf([f EXCEPT ![0] = @ + 1]) = AdmissionsOf(f) \cup {<<0, f[0] + 1>>}
           /\ <<0, f[0] + 1>> \notin AdmissionsOf(f)
<1> DEFINE g == [f EXCEPT ![0] = @ + 1]
<1>1. g \in Past /\ f[0] \in Nat /\ g[0] = f[0] + 1 /\ \A h \in History \ {0} : g[h] = f[h]
    BY HistoryIsNat DEF Past
<1>2. \A i : i \in 1..(f[0] + 1) <=> i \in 1..f[0] \/ i = f[0] + 1
    BY <1>1
<1>3. ASSUME NEW x
      PROVE  x \in AdmissionsOf(g) <=> x \in AdmissionsOf(f) \/ x = <<0, f[0] + 1>>
    <2>1. x \in AdmissionsOf(g) <=> \E h \in History : \E i \in 1..g[h] : x = <<h, i>>
        <3> HIDE DEF g
        <3> QED BY <1>1, AdmissionsMember
    <2>2. x \in AdmissionsOf(f) <=> \E h \in History : \E i \in 1..f[h] : x = <<h, i>>
        BY AdmissionsMember
    <2> HIDE DEF g
    <2>3. ASSUME NEW h \in History, NEW i \in 1..g[h], x = <<h, i>>
          PROVE  x \in AdmissionsOf(f) \/ x = <<0, f[0] + 1>>
        BY <1>1, <1>2, <2>2, <2>3
    <2>4. ASSUME NEW h \in History, NEW i \in 1..f[h], x = <<h, i>>
          PROVE  x \in AdmissionsOf(g)
        BY <1>1, <1>2, <2>1, <2>4
    <2>5. x = <<0, f[0] + 1>> => x \in AdmissionsOf(g)
        BY <1>1, <1>2, <2>1, HistoryIsNat
    <2> QED BY <2>1, <2>2, <2>3, <2>4, <2>5
<1>4. <<0, f[0] + 1>> \notin AdmissionsOf(f)
    <2> SUFFICES ASSUME NEW h \in History, NEW i \in 1..f[h], <<0, f[0] + 1>> = <<h, i>>
                 PROVE  FALSE
        BY AdmissionsMember
    <2> QED BY <1>1
<1> HIDE DEF g
<1>5. AdmissionsOf(g) = AdmissionsOf(f) \cup {<<0, f[0] + 1>>}
    BY <1>3
<1> QED BY <1>1, <1>4, <1>5 DEF g

\* A new window begins with the request that found the last one over.
LEMMA WindowOpens ==
    ASSUME NEW b \in Bucket, NEW f \in Past, TwoWindows(b, f), b.left <= 0,
           NEW a \in 0..CountDelay
    PROVE  TwoWindows(Opened(a), [f EXCEPT ![0] = @ + 1])
<1> DEFINE g == [f EXCEPT ![0] = @ + 1]
<1>1. IsFiniteSet(AdmissionsOf(f)) /\ Cardinality(AdmissionsOf(f)) <= Limit
    BY QuietWindow
<1>2. /\ AdmissionsOf(g) = AdmissionsOf(f) \cup {<<0, f[0] + 1>>}
      /\ <<0, f[0] + 1>> \notin AdmissionsOf(f)
    BY OneMore
<1> HIDE DEF g
<1>3. AdmissionsOf(g) \ AdmissionsOf(f) = {<<0, f[0] + 1>>}
    BY <1>2
<1>4. IsFiniteSet(AdmissionsOf(g)) /\ Cardinality({<<0, f[0] + 1>>}) = 1
    <2>1. IsFiniteSet(AdmissionsOf(f) \cup {<<0, f[0] + 1>>})
        BY <1>1, FS_AddElement
    <2> QED BY <1>2, <2>1, FS_Singleton
<1>5. \A x \in AdmissionsOf(f) : x[1] >= Window - Opened(a).left - CountDelay
    <2> SUFFICES ASSUME NEW x \in AdmissionsOf(f) PROVE x[1] >= Window - (Window - a) - CountDelay
        BY DEF Opened
    <2>1. x[1] \in Nat
        BY AdmissionsMember, HistoryIsNat
    <2>2. a \in Nat /\ a <= CountDelay /\ CountDelay \in Nat /\ Window \in Nat
        BY LimitAssumption
    <2> QED BY <2>1, <2>2
<1>6. Opened(a).count = 1
    BY DEF Opened
<1>7. Cardinality(AdmissionsOf(g) \ AdmissionsOf(f)) <= Limit
      /\ Cardinality(AdmissionsOf(g) \ AdmissionsOf(f)) <= Opened(a).count
    <2>1. Cardinality(AdmissionsOf(g) \ AdmissionsOf(f)) = 1
        BY <1>3, <1>4
    <2> QED BY <2>1, <1>6, LimitAssumption
<1>8. AdmissionsOf(f) \in SUBSET AdmissionsOf(g)
    BY <1>2
<1> QED BY <1>1, <1>4, <1>5, <1>7, <1>8 DEF TwoWindows, g

\* A request is admitted in an open window and counted there.
LEMMA WindowCounts ==
    ASSUME NEW b \in Bucket, NEW f \in Past, TwoWindows(b, f), b.count > 0, b.count < Limit
    PROVE  TwoWindows([b EXCEPT !.count = @ + 1], [f EXCEPT ![0] = @ + 1])
<1> DEFINE g == [f EXCEPT ![0] = @ + 1]
<1> DEFINE x0 == <<0, f[0] + 1>>
<1>1. PICK Old \in SUBSET AdmissionsOf(f) :
         /\ \A x \in Old : x[1] >= Window - b.left - CountDelay
         /\ Cardinality(Old) <= Limit
         /\ Cardinality(AdmissionsOf(f) \ Old) <= b.count
    BY DEF TwoWindows
<1>2. AdmissionsOf(g) = AdmissionsOf(f) \cup {x0} /\ x0 \notin AdmissionsOf(f)
    BY OneMore
<1> HIDE DEF g, x0
<1>3. IsFiniteSet(AdmissionsOf(f)) /\ IsFiniteSet(AdmissionsOf(g))
      /\ IsFiniteSet(AdmissionsOf(f) \ Old) /\ Cardinality(AdmissionsOf(f) \ Old) \in Nat
    <2>1. IsFiniteSet(AdmissionsOf(f)) /\ AdmissionsOf(f) \ Old \in SUBSET AdmissionsOf(f)
        BY DEF TwoWindows
    <2> QED BY <1>2, <2>1, FS_AddElement, FS_Subset, FS_CardinalityType
<1>4. AdmissionsOf(g) \ Old = (AdmissionsOf(f) \ Old) \cup {x0}
    BY <1>2
<1>5. Cardinality(AdmissionsOf(g) \ Old) = Cardinality(AdmissionsOf(f) \ Old) + 1
    BY <1>2, <1>3, <1>4, FS_AddElement
<1>6. [b EXCEPT !.count = @ + 1].left = b.left /\ [b EXCEPT !.count = @ + 1].count = b.count + 1
      /\ b.count \in Nat
    BY DEF Bucket
<1> HIDE DEF Bucket
<1>7. Cardinality(AdmissionsOf(g) \ Old) <= Limit
      /\ Cardinality(AdmissionsOf(g) \ Old) <= b.count + 1
    BY <1>1, <1>3, <1>5, <1>6, LimitAssumption
<1>8. Old \in SUBSET AdmissionsOf(g)
    BY <1>2
<1> QED BY <1>1, <1>3, <1>6, <1>7, <1>8 DEF TwoWindows, g

\* A request over the limit is counted and not admitted.
LEMMA WindowSaturates ==
    ASSUME NEW b \in Bucket, NEW c \in Bucket, NEW f, TwoWindows(b, f),
           c.left = b.left, c.count > Limit
    PROVE  TwoWindows(c, f)
<1>1. PICK Old \in SUBSET AdmissionsOf(f) :
         /\ \A x \in Old : x[1] >= Window - b.left - CountDelay
         /\ Cardinality(Old) <= Limit
         /\ Cardinality(AdmissionsOf(f) \ Old) <= Limit
    BY DEF TwoWindows
<1>2. Cardinality(AdmissionsOf(f) \ Old) \in Nat
    <2>1. IsFiniteSet(AdmissionsOf(f)) /\ AdmissionsOf(f) \ Old \in SUBSET AdmissionsOf(f)
        BY DEF TwoWindows
    <2> QED BY <2>1, FS_Subset, FS_CardinalityType
<1>3. Cardinality(AdmissionsOf(f) \ Old) <= c.count
    BY <1>1, <1>2, LimitAssumption DEF Bucket
<1>4. \A x \in Old : x[1] >= Window - c.left - CountDelay
    BY <1>1
<1> QED BY <1>1, <1>3, <1>4 DEF TwoWindows

-----------------------------------------------------------------------------
(* ... as time passes *)

Later(f)    == [h \in History |-> IF h = 0 THEN 0 ELSE f[h - 1]]
Shifted(A, f) == {x \in AdmissionsOf(Later(f)) : <<x[1] - 1, x[2]>> \in A}

LEMMA LaterIsPast ==
    ASSUME NEW f \in Past
    PROVE  /\ Later(f) \in Past
           /\ \A x \in AdmissionsOf(Later(f)) :
                /\ x = <<x[1], x[2]>> /\ x[1] \in Nat \ {0}
                /\ <<x[1] - 1, x[2]>> \in AdmissionsOf(f)
<1>1. \A h \in History \ {0} : h - 1 \in History
    BY LimitAssumption DEF History
<1>2. Later(f) \in Past
    BY <1>1 DEF Later, Past
<1>3. ASSUME NEW x \in AdmissionsOf(Later(f))
      PROVE  /\ x = <<x[1], x[2]>> /\ x[1] \in Nat \ {0}
             /\ <<x[1] - 1, x[2]>> \in AdmissionsOf(f)
    <2>1. PICK h \in History : \E i \in 1..Later(f)[h] : x = <<h, i>>
        BY <1>2, AdmissionsMember
    <2>6. PICK i \in 1..Later(f)[h] : x = <<h, i>>
        BY <2>1
    <2>2. h # 0 /\ Later(f)[h] = f[h - 1]
        BY <2>6 DEF Later
    <2>3. h - 1 \in History /\ i \in 1..f[h - 1]
        BY <1>1, <2>6, <2>2
    <2>4. <<h - 1, i>> \in AdmissionsOf(f)
        BY <2>3, AdmissionsMember
    <2> QED BY <2>6, <2>2, <2>4, HistoryIsNat
<1> QED BY <1>2, <1>3

LEMMA ShiftedIsNoMore ==
    ASSUME NEW f \in Past, NEW A, IsFiniteSet(A)
    PROVE  /\ IsFiniteSet(Shifted(A, f)) /\ Cardinality(Shifted(A, f)) \in Nat
           /\ Cardinality(Shifted(A, f)) <= Cardinality(A)
<1> DEFINE back == [x \in Shifted(A, f) |-> <<x[1] - 1, x[2]>>]
<1>1. back \in [Shifted(A, f) -> A]
    BY DEF Shifted
<1>2. ASSUME NEW x \in Shifted(A, f), NEW y \in Shifted(A, f), back[x] = back[y]
      PROVE  x = y
    <2>1. /\ x = <<x[1], x[2]>> /\ x[1] \in Nat
          /\ y = <<y[1], y[2]>> /\ y[1] \in Nat
        BY LaterIsPast DEF Shifted
    <2>2. x[1] - 1 = y[1] - 1 /\ x[2] = y[2]
        BY <1>2
    <2>3. x[1] = y[1]
        BY <2>1, <2>2
    <2> QED BY <2>1, <2>2, <2>3
<1>3. back \in Injection(Shifted(A, f), A)
    BY <1>1, <1>2 DEF Injection, IsInjective
<1> QED BY <1>3, FS_Injection, FS_CardinalityType

LEMMA WindowAges ==
    ASSUME NEW b \in Bucket, NEW f \in Past, TwoWindows(b, f),
           NEW c \in Bucket, c.count = b.count, c.left = b.left - 1
    PROVE  TwoWindows(c, Later(f))
<1>1. PICK Old \in SUBSET AdmissionsOf(f) :
         /\ \A x \in Old : x[1] >= Window - b.left - CountDelay
         /\ Cardinality(Old) <= Limit
         /\ Cardinality(AdmissionsOf(f) \ Old) <= Limit
         /\ b.count > 0 => Cardinality(AdmissionsOf(f) \ Old) <= b.count
    BY DEF TwoWindows
<1> DEFINE New == AdmissionsOf(f) \ Old
<1>2. IsFiniteSet(Old) /\ IsFiniteSet(New) /\ IsFiniteSet(AdmissionsOf(f))
      /\ Cardinality(Old) \in Nat /\ Cardinality(New) \in Nat
    <2>1. IsFiniteSet(AdmissionsOf(f)) /\ New \in SUBSET AdmissionsOf(f)
        BY DEF TwoWindows
    <2> QED BY <2>1, FS_Subset, FS_CardinalityType
<1>3. AdmissionsOf(Later(f)) = Shifted(AdmissionsOf(f), f)
    BY LaterIsPast DEF Shifted
<1>4. AdmissionsOf(Later(f)) \ Shifted(Old, f) = Shifted(New, f)
    BY <1>3 DEF Shifted
<1>5. IsFiniteSet(AdmissionsOf(Later(f)))
    BY <1>2, <1>3, ShiftedIsNoMore
<1> HIDE DEF New
<1>6. /\ Cardinality(Shifted(Old, f)) <= Cardinality(Old) /\ Cardinality(Shifted(Old, f)) \in Nat
      /\ Cardinality(Shifted(New, f)) <= Cardinality(New) /\ Cardinality(Shifted(New, f)) \in Nat
    BY <1>2, ShiftedIsNoMore
<1>7. ASSUME NEW x \in Shifted(Old, f)
      PROVE  x[1] >= Window - c.left - CountDelay
    <2>1. x[1] \in Nat /\ <<x[1] - 1, x[2]>> \in Old
        BY LaterIsPast DEF Shifted
    <2>2. x[1] - 1 >= Window - b.left - CountDelay
        BY <1>1, <2>1
    <2> QED BY <2>1, <2>2, LimitAssumption DEF Bucket
<1>8. Cardinality(Shifted(Old, f)) <= Limit /\ Cardinality(Shifted(New, f)) <= Limit
      /\ (c.count > 0 => Cardinality(Shifted(New, f)) <= c.count)
    BY <1>1, <1>2, <1>6, LimitAssumption DEF New, Bucket
<1>9. Shifted(Old, f) \in SUBSET AdmissionsOf(Later(f))
    BY DEF Shifted
<1> QED BY <1>4, <1>5, <1>7, <1>8, <1>9 DEF TwoWindows

-----------------------------------------------------------------------------
(* The rate limits: the invariant *)

LimitTypes ==
    /\ shared \in BOOLEAN
    /\ buckets \in [Clients -> Bucket]
    /\ \A c \in Clients : buckets[c].left >= Long /\ (buckets[c].count = 0 => buckets[c].left = Long)
    /\ age \in [Requests -> -1..CountDelay]
    /\ from = [q \in Requests |-> from[q]]
    /\ \A q \in Requests : age[q] # -1 => from[q] \in Clients
    /\ admitted \in [Clients -> Past]

InUse == {c \in Clients : buckets[c].count > 0}

BucketsFit == ~shared => IsFiniteSet(InUse) /\ BucketsBounded

LimitsInv ==
    /\ LimitTypes
    /\ \A c \in Clients : TwoWindows(buckets[c], admitted[c])
    /\ BucketsFit

\* A bucket that is open for a request is in use.
LEMMA OpenIsInUse ==
    ASSUME LimitTypes, NEW a \in 0..CountDelay
    PROVE  OpenFor(a) \subseteq InUse
<1> SUFFICES ASSUME NEW c \in Clients, Open(c, a), buckets[c].count = 0 PROVE FALSE
    BY DEF OpenFor, InUse, LimitTypes, Bucket
<1>1. buckets[c].left = -(CountDelay + 1)
    BY DEF LimitTypes, Long
<1>2. -(CountDelay + 1) + a > 0
    BY <1>1 DEF Open
<1> QED BY <1>2, LimitAssumption

LEMMA LimitsInvInit == LimitsInit => LimitsInv
<1> SUFFICES ASSUME LimitsInit PROVE LimitsInv
    OBVIOUS
<1>1. NoBucket \in Bucket /\ Nobody \in Past
    BY HistoryIsNat DEF NoBucket, Bucket, Nobody, Past
<1>2. LimitTypes
    <2>1. \A c \in Clients : buckets[c] = NoBucket
        BY DEF LimitsInit
    <2>2. NoBucket.left = Long /\ Long >= Long
        BY HistoryIsNat DEF NoBucket
    <2>3. age \in [Requests -> -1..CountDelay]
        BY LimitAssumption DEF LimitsInit
    <2> QED BY <1>1, <2>1, <2>2, <2>3 DEF LimitsInit, LimitTypes
<1>3. \A c \in Clients : TwoWindows(buckets[c], admitted[c])
    BY <1>1, NobodyAdmitted DEF LimitsInit
<1>4. InUse = {}
    <2>1. ~(NoBucket.count > 0)
        BY DEF NoBucket
    <2> QED BY <2>1 DEF LimitsInit, InUse
<1>5. BucketsFit
    BY <1>4, FS_EmptySet, LimitAssumption DEF BucketsFit, BucketsBounded, InUse
<1> QED BY <1>2, <1>3, <1>5 DEF LimitsInv

\* What answering a request does to a client's history.
LEMMA AnswerIs ==
    ASSUME LimitTypes, NEW q \in Requests, NEW allowed \in BOOLEAN, NEW gone,
           Answer(q, allowed, gone)
    PROVE  /\ admitted' \in [Clients -> Past]
           /\ age' \in [Requests -> -1..CountDelay]
           /\ from' = [r \in Requests |-> from'[r]]
           /\ \A r \in Requests : age'[r] # -1 => from'[r] \in Clients
           /\ \A c \in Clients :
                admitted'[c] = IF c \in gone THEN Nobody
                               ELSE IF c = from[q] /\ allowed THEN [admitted[c] EXCEPT ![0] = @ + 1]
                               ELSE admitted[c]
<1>1. \A c \in Clients :
         admitted'[c] = IF c \in gone THEN Nobody
                        ELSE IF c = from[q] /\ allowed THEN [admitted[c] EXCEPT ![0] = @ + 1]
                        ELSE admitted[c]
    BY DEF Answer
<1>2. Nobody \in Past
    BY HistoryIsNat DEF Nobody, Past
<1>3. \A c \in Clients : admitted[c] \in Past /\ [admitted[c] EXCEPT ![0] = @ + 1] \in Past
    BY OneMore DEF LimitTypes
<1>4. \A c \in Clients : admitted'[c] \in Past
    BY <1>1, <1>2, <1>3
<1>5. admitted' \in [Clients -> Past]
    BY <1>4 DEF Answer
<1>6. age' \in [Requests -> -1..CountDelay]
    BY LimitAssumption DEF Answer, LimitTypes
<1> QED BY <1>1, <1>5, <1>6 DEF Answer, LimitTypes

\* The buckets after a request was counted in memory.
LEMMA AllowIs ==
    ASSUME LimitTypes, NEW q \in Requests, Allow(q)
    PROVE  /\ LimitTypes'
           /\ from[q] \in Clients /\ age[q] \in 0..CountDelay
           /\ from[q] \in OpenFor(age[q]) =>
                \A c \in Clients :
                    \/ c \notin OpenFor(age[q]) /\ buckets'[c] = NoBucket /\ admitted'[c] = admitted[c]
                    \/ buckets'[c] = buckets[c] /\ admitted'[c] = admitted[c]
                    \/ /\ c = from[q] /\ c \in OpenFor(age[q]) /\ buckets[c].count < Limit
                       /\ buckets'[c] = [buckets[c] EXCEPT !.count = @ + 1]
                       /\ admitted'[c] = [admitted[c] EXCEPT ![0] = @ + 1]
           /\ from[q] \notin OpenFor(age[q]) =>
                \A c \in Clients :
                    \/ admitted'[c] = Nobody
                    \/ c \notin OpenFor(age[q]) /\ buckets'[c] = NoBucket /\ admitted'[c] = admitted[c]
                    \/ buckets'[c] = buckets[c] /\ admitted'[c] = admitted[c]
                    \/ /\ c = from[q] /\ buckets'[c] = Opened(age[q])
                       /\ admitted'[c] = [admitted[c] EXCEPT ![0] = @ + 1]
<1> DEFINE kept == OpenFor(age[q])
<1> DEFINE allowed == buckets[from[q]].count < Limit
<1>1. from[q] \in Clients /\ age[q] \in 0..CountDelay /\ shared' = shared /\ ~shared
    BY LimitAssumption DEF Allow, LimitTypes
<1>2. NoBucket \in Bucket /\ Opened(age[q]) \in Bucket
      /\ NoBucket.left = Long /\ Opened(age[q]).count = 1 /\ Opened(age[q]).left >= Long
    BY <1>1, LimitAssumption DEF NoBucket, Bucket, Opened, Long
<1> HIDE DEF Bucket
<1>3. \A c \in Clients : /\ [buckets[c] EXCEPT !.count = @ + 1] \in Bucket
                         /\ [buckets[c] EXCEPT !.count = @ + 1].count # 0
                         /\ [buckets[c] EXCEPT !.count = @ + 1].left = buckets[c].left
    BY DEF LimitTypes, Bucket
<1>4. CASE from[q] \in kept
    <2>1. /\ \A d \in Clients : buckets'[d] = IF d \notin kept THEN NoBucket
                                              ELSE IF d = from[q] /\ allowed
                                              THEN [buckets[d] EXCEPT !.count = @ + 1] ELSE buckets[d]
          /\ buckets' = [d \in Clients |-> buckets'[d]]
          /\ Answer(q, allowed, {})
        BY <1>4 DEF Allow
    <2>2. /\ admitted' \in [Clients -> Past]
          /\ age' \in [Requests -> -1..CountDelay]
          /\ from' = [r \in Requests |-> from'[r]]
          /\ \A r \in Requests : age'[r] # -1 => from'[r] \in Clients
          /\ \A c \in Clients :
                admitted'[c] = IF c = from[q] /\ allowed THEN [admitted[c] EXCEPT ![0] = @ + 1]
                               ELSE admitted[c]
        <3> HIDE DEF allowed
        <3>1. allowed \in BOOLEAN
            BY DEF allowed
        <3> QED BY <2>1, <3>1, AnswerIs
    <2>3. \A c \in Clients : /\ buckets'[c] \in Bucket /\ buckets'[c].left >= Long
                             /\ buckets'[c].count = 0 => buckets'[c].left = Long
        <3> SUFFICES ASSUME NEW c \in Clients
                     PROVE  /\ buckets'[c] \in Bucket /\ buckets'[c].left >= Long
                            /\ buckets'[c].count = 0 => buckets'[c].left = Long
            OBVIOUS
        <3>1. \/ buckets'[c] = NoBucket
              \/ buckets'[c] = [buckets[c] EXCEPT !.count = @ + 1]
              \/ buckets'[c] = buckets[c]
            BY <2>1
        <3>2. buckets[c] \in Bucket /\ buckets[c].left >= Long
              /\ (buckets[c].count = 0 => buckets[c].left = Long)
            BY DEF LimitTypes
        <3>3. CASE buckets'[c] = NoBucket
            BY <1>2, <3>3, HistoryIsNat
        <3>4. CASE buckets'[c] = [buckets[c] EXCEPT !.count = @ + 1]
            BY <1>3, <3>2, <3>4
        <3> QED BY <3>1, <3>2, <3>3, <3>4
    <2>4. LimitTypes'
        BY <1>1, <2>1, <2>2, <2>3 DEF LimitTypes, Long, Bucket, Past, History
    <2> QED BY <1>1, <1>4, <2>1, <2>2, <2>4
<1>5. CASE from[q] \notin kept
    <2>1. /\ \A d \in Clients : buckets'[d] = IF d = from[q] THEN Opened(age[q])
                                              ELSE IF d \in kept \ GivenUp(kept) THEN buckets[d]
                                              ELSE NoBucket
          /\ buckets' = [d \in Clients |-> buckets'[d]]
          /\ Answer(q, TRUE, GivenUp(kept))
        BY <1>5 DEF Allow
    <2>2. /\ admitted' \in [Clients -> Past]
          /\ age' \in [Requests -> -1..CountDelay]
          /\ from' = [r \in Requests |-> from'[r]]
          /\ \A r \in Requests : age'[r] # -1 => from'[r] \in Clients
          /\ \A c \in Clients :
                admitted'[c] = IF c \in GivenUp(kept) THEN Nobody
                               ELSE IF c = from[q] THEN [admitted[c] EXCEPT ![0] = @ + 1]
                               ELSE admitted[c]
        <3> HIDE DEF kept
        <3>1. TRUE \in BOOLEAN /\ Answer(q, TRUE, GivenUp(kept))
            BY <2>1
        <3>2. \A c \in Clients :
                admitted'[c] = IF c \in GivenUp(kept) THEN Nobody
                               ELSE IF c = from[q] /\ TRUE THEN [admitted[c] EXCEPT ![0] = @ + 1]
                               ELSE admitted[c]
            BY <3>1 DEF Answer
        <3> DEFINE yes == TRUE
        <3>3. yes \in BOOLEAN /\ Answer(q, yes, GivenUp(kept))
            BY <3>1
        <3> HIDE DEF yes
        <3>4. /\ admitted' \in [Clients -> Past]
              /\ age' \in [Requests -> -1..CountDelay]
              /\ from' = [r \in Requests |-> from'[r]]
              /\ \A r \in Requests : age'[r] # -1 => from'[r] \in Clients
            BY <3>3, AnswerIs
        <3> QED BY <3>2, <3>4
    <2>3. \A c \in Clients : /\ buckets'[c] \in Bucket /\ buckets'[c].left >= Long
                             /\ buckets'[c].count = 0 => buckets'[c].left = Long
        BY <1>2, <2>1, HistoryIsNat DEF LimitTypes
    <2>4. LimitTypes'
        BY <1>1, <2>1, <2>2, <2>3 DEF LimitTypes, Long, Bucket, Past, History
    <2> QED BY <1>1, <1>5, <2>1, <2>2, <2>4
<1> QED BY <1>4, <1>5

LEMMA AllowStep ==
    ASSUME LimitsInv, NEW q \in Requests, Allow(q)
    PROVE  LimitsInv'
<1> DEFINE kept == OpenFor(age[q])
<1>1. LimitTypes /\ LimitTypes' /\ from[q] \in Clients /\ age[q] \in 0..CountDelay
    BY AllowIs DEF LimitsInv
<1>2. ASSUME NEW c \in Clients, c \notin kept
      PROVE  buckets[c].left <= 0
    BY <1>1, <1>2 DEF OpenFor, Open, LimitTypes, Bucket
<1>3. ASSUME NEW c \in Clients
      PROVE  TwoWindows(buckets[c], admitted[c])'
    <2> SUFFICES TwoWindows(buckets'[c], admitted'[c])
        BY DEF TwoWindows, AdmissionsOf, History
    <2>1. TwoWindows(buckets[c], admitted[c]) /\ buckets[c] \in Bucket /\ admitted[c] \in Past
          /\ buckets'[c] \in Bucket
        BY <1>1 DEF LimitsInv, LimitTypes, Bucket
    <2>2. CASE c \notin kept /\ buckets'[c] = NoBucket /\ admitted'[c] = admitted[c]
        <3>1. TwoWindows(NoBucket, admitted[c])
            BY <1>2, <2>1, <2>2, WindowEnds
        <3> QED BY <2>2, <3>1
    <2>3. CASE buckets'[c] = buckets[c] /\ admitted'[c] = admitted[c]
        BY <2>1, <2>3
    <2>4. CASE admitted'[c] = Nobody
        <3>1. TwoWindows(buckets'[c], Nobody)
            BY <2>1, NobodyAdmitted
        <3> QED BY <2>4, <3>1
    <2>5. CASE /\ c \in kept /\ buckets[c].count < Limit
               /\ buckets'[c] = [buckets[c] EXCEPT !.count = @ + 1]
               /\ admitted'[c] = [admitted[c] EXCEPT ![0] = @ + 1]
        <3>1. buckets[c].count > 0
            BY <1>1, <2>5, OpenIsInUse DEF InUse
        <3>2. TwoWindows([buckets[c] EXCEPT !.count = @ + 1], [admitted[c] EXCEPT ![0] = @ + 1])
            BY <2>1, <2>5, <3>1, WindowCounts
        <3> QED BY <2>5, <3>2
    <2>6. CASE /\ c \notin kept /\ buckets'[c] = Opened(age[q])
               /\ admitted'[c] = [admitted[c] EXCEPT ![0] = @ + 1]
        <3>1. TwoWindows(Opened(age[q]), [admitted[c] EXCEPT ![0] = @ + 1])
            BY <1>1, <1>2, <2>1, <2>6, WindowOpens
        <3> QED BY <2>6, <3>1
    <2> QED BY <1>1, <2>2, <2>3, <2>4, <2>5, <2>6, AllowIs
<1>4. ~shared /\ ~shared'
    BY DEF Allow
<1>5. kept \subseteq InUse /\ IsFiniteSet(kept) /\ Cardinality(kept) \in Nat
      /\ IsFiniteSet(InUse) /\ Cardinality(InUse) \in Nat /\ Cardinality(InUse) <= MaxKeys
      /\ Cardinality(kept) <= MaxKeys
    <2>1. kept \subseteq InUse
        BY <1>1, OpenIsInUse
    <2>2. IsFiniteSet(InUse) /\ Cardinality(InUse) <= MaxKeys
        BY <1>4 DEF LimitsInv, BucketsFit, BucketsBounded, InUse
    <2>3. Cardinality(InUse) \in Nat
        BY <2>2, FS_CardinalityType
    <2>4. IsFiniteSet(kept) /\ Cardinality(kept) <= Cardinality(InUse) /\ Cardinality(kept) \in Nat
        BY <2>1, <2>2, FS_Subset, FS_CardinalityType
    <2> QED BY <2>1, <2>2, <2>3, <2>4, LimitAssumption
<1>6. ASSUME NEW S, InUse' \subseteq S, IsFiniteSet(S), Cardinality(S) <= MaxKeys
      PROVE  BucketsFit'
    <2>1. IsFiniteSet(InUse') /\ Cardinality(InUse') \in Nat /\ Cardinality(InUse') <= Cardinality(S)
          /\ Cardinality(S) \in Nat
        BY <1>6, FS_Subset, FS_CardinalityType
    <2>2. Cardinality(InUse') <= MaxKeys
        BY <1>6, <2>1, LimitAssumption
    <2> QED BY <2>1, <2>2 DEF BucketsFit, BucketsBounded, InUse
<1>7. BucketsFit'
    <2>1. CASE from[q] \in kept
        <3>1. \A c \in Clients : c \notin kept => buckets'[c].count = 0
            <4>1. \A d \in Clients :
                     d \notin kept => buckets'[d] = NoBucket
                BY <2>1 DEF Allow
            <4> QED BY <4>1 DEF NoBucket
        <3>2. InUse' \subseteq kept
            BY <3>1 DEF InUse
        <3> QED BY <1>5, <1>6, <3>2
    <2>2. CASE from[q] \notin kept
        <3>1. \A c \in Clients : c \notin (kept \ GivenUp(kept)) \cup {from[q]} => buckets'[c].count = 0
            <4>1. \A d \in Clients :
                     d \notin (kept \ GivenUp(kept)) \cup {from[q]} => buckets'[d] = NoBucket
                BY <2>2 DEF Allow
            <4> QED BY <4>1 DEF NoBucket
        <3>2. InUse' \subseteq (kept \ GivenUp(kept)) \cup {from[q]}
            BY <3>1 DEF InUse
        <3>3. IsFiniteSet(kept \ GivenUp(kept)) /\ Cardinality(kept \ GivenUp(kept)) \in Nat
              /\ Cardinality(kept \ GivenUp(kept)) < MaxKeys
            <4>1. CASE Cardinality(kept) < MaxKeys
                <5>1. kept \ GivenUp(kept) = kept
                    BY <1>5, <4>1, LimitAssumption DEF GivenUp
                <5> QED BY <1>5, <4>1, <5>1
            <4>2. CASE Cardinality(kept) >= MaxKeys
                <5>1. kept # {}
                    BY <1>5, <4>2, FS_EmptySet, LimitAssumption
                <5>2. \A c \in kept : buckets[c].left \in Int
                    BY <1>1 DEF OpenFor, LimitTypes, Bucket
                <5> DEFINE ends == [c \in Clients |-> buckets[c].left]
                <5>3. kept \subseteq Clients /\ Clients \subseteq Nat
                    BY LimitAssumption DEF OpenFor
                <5> HIDE DEF kept
                <5>4. \E c \in kept : \A d \in kept \ {c} :
                         ends[c] < ends[d] \/ (ends[c] = ends[d] /\ c < d)
                    <6>1. \A c \in kept : ends[c] \in Int
                        BY <5>2, <5>3
                    <6>2. kept \subseteq Nat
                        BY <5>3
                    <6> HIDE DEF ends
                    <6> QED BY <1>5, <5>1, <6>1, <6>2, HeapHasTop
                <5>5. \E c \in kept : \A d \in kept \ {c} :
                         buckets[c].left < buckets[d].left \/ (buckets[c].left = buckets[d].left /\ c < d)
                    BY <5>3, <5>4
                <5>6. NextReset(kept) \in kept
                    BY <5>5 DEF NextReset
                <5>7. GivenUp(kept) = {NextReset(kept)}
                    BY <4>2 DEF GivenUp
                <5>8. IsFiniteSet(kept \ GivenUp(kept))
                      /\ Cardinality(kept \ GivenUp(kept)) = Cardinality(kept) - 1
                    BY <1>5, <5>6, <5>7, FS_RemoveElement
                <5> QED BY <1>5, <5>8, FS_CardinalityType, LimitAssumption
            <4> QED BY <1>5, <4>1, <4>2, LimitAssumption
        <3> DEFINE S == (kept \ GivenUp(kept)) \cup {from[q]}
        <3>4. IsFiniteSet(S) /\ Cardinality(S) <= MaxKeys
            <4> DEFINE R == kept \ GivenUp(kept)
            <4>1. IsFiniteSet(R) /\ Cardinality(R) \in Nat /\ Cardinality(R) < MaxKeys
                BY <3>3
            <4> HIDE DEF R
            <4>2. /\ IsFiniteSet(R \cup {from[q]})
                  /\ Cardinality(R \cup {from[q]}) \in {Cardinality(R), Cardinality(R) + 1}
                BY <4>1, FS_AddElement
            <4>3. Cardinality(R \cup {from[q]}) <= MaxKeys
                BY <4>1, <4>2, LimitAssumption
            <4> QED BY <4>2, <4>3 DEF R
        <3> QED BY <1>6, <3>2, <3>4
    <2> QED BY <2>1, <2>2
<1> QED BY <1>1, <1>3, <1>7 DEF LimitsInv

LEMMA ConsumeStep ==
    ASSUME LimitsInv, NEW q \in Requests, Consume(q)
    PROVE  LimitsInv'
<1> DEFINE c == from[q]
<1> DEFINE b == Counted(c, age[q])
<1> DEFINE allowed == b.count <= Limit
<1>1. LimitTypes /\ c \in Clients /\ age[q] \in 0..CountDelay /\ shared' = shared /\ shared
      /\ buckets' = [buckets EXCEPT ![c] = b] /\ Answer(q, allowed, {})
    BY LimitAssumption DEF Consume, LimitsInv, LimitTypes
<1>2. buckets[c] \in Bucket /\ admitted[c] \in Past /\ TwoWindows(buckets[c], admitted[c])
    BY <1>1 DEF LimitsInv, LimitTypes
<1>3. b \in Bucket /\ b.left >= Long /\ b.count # 0
    <2>1. CASE Open(c, age[q])
        <3>1. b = [buckets[c] EXCEPT !.count = Least(@ + 1, Limit + 1)]
            BY <2>1 DEF Counted
        <3>2. Least(buckets[c].count + 1, Limit + 1) \in Nat \ {0}
            BY <1>2, LimitAssumption DEF Least, Bucket
        <3> QED BY <1>1, <1>2, <3>1, <3>2 DEF Bucket, LimitTypes
    <2>2. CASE ~Open(c, age[q])
        BY <1>1, <2>2, LimitAssumption DEF Counted, Opened, Bucket, Long
    <2> QED BY <2>1, <2>2
<1>4. /\ admitted' \in [Clients -> Past]
      /\ age' \in [Requests -> -1..CountDelay]
      /\ from' = [r \in Requests |-> from'[r]]
      /\ \A r \in Requests : age'[r] # -1 => from'[r] \in Clients
      /\ \A d \in Clients :
            admitted'[d] = IF d = c /\ allowed THEN [admitted[d] EXCEPT ![0] = @ + 1]
                           ELSE admitted[d]
    <2> HIDE DEF allowed, b
    <2>1. allowed \in BOOLEAN
        BY DEF allowed
    <2> QED BY <1>1, <2>1, AnswerIs
<1> HIDE DEF b
<1>5. LimitTypes'
    BY <1>1, <1>3, <1>4 DEF LimitTypes, Long, Bucket, Past, History
<1>6. TwoWindows(b, admitted'[c])
    <2>1. CASE Open(c, age[q])
        <3>1. buckets[c].count > 0
            BY <1>1, <2>1, OpenIsInUse DEF OpenFor, InUse
        <3>2. b = [buckets[c] EXCEPT !.count = Least(@ + 1, Limit + 1)]
            BY <2>1 DEF Counted, b
        <3>3. b.left = buckets[c].left /\ b.count = Least(buckets[c].count + 1, Limit + 1)
            BY <1>2, <3>2 DEF Bucket
        <3>4. CASE allowed
            <4>1. buckets[c].count < Limit /\ b.count = buckets[c].count + 1
                BY <1>2, <3>3, <3>4, LimitAssumption DEF Least, Bucket
            <4>2. b = [buckets[c] EXCEPT !.count = @ + 1]
                BY <1>2, <3>2, <4>1, <3>3 DEF Bucket
            <4>3. TwoWindows([buckets[c] EXCEPT !.count = @ + 1], [admitted[c] EXCEPT ![0] = @ + 1])
                BY <1>2, <3>1, <4>1, WindowCounts
            <4> QED BY <1>1, <1>4, <3>4, <4>2, <4>3
        <3>5. CASE ~allowed
            <4>1. b.count > Limit /\ b.count \in Nat
                BY <1>3, <3>5, LimitAssumption DEF Bucket
            <4>2. admitted'[c] = admitted[c]
                BY <1>1, <1>4, <3>5
            <4> QED BY <1>2, <1>3, <3>3, <4>1, <4>2, WindowSaturates
        <3> QED BY <3>4, <3>5
    <2>2. CASE ~Open(c, age[q])
        <3>1. buckets[c].left <= 0 /\ b = Opened(age[q]) /\ allowed
            BY <1>1, <1>2, <2>2, LimitAssumption DEF Open, Counted, Opened, Bucket, b
        <3>2. TwoWindows(Opened(age[q]), [admitted[c] EXCEPT ![0] = @ + 1])
            BY <1>1, <1>2, <3>1, WindowOpens
        <3> QED BY <1>1, <1>4, <3>1, <3>2
    <2> QED BY <2>1, <2>2
<1>7. ASSUME NEW d \in Clients
      PROVE  TwoWindows(buckets[d], admitted[d])'
    <2>1. TwoWindows(buckets'[d], admitted'[d])
        BY <1>1, <1>4, <1>6 DEF LimitsInv, LimitTypes
    <2> QED BY <2>1 DEF TwoWindows, AdmissionsOf, History
<1> QED BY <1>1, <1>5, <1>7 DEF LimitsInv, BucketsFit

LEMMA LimitsTickStep ==
    ASSUME LimitsInv, LimitsTick
    PROVE  LimitsInv'
<1>1. LimitTypes
    BY DEF LimitsInv
<1>2. ASSUME NEW c \in Clients
      PROVE  /\ buckets'[c] \in Bucket /\ buckets'[c].count = buckets[c].count
             /\ buckets'[c].left >= Long
             /\ buckets[c].left = Long => buckets'[c] = buckets[c]
             /\ buckets[c].left # Long => buckets'[c].left = buckets[c].left - 1
    <2>1. buckets'[c] = IF buckets[c].left = Long THEN buckets[c]
                        ELSE [buckets[c] EXCEPT !.left = @ - 1]
        BY DEF LimitsTick
    <2>2. buckets[c] \in Bucket /\ buckets[c].left >= Long
        BY <1>1 DEF LimitTypes
    <2> QED BY <2>1, <2>2, HistoryIsNat DEF Bucket
<1>3. \A c \in Clients : admitted'[c] = Later(admitted[c]) /\ admitted'[c] \in Past
    <2>1. \A c \in Clients : admitted'[c] = Later(admitted[c])
        BY DEF LimitsTick, Later
    <2> QED BY <1>1, <2>1, LaterIsPast DEF LimitTypes
<1>4. LimitTypes'
    <2>1. buckets' \in [Clients -> Bucket] /\ admitted' \in [Clients -> Past]
        BY <1>2, <1>3 DEF LimitsTick
    <2>2. age' \in [Requests -> -1..CountDelay]
        BY <1>1, LimitAssumption DEF LimitsTick, LimitTypes
    <2>3. \A c \in Clients : buckets'[c].count = 0 => buckets'[c].left = Long
        BY <1>1, <1>2 DEF LimitTypes
    <2>4. from' = from /\ shared' = shared /\ \A q \in Requests : age'[q] # -1 => age[q] # -1
        BY DEF LimitsTick
    <2> QED
        BY <1>1, <1>2, <2>1, <2>2, <2>3, <2>4 DEF LimitTypes, Long, Bucket, Past, History
<1>5. ASSUME NEW c \in Clients
      PROVE  TwoWindows(buckets[c], admitted[c])'
    <2> SUFFICES TwoWindows(buckets'[c], admitted'[c])
        BY DEF TwoWindows, AdmissionsOf, History
    <2>1. TwoWindows(buckets[c], admitted[c]) /\ buckets[c] \in Bucket /\ admitted[c] \in Past
        BY <1>1 DEF LimitsInv, LimitTypes
    <2>2. CASE buckets[c].left # Long
        BY <1>2, <1>3, <2>1, <2>2, WindowAges
    <2>3. CASE buckets[c].left = Long
        <3> DEFINE d == [buckets[c] EXCEPT !.left = @ - 1]
        <3>1. d \in Bucket /\ d.count = buckets[c].count /\ d.left = buckets[c].left - 1
              /\ buckets[c].left \in Int
            BY <2>1 DEF Bucket
        <3> HIDE DEF d
        <3>2. TwoWindows(d, Later(admitted[c]))
            BY <2>1, <3>1, WindowAges
        <3>3. PICK Old \in SUBSET AdmissionsOf(Later(admitted[c])) :
                /\ \A x \in Old : x[1] >= Window - d.left - CountDelay
                /\ Cardinality(Old) <= Limit
                /\ Cardinality(AdmissionsOf(Later(admitted[c])) \ Old) <= Limit
                /\ d.count > 0 => Cardinality(AdmissionsOf(Later(admitted[c])) \ Old) <= d.count
            BY <3>2 DEF TwoWindows
        <3>4. \A x \in Old : x[1] \in Nat
            BY <2>1, LaterIsPast
        <3>5. \A x \in Old : x[1] >= Window - buckets[c].left - CountDelay
            BY <3>1, <3>3, <3>4, LimitAssumption
        <3>6. TwoWindows(buckets[c], Later(admitted[c]))
            BY <3>1, <3>2, <3>3, <3>5 DEF TwoWindows
        <3> QED BY <1>2, <1>3, <2>3, <3>6
    <2> QED BY <2>2, <2>3
<1>6. BucketsFit'
    <2>1. InUse' = InUse /\ shared' = shared
        BY <1>2 DEF LimitsTick, InUse
    <2> QED BY <2>1 DEF LimitsInv, BucketsFit, BucketsBounded, InUse
<1> QED BY <1>4, <1>5, <1>6 DEF LimitsInv

LEMMA PurgeStep ==
    ASSUME LimitsInv, Purge
    PROVE  LimitsInv'
<1>1. LimitTypes /\ shared /\ shared' = shared /\ age' = age /\ from' = from /\ admitted' = admitted
    BY DEF LimitsInv, Purge
<1>2. NoBucket \in Bucket /\ NoBucket.left = Long /\ NoBucket.count = 0 /\ Long < 0 /\ Long \in Int
    BY HistoryIsNat DEF NoBucket, Bucket
<1>3. \A c \in Clients : buckets'[c] = IF buckets[c].left <= Long THEN NoBucket ELSE buckets[c]
    BY DEF Purge
<1>4. buckets' = [c \in Clients |-> buckets'[c]]
    BY DEF Purge
<1>5. LimitTypes'
    <2>1. \A c \in Clients : /\ buckets'[c] \in Bucket /\ buckets'[c].left >= Long
                             /\ buckets'[c].count = 0 => buckets'[c].left = Long
        BY <1>1, <1>2, <1>3 DEF LimitTypes
    <2> QED BY <1>1, <1>4, <2>1 DEF LimitTypes, Long, Bucket, Past, History
<1>6. ASSUME NEW c \in Clients
      PROVE  TwoWindows(buckets[c], admitted[c])'
    <2> SUFFICES TwoWindows(buckets'[c], admitted'[c])
        BY DEF TwoWindows, AdmissionsOf, History
    <2>1. TwoWindows(buckets[c], admitted[c]) /\ buckets[c] \in Bucket /\ admitted[c] \in Past
        BY <1>1 DEF LimitsInv, LimitTypes
    <2>2. CASE buckets[c].left <= Long
        <3>1. buckets[c].left <= 0
            BY <1>2, <2>1, <2>2 DEF Bucket
        <3> QED BY <1>1, <1>3, <2>1, <2>2, <3>1, WindowEnds
    <2>3. CASE ~(buckets[c].left <= Long)
        BY <1>1, <1>3, <2>1, <2>3
    <2> QED BY <2>2, <2>3
<1> QED BY <1>1, <1>5, <1>6 DEF LimitsInv, BucketsFit

LEMMA LimitsInvStep ==
    LimitsInv /\ [LimitsNext]_limitsVars => LimitsInv'
<1> SUFFICES ASSUME LimitsInv, [LimitsNext]_limitsVars PROVE LimitsInv'
    OBVIOUS
<1>1. ASSUME buckets' = buckets, admitted' = admitted, shared' = shared, LimitTypes'
      PROVE  LimitsInv'
    BY <1>1 DEF LimitsInv, BucketsFit, BucketsBounded, InUse, TwoWindows, AdmissionsOf, History
<1>2. CASE UNCHANGED limitsVars
    BY <1>1, <1>2 DEF limitsVars, LimitsInv, LimitTypes, Long, Bucket, Past, History
<1>3. ASSUME NEW q \in Requests, NEW c \in Clients, Arrive(q, c)
      PROVE  LimitsInv'
    <2>1. LimitTypes /\ 0 \in -1..CountDelay
        BY LimitAssumption DEF LimitsInv
    <2>2. LimitTypes'
        BY <1>3, <2>1 DEF Arrive, LimitTypes, Long, Bucket, Past, History
    <2> QED BY <1>1, <1>3, <2>2 DEF Arrive
<1> QED
    BY <1>2, <1>3, AllowStep, ConsumeStep, LimitsTickStep, PurgeStep DEF LimitsNext

-----------------------------------------------------------------------------
(* The response cache: what is kept, and its bytes *)

EntryRec == [stored : Int, lag : Int, size : Nat, born : Int]

\* An entry that was stored: its age is what it tells, it came to the cache within
\* the time a client may take, and it fits.
Sound(e) ==
    /\ e \in EntryRec /\ e.stored >= 0 /\ e.lag \in 0..Latency
    /\ e.born = e.lag + e.stored /\ e.size <= MaxBytes

EntriesOK ==
    /\ entries = [k \in CacheKeys |-> entries[k]]
    /\ \A k \in CacheKeys : Present(k) => Sound(entries[k])
    /\ bytes \in Int

BytesKept == IsFiniteSet(Kept) /\ BytesExact

ContentsIn(f, S) == {c \in S \X (1..MaxBytes) : c[2] <= f[c[1]].size}

LEMMA ContentsAreFinite ==
    ASSUME NEW f, NEW S, IsFiniteSet(S)
    PROVE  IsFiniteSet(ContentsIn(f, S)) /\ Cardinality(ContentsIn(f, S)) \in Nat
<1>1. IsFiniteSet(1..MaxBytes)
    BY CacheAssumption, FS_Interval
<1>2. IsFiniteSet(S \X (1..MaxBytes))
    BY <1>1, FS_Product
<1>3. ContentsIn(f, S) \in SUBSET (S \X (1..MaxBytes))
    BY DEF ContentsIn
<1> QED BY <1>2, <1>3, FS_Subset, FS_CardinalityType

LEMMA BytesOfOne ==
    ASSUME NEW f, NEW k, f[k].size \in Nat, f[k].size <= MaxBytes
    PROVE  IsFiniteSet(ContentsIn(f, {k})) /\ Cardinality(ContentsIn(f, {k})) = f[k].size
<1> DEFINE n == f[k].size
<1>1. ContentsIn(f, {k}) = {k} \X (1..n)
    BY CacheAssumption DEF ContentsIn
<1>2. n \in Nat
    OBVIOUS
<1> HIDE DEF n
<1>3. IsFiniteSet({k}) /\ Cardinality({k}) = 1
    BY FS_Singleton
<1>4. IsFiniteSet(1..n) /\ Cardinality(1..n) = n
    <2>1. IsFiniteSet(1..n) /\ Cardinality(1..n) = IF 1 > n THEN 0 ELSE n - 1 + 1
        BY <1>2, FS_Interval
    <2> QED BY <1>2, <2>1
<1>5. IsFiniteSet({k} \X (1..n)) /\ Cardinality({k} \X (1..n)) = Cardinality({k}) * Cardinality(1..n)
    BY <1>3, <1>4, FS_Product
<1>6. Cardinality({k} \X (1..n)) = n
    BY <1>2, <1>3, <1>4, <1>5
<1> QED BY <1>1, <1>5, <1>6 DEF n

\* Bytes of disjoint sets of keys add up.
LEMMA BytesAddUp ==
    ASSUME NEW f, NEW S, IsFiniteSet(S), NEW T \in SUBSET S
    PROVE  Cardinality(ContentsIn(f, S \ T)) = Cardinality(ContentsIn(f, S)) - Cardinality(ContentsIn(f, T))
<1>1. ContentsIn(f, S \ T) = ContentsIn(f, S) \ ContentsIn(f, T)
    BY DEF ContentsIn
<1>2. ContentsIn(f, S) \cap ContentsIn(f, T) = ContentsIn(f, T)
    BY DEF ContentsIn
<1> DEFINE A == ContentsIn(f, S)
<1> DEFINE B == ContentsIn(f, T)
<1>3. IsFiniteSet(A) /\ Cardinality(A) \in Nat
    BY ContentsAreFinite
<1> HIDE DEF A, B
<1>4. Cardinality(A \ B) = Cardinality(A) - Cardinality(A \cap B)
    BY <1>3, FS_Difference
<1> QED BY <1>1, <1>2, <1>4 DEF A, B

LEMMA ContentsAgree ==
    ASSUME NEW f, NEW g, NEW S, \A k \in S : f[k].size = g[k].size
    PROVE  ContentsIn(f, S) = ContentsIn(g, S)
BY DEF ContentsIn

\* deleteLocked takes the bytes of what it deletes off the count.
LEMMA DropKeeps ==
    ASSUME EntriesOK, BytesKept, NEW S \in SUBSET Kept, Drop(S)
    PROVE  /\ EntriesOK' /\ BytesKept'
           /\ Kept' = Kept \ S
           /\ bytes' <= bytes
           /\ \A k \in CacheKeys : entries'[k] \in {entries[k], Nothing}
<1>1. /\ entries' = [k \in CacheKeys |-> IF k \in S THEN Nothing ELSE entries[k]]
      /\ bytes' = bytes - Cardinality(ContentsIn(entries, S))
    BY DEF Drop, BytesOf, Contents, ContentsIn
<1>2. Kept' = Kept \ S
    BY <1>1 DEF Kept, Present
<1>3. IsFiniteSet(Kept) /\ bytes = Cardinality(ContentsIn(entries, Kept))
    BY DEF BytesKept, BytesExact, BytesOf, Contents, ContentsIn
<1>4. IsFiniteSet(S) /\ IsFiniteSet(Kept')
    BY <1>2, <1>3, FS_Subset
<1>5. Cardinality(ContentsIn(entries, S)) \in Nat /\ bytes \in Nat
    BY <1>3, <1>4, ContentsAreFinite
<1>6. ContentsIn(entries', Kept \ S) = ContentsIn(entries, Kept \ S)
    <2>1. \A k \in Kept \ S : entries'[k] = entries[k]
        BY <1>1 DEF Kept
    <2> QED BY <2>1, ContentsAgree
<1>7. bytes' = Cardinality(ContentsIn(entries', Kept'))
    BY <1>1, <1>2, <1>3, <1>6, BytesAddUp
<1>8. EntriesOK'
    BY <1>1, <1>5 DEF EntriesOK, Present, Sound, EntryRec, Nothing
<1>9. BytesKept'
    BY <1>4, <1>7 DEF BytesKept, BytesExact, BytesOf, Contents, ContentsIn
<1> QED BY <1>1, <1>2, <1>5, <1>8, <1>9

\* Set replaces an entry, and counts the difference.
LEMMA StoreKeeps ==
    ASSUME EntriesOK, BytesKept, NEW k \in CacheKeys, NEW e, Sound(e),
           entries' = [entries EXCEPT ![k] = e], bytes' = bytes - Replaced(k) + e.size
    PROVE  EntriesOK' /\ BytesKept' /\ Kept' = Kept \cup {k}
<1>1. e # Nothing /\ e.size \in Nat /\ e.size <= MaxBytes
    BY DEF Sound, EntryRec, Nothing
<1>2. entries'[k] = e /\ \A l \in CacheKeys \ {k} : entries'[l] = entries[l]
    BY DEF EntriesOK
<1>3. Kept' = Kept \cup {k}
    BY <1>1, <1>2 DEF Kept, Present
<1>4. IsFiniteSet(Kept) /\ bytes = Cardinality(ContentsIn(entries, Kept))
    BY DEF BytesKept, BytesExact, BytesOf, Contents, ContentsIn
<1>5. IsFiniteSet(Kept \cup {k})
    BY <1>4, FS_AddElement
<1>6. Cardinality(ContentsIn(entries, Kept \ {k})) = bytes - Replaced(k)
      /\ Replaced(k) \in Nat /\ bytes \in Nat
    <2>1. CASE k \in Kept
        <3>1. entries[k].size \in Nat /\ entries[k].size <= MaxBytes
            BY <2>1 DEF Kept, EntriesOK, Sound, EntryRec
        <3>2. Cardinality(ContentsIn(entries, {k})) = entries[k].size
            BY <3>1, BytesOfOne
        <3>3. {k} \in SUBSET Kept
            BY <2>1
        <3> QED BY <1>4, <3>1, <3>2, <3>3, BytesAddUp, ContentsAreFinite DEF Replaced
    <2>2. CASE k \notin Kept
        <3>1. Replaced(k) = 0 /\ Kept \ {k} = Kept
            BY <2>2 DEF Kept, Present, Replaced, Nothing
        <3>2. bytes \in Nat
            BY <1>4, ContentsAreFinite
        <3>3. Cardinality(ContentsIn(entries, Kept \ {k})) = bytes
            BY <1>4, <3>1
        <3> QED BY <3>1, <3>2, <3>3
    <2> QED BY <2>1, <2>2
<1>7. ContentsIn(entries', Kept \ {k}) = ContentsIn(entries, Kept \ {k})
    <2> DEFINE f == entries'
    <2>1. \A l \in Kept \ {k} : f[l].size = entries[l].size
        BY <1>2 DEF Kept
    <2> HIDE DEF f
    <2>2. ContentsIn(f, Kept \ {k}) = ContentsIn(entries, Kept \ {k})
        BY <2>1, ContentsAgree
    <2> QED BY <2>2 DEF f
<1>8. Cardinality(ContentsIn(entries', {k})) = e.size
    <2> DEFINE f == entries'
    <2>1. f[k] = e
        BY <1>2
    <2> HIDE DEF f
    <2>2. Cardinality(ContentsIn(f, {k})) = e.size
        BY <1>1, <2>1, BytesOfOne
    <2> QED BY <2>2 DEF f
<1>9. bytes' = Cardinality(ContentsIn(entries', Kept'))
    <2>1. {k} \in SUBSET (Kept \cup {k}) /\ (Kept \cup {k}) \ {k} = Kept \ {k}
        OBVIOUS
    <2>2. Cardinality(ContentsIn(entries', Kept \ {k}))
            = Cardinality(ContentsIn(entries', Kept \cup {k})) - Cardinality(ContentsIn(entries', {k}))
        BY <1>5, <2>1, BytesAddUp
    <2>3. Cardinality(ContentsIn(entries', Kept \cup {k})) \in Nat
        BY <1>5, ContentsAreFinite
    <2> QED BY <1>1, <1>3, <1>6, <1>7, <1>8, <2>2, <2>3
<1>10. EntriesOK'
    <2>1. bytes' \in Int
        BY <1>1, <1>6
    <2> QED BY <1>2, <2>1 DEF EntriesOK, Present, Sound, EntryRec, Nothing
<1>11. BytesKept'
    BY <1>3, <1>5, <1>9 DEF BytesKept, BytesExact, BytesOf, Contents, ContentsIn
<1> QED BY <1>3, <1>10, <1>11

-----------------------------------------------------------------------------
(* The response cache: the invariant *)

Phases == {"idle", "expired", "missed", "fetching", "writing", "evicting"}

\* A handler holds a stale entry only while its request to upstream is under way,
\* and then one that has aged no more than that request took.
Held(h) ==
    found[h] # Nothing =>
        /\ Sound(found[h]) /\ phase[h] = "fetching"
        /\ found[h].stored <= TTL + MaxStale + wait[h]

HandlersOK ==
    /\ phase \in [Handlers -> Phases]
    /\ asked = [h \in Handlers |-> asked[h]]
    /\ \A h \in Handlers : phase[h] # "idle" => asked[h] \in CacheKeys
    /\ wait \in [Handlers -> 0..Latency]
    /\ found = [h \in Handlers |-> found[h]]
    /\ \A h \in Handlers : Held(h)

CacheInv ==
    /\ EntriesOK /\ BytesKept
    /\ HandlersOK
    /\ WithinLimits
    /\ AnswersInTime

LEMMA CacheInvInit == CacheInit => CacheInv
<1> SUFFICES ASSUME CacheInit PROVE CacheInv
    OBVIOUS
<1>1. Kept = {} /\ EntriesOK
    BY DEF CacheInit, Kept, Present, EntriesOK
<1>2. ContentsIn(entries, {}) = {}
    BY DEF ContentsIn
<1>3. BytesKept
    <2>1. bytes = Cardinality(ContentsIn(entries, Kept))
        BY <1>1, <1>2, FS_EmptySet DEF CacheInit
    <2> QED BY <1>1, <2>1, FS_EmptySet DEF BytesKept, BytesExact, BytesOf, Contents, ContentsIn
<1>4. HandlersOK
    BY CacheAssumption DEF CacheInit, HandlersOK, Held, Phases
<1>5. WithinLimits
    <2>1. Cardinality(Kept) = 0 /\ bytes = 0
        BY <1>1, FS_EmptySet DEF CacheInit
    <2> QED BY <2>1, CacheAssumption DEF WithinLimits, OverLimit
<1>6. AnswersInTime
    BY DEF CacheInit, AnswersInTime, ServedInTime, AgeIsTold, Silence
<1> QED BY <1>1, <1>3, <1>4, <1>5, <1>6 DEF CacheInv

\* A cache that only loses entries does not come over its limits.
LEMMA LessIsWithin ==
    ASSUME EntriesOK, BytesKept, ~OverLimit(Kept, bytes), Kept' \subseteq Kept,
           bytes' \in Int, bytes' <= bytes
    PROVE  ~OverLimit(Kept, bytes)'
<1>1. IsFiniteSet(Kept) /\ Kept' \in SUBSET Kept
    BY DEF BytesKept
<1>2. Cardinality(Kept) \in Nat /\ Cardinality(Kept') \in Nat
      /\ Cardinality(Kept') <= Cardinality(Kept)
    BY <1>1, FS_Subset, FS_CardinalityType
<1>3. bytes \in Int /\ MaxBytes \in Nat /\ MaxEntries \in Nat
    BY CacheAssumption DEF EntriesOK
<1> QED BY <1>2, <1>3 DEF OverLimit

\* A step that drops some of the entries, or none, and leaves who evicts.
Loses ==
    \/ UNCHANGED cache
    \/ \E S \in SUBSET Kept : Drop(S)

LEMMA LosesStep ==
    ASSUME EntriesOK, BytesKept, WithinLimits, Loses,
           \A h \in Handlers : phase[h] = "evicting" => phase'[h] = "evicting"
    PROVE  EntriesOK' /\ BytesKept' /\ WithinLimits'
<1>1. CASE UNCHANGED cache
    <2>1. EntriesOK' /\ BytesKept'
        BY <1>1 DEF cache, EntriesOK, BytesKept, BytesExact, BytesOf, Contents, Kept, Present
    <2>2. OverLimit(Kept, bytes)' => OverLimit(Kept, bytes)
        BY <1>1 DEF cache, OverLimit, Kept, Present
    <2> QED BY <2>1, <2>2 DEF WithinLimits
<1>2. ASSUME NEW S \in SUBSET Kept, Drop(S)
      PROVE  EntriesOK' /\ BytesKept' /\ WithinLimits'
    <2>1. EntriesOK' /\ BytesKept' /\ Kept' \subseteq Kept /\ bytes' <= bytes /\ bytes' \in Int
        BY <1>2, DropKeeps DEF EntriesOK
    <2>2. OverLimit(Kept, bytes)' => OverLimit(Kept, bytes)
        BY <2>1, LessIsWithin
    <2> QED BY <2>1, <2>2 DEF WithinLimits
<1> QED BY <1>1, <1>2 DEF Loses

\* A step of one handler leaves the others alone.
Alone(h) ==
    /\ phase' = [g \in Handlers |-> phase'[g]] /\ asked' = [g \in Handlers |-> asked'[g]]
    /\ found' = [g \in Handlers |-> found'[g]] /\ wait' = [g \in Handlers |-> wait'[g]]
    /\ \A g \in Handlers \ {h} :
        /\ phase'[g] = phase[g] /\ asked'[g] = asked[g]
        /\ found'[g] = found[g] /\ wait'[g] = wait[g]

LEMMA AloneSuffices ==
    ASSUME HandlersOK, NEW h \in Handlers, Alone(h),
           phase'[h] \in Phases, phase'[h] # "idle" => asked'[h] \in CacheKeys,
           wait'[h] \in 0..Latency, Held(h)'
    PROVE  HandlersOK'
<1>1. \A g \in Handlers : Held(g)'
    BY DEF HandlersOK, Alone, Held, Sound, EntryRec, Nothing
<1> QED BY <1>1 DEF HandlersOK, Alone

LEMMA IdleIsOK ==
    ASSUME HandlersOK, NEW h \in Handlers, Idle(h)
    PROVE  HandlersOK' /\ Alone(h) /\ phase'[h] = "idle"
<1>1. Alone(h) /\ phase'[h] = "idle" /\ wait'[h] = 0 /\ found'[h] = Nothing
    BY DEF HandlersOK, Alone, Idle
<1>2. wait'[h] \in 0..Latency /\ phase'[h] \in Phases
    BY <1>1, CacheAssumption DEF Phases
<1>3. Held(h)'
    BY <1>1 DEF Held, Nothing
<1> QED BY <1>1, <1>2, <1>3, AloneSuffices

LEMMA NoReplyIsInTime ==
    ASSUME NoReply
    PROVE  AnswersInTime'
BY DEF NoReply, Silence, AnswersInTime, ServedInTime, AgeIsTold

LEMMA HandlerStep ==
    ASSUME CacheInv, NEW h \in Handlers,
           \/ \E k \in CacheKeys : Hit(h, k) \/ Miss(h, k)
           \/ DeleteExpired(h) \/ GetStale(h) \/ FetchFails(h) \/ Fetched(h) \/ NotCached(h)
    PROVE  CacheInv'
<1>1. ASSUME Loses, HandlersOK', Alone(h), phase[h] # "evicting", AnswersInTime'
      PROVE  CacheInv'
    BY <1>1, LosesStep DEF CacheInv, Alone
<1>2. ASSUME Present(asked[h]), asked[h] \in CacheKeys
      PROVE  {asked[h]} \in SUBSET Kept
    BY <1>2 DEF Kept
<1>3. EntriesOK /\ HandlersOK
    BY DEF CacheInv
<1>4. ASSUME NEW k \in CacheKeys, Hit(h, k)
      PROVE  CacheInv'
    <2>1. Sound(entries[k]) /\ entries[k].stored <= TTL
        BY <1>3, <1>4 DEF EntriesOK, Hit, Fresh
    <2>2. AnswersInTime'
        BY <1>4, <2>1, CacheAssumption
           DEF Hit, Served, Answered, AgeTold, Sound, EntryRec, AnswersInTime, ServedInTime, AgeIsTold
    <2>3. HandlersOK' /\ Alone(h)
        BY <1>3, <1>4 DEF Hit, HandlersOK, Alone, Held, Sound, EntryRec, Nothing
    <2> QED BY <1>1, <1>4, <2>2, <2>3 DEF Hit, Loses
<1>5. ASSUME NEW k \in CacheKeys, Miss(h, k)
      PROVE  CacheInv'
    <2>1. Alone(h) /\ phase'[h] \in {"expired", "missed"} /\ asked'[h] = k /\ wait'[h] = wait[h]
          /\ found' = found
        BY <1>3, <1>5 DEF Miss, HandlersOK, Alone
    <2>2. Held(h)'
        BY <1>3, <1>5, <2>1 DEF Miss, HandlersOK, Held, Nothing
    <2>3. wait'[h] \in 0..Latency /\ phase'[h] \in Phases
        BY <1>3, <2>1 DEF HandlersOK, Phases
    <2>4. HandlersOK'
        BY <1>3, <2>1, <2>2, <2>3, AloneSuffices
    <2> QED BY <1>1, <1>5, <2>1, <2>4, NoReplyIsInTime DEF Miss, Loses
<1>6. CASE DeleteExpired(h)
    <2>1. Alone(h) /\ phase'[h] = "missed" /\ asked'[h] = asked[h] /\ wait'[h] = wait[h] /\ found' = found
          /\ asked[h] \in CacheKeys
        BY <1>3, <1>6 DEF DeleteExpired, HandlersOK, Alone
    <2>2. Held(h)'
        BY <1>3, <1>6, <2>1 DEF DeleteExpired, HandlersOK, Held, Nothing
    <2>3. wait'[h] \in 0..Latency /\ phase'[h] \in Phases
        BY <1>3, <2>1 DEF HandlersOK, Phases
    <2>4. HandlersOK'
        BY <1>3, <2>1, <2>2, <2>3, AloneSuffices
    <2>5. Loses
        BY <1>2, <1>6, <2>1 DEF DeleteExpired, Loses
    <2> QED BY <1>1, <1>6, <2>1, <2>4, <2>5, NoReplyIsInTime DEF DeleteExpired
<1>7. CASE GetStale(h)
    <2>1. Alone(h) /\ phase'[h] = "fetching" /\ asked'[h] = asked[h] /\ wait'[h] = 0
          /\ asked[h] \in CacheKeys
          /\ found'[h] = IF Present(asked[h]) /\ Retained(entries[asked[h]]) /\ MaxStale > 0
                         THEN entries[asked[h]] ELSE Nothing
        BY <1>3, <1>7 DEF GetStale, HandlersOK, Alone
    <2>2. Held(h)'
        <3>1. CASE found'[h] = Nothing
            BY <3>1 DEF Held, Nothing
        <3>2. CASE found'[h] # Nothing
            <4>1. Sound(found'[h]) /\ found'[h].stored <= TTL + MaxStale
                BY <1>3, <2>1, <3>2 DEF EntriesOK, Retained
            <4>2. found'[h].stored <= TTL + MaxStale + wait'[h]
                BY <2>1, <4>1, CacheAssumption DEF Sound, EntryRec
            <4> QED BY <2>1, <4>1, <4>2 DEF Held, Sound, EntryRec
        <3> QED BY <3>1, <3>2
    <2>3. wait'[h] \in 0..Latency /\ phase'[h] \in Phases
        BY <2>1, CacheAssumption DEF Phases
    <2>4. HandlersOK'
        BY <1>3, <2>1, <2>2, <2>3, AloneSuffices
    <2>5. Loses
        BY <1>2, <1>7, <2>1 DEF GetStale, Loses
    <2> QED BY <1>1, <1>7, <2>1, <2>4, <2>5, NoReplyIsInTime DEF GetStale
<1>8. CASE FetchFails(h)
    <2>1. AnswersInTime'
        <3>1. CASE found[h] # Nothing
            <4>1. Sound(found[h]) /\ found[h].stored <= TTL + MaxStale + wait[h] /\ wait[h] \in 0..Latency
                BY <1>3, <3>1 DEF HandlersOK, Held
            <4>2. reply' = Answered("STALE", found[h])
                BY <1>8, <3>1 DEF FetchFails, Served
            <4>3. found[h].born <= TTL + MaxStale + 2 * Latency
                BY <4>1, CacheAssumption DEF Sound, EntryRec
            <4>4. found[h].lag + found[h].stored >= found[h].born
                BY <4>1, CacheAssumption DEF Sound, EntryRec
            <4> QED BY <4>2, <4>3, <4>4
                    DEF Answered, AgeTold, AnswersInTime, ServedInTime, AgeIsTold
        <3>2. CASE found[h] = Nothing
            BY <1>8, <3>2 DEF FetchFails, Silence, AnswersInTime, ServedInTime, AgeIsTold
        <3> QED BY <3>1, <3>2
    <2> QED BY <1>1, <1>3, <1>8, <2>1, IdleIsOK DEF FetchFails, Loses
<1>9. CASE Fetched(h)
    <2>1. Alone(h) /\ phase'[h] = "writing" /\ asked'[h] = asked[h] /\ wait'[h] = 0 /\ found'[h] = Nothing
          /\ asked[h] \in CacheKeys
        BY <1>3, <1>9 DEF Fetched, HandlersOK, Alone
    <2>2. Held(h)'
        BY <2>1 DEF Held, Nothing
    <2>3. wait'[h] \in 0..Latency /\ phase'[h] \in Phases
        BY <2>1, CacheAssumption DEF Phases
    <2>4. HandlersOK'
        BY <1>3, <2>1, <2>2, <2>3, AloneSuffices
    <2>5. AnswersInTime'
        BY <1>9 DEF Fetched, Silence, AnswersInTime, ServedInTime, AgeIsTold
    <2> QED BY <1>1, <1>9, <2>1, <2>4, <2>5 DEF Fetched, Loses
<1>10. CASE NotCached(h)
    BY <1>1, <1>3, <1>10, IdleIsOK, NoReplyIsInTime DEF NotCached, Loses
<1> QED BY <1>4, <1>5, <1>6, <1>7, <1>8, <1>9, <1>10

LEMMA StoreStep ==
    ASSUME CacheInv, NEW h \in Handlers, NEW size \in Sizes, StoreBody(h, size)
    PROVE  CacheInv'
<1> DEFINE k == asked[h]
<1> DEFINE e == Entry(size, wait[h])
<1> DEFINE after == bytes - Replaced(k) + e.size
<1>1. /\ EntriesOK /\ BytesKept /\ HandlersOK /\ WithinLimits
      /\ phase[h] = "writing" /\ k \in CacheKeys /\ size \in Nat /\ wait[h] \in 0..Latency
    BY CacheAssumption DEF CacheInv, HandlersOK, StoreBody
<1>2. AnswersInTime'
    BY NoReplyIsInTime DEF StoreBody
<1>3. CASE e.size > MaxBytes /\ Drop({k} \cap Kept) /\ Idle(h)
    <2>1. HandlersOK' /\ Alone(h)
        BY <1>1, <1>3, IdleIsOK
    <2>2. Loses
        <3>1. {k} \cap Kept \in SUBSET Kept
            OBVIOUS
        <3> QED BY <1>3, <3>1 DEF Loses
    <2> QED BY <1>1, <1>2, <2>1, <2>2, LosesStep DEF CacheInv, Alone
<1>4. CASE /\ e.size <= MaxBytes
           /\ entries' = [entries EXCEPT ![k] = e] /\ bytes' = after
           /\ IF MustEvict(Kept \cup {k}, after)
              THEN phase' = [phase EXCEPT ![h] = "evicting"] /\ UNCHANGED <<asked, found, wait>>
              ELSE Idle(h)
    <2>1. Sound(e)
        BY <1>1, <1>4, CacheAssumption DEF Entry, Sound, EntryRec
    <2>2. EntriesOK' /\ BytesKept' /\ Kept' = Kept \cup {k}
        BY <1>1, <1>4, <2>1, StoreKeeps
    <2>3. OverLimit(Kept, bytes)' <=> MustEvict(Kept \cup {k}, after)
        BY <1>4, <2>2 DEF OverLimit, MustEvict
    <2>4. CASE MustEvict(Kept \cup {k}, after)
        <3>1. phase' = [phase EXCEPT ![h] = "evicting"] /\ UNCHANGED <<asked, found, wait>>
            BY <1>4, <2>4
        <3>2. Alone(h) /\ phase'[h] = "evicting" /\ asked'[h] = k /\ wait'[h] = wait[h] /\ found' = found
            BY <1>1, <3>1 DEF HandlersOK, Alone
        <3>3. Held(h)'
            BY <1>1, <3>2 DEF HandlersOK, Held, Nothing
        <3>4. HandlersOK'
            BY <1>1, <3>2, <3>3, AloneSuffices DEF Phases
        <3>5. WithinLimits'
            BY <3>2 DEF WithinLimits
        <3> QED BY <1>2, <2>2, <3>4, <3>5 DEF CacheInv
    <2>5. CASE ~MustEvict(Kept \cup {k}, after)
        <3>1. Idle(h)
            BY <1>4, <2>5
        <3>2. HandlersOK' /\ WithinLimits'
            BY <1>1, <2>3, <2>5, <3>1, IdleIsOK DEF WithinLimits
        <3> QED BY <1>2, <2>2, <3>2 DEF CacheInv
    <2> QED BY <2>4, <2>5
<1> QED BY <1>3, <1>4 DEF StoreBody

LEMMA EvictStep ==
    ASSUME CacheInv, NEW h \in Handlers, Evict(h)
    PROVE  CacheInv'
<1>1. EntriesOK /\ BytesKept /\ HandlersOK
    BY DEF CacheInv
<1>2. HandlersOK' /\ AnswersInTime'
    BY <1>1, IdleIsOK, NoReplyIsInTime DEF Evict
<1>3. PICK S \in SUBSET (Kept \ Gone) :
         ~OverLimit(S, bytes - BytesOf(Kept \ S)) /\ Drop(Kept \ S)
    BY DEF Evict
<1>4. S \subseteq Kept
    OBVIOUS
<1>5. EntriesOK' /\ BytesKept' /\ Kept' = Kept \ (Kept \ S)
    BY <1>1, <1>3, DropKeeps
<1>6. Kept' = S /\ bytes' = bytes - BytesOf(Kept \ S)
    BY <1>3, <1>4, <1>5 DEF Drop
<1>7. WithinLimits'
    BY <1>3, <1>6 DEF WithinLimits, OverLimit
<1> QED BY <1>2, <1>5, <1>7 DEF CacheInv

LEMMA OlderIs ==
    ASSUME NEW e, Sound(e)
    PROVE  /\ Sound(Older(e)) /\ Older(e) # Nothing
           /\ Older(e).size = e.size /\ Older(e).stored <= e.stored + 1
<1>1. e \in EntryRec /\ e.stored # -1
    BY DEF Sound, EntryRec
<1>2. CASE e.stored = Oldest
    BY <1>1, <1>2 DEF Older, Sound, EntryRec, Nothing
<1>3. CASE e.stored # Oldest
    <2>1. Older(e) = [e EXCEPT !.stored = @ + 1, !.born = @ + 1]
        BY <1>1, <1>3 DEF Older
    <2>2. Older(e) \in EntryRec /\ Older(e).stored = e.stored + 1 /\ Older(e).born = e.born + 1
          /\ Older(e).lag = e.lag /\ Older(e).size = e.size
        <3> DEFINE n == e.stored + 1
        <3> DEFINE m == e.born + 1
        <3>1. n \in Int /\ m \in Int /\ Older(e) = [[e EXCEPT !.stored = n] EXCEPT !.born = m]
            BY <1>1, <2>1 DEF EntryRec
        <3> HIDE DEF n, m
        <3>2. /\ Older(e) \in EntryRec /\ Older(e).stored = n /\ Older(e).born = m
              /\ Older(e).lag = e.lag /\ Older(e).size = e.size
            BY <1>1, <3>1 DEF EntryRec
        <3> QED BY <3>2 DEF n, m
    <2>3. e.born + 1 = e.lag + (e.stored + 1)
        BY <1>1, CacheAssumption DEF Sound, EntryRec
    <2>4. Sound(Older(e)) /\ Older(e).stored >= 0
        BY <1>1, <2>2, <2>3 DEF Sound, EntryRec
    <2> QED BY <1>1, <2>2, <2>4 DEF Nothing, EntryRec
<1> QED BY <1>2, <1>3

LEMMA CacheTickStep ==
    ASSUME CacheInv, CacheTick
    PROVE  CacheInv'
<1>1. EntriesOK /\ BytesKept /\ HandlersOK /\ WithinLimits
    BY DEF CacheInv
<1>2. Older(Nothing) = Nothing
    BY DEF Older, Nothing
<1>3. /\ entries' = [k \in CacheKeys |-> Older(entries[k])]
      /\ found' = [h \in Handlers |-> Older(found[h])]
      /\ wait' = [h \in Handlers |-> IF phase[h] = "idle" THEN 0 ELSE wait[h] + 1]
      /\ bytes' = bytes /\ phase' = phase /\ asked' = asked
      /\ \A h \in Handlers : phase[h] = "idle" \/ wait[h] < Latency
    BY DEF CacheTick
<1>4. ASSUME NEW k \in CacheKeys
      PROVE  /\ Present(k)' <=> Present(k)
             /\ entries'[k].size = entries[k].size
             /\ Present(k) => Sound(entries'[k])
    BY <1>1, <1>2, <1>3, OlderIs DEF EntriesOK, Present, Nothing
<1>5. Kept' = Kept
    BY <1>4 DEF Kept
<1>6. EntriesOK'
    BY <1>1, <1>3, <1>4 DEF EntriesOK, Sound, EntryRec
<1>7. ContentsIn(entries', Kept) = ContentsIn(entries, Kept)
    <2> DEFINE f == entries'
    <2>1. \A k \in Kept : f[k].size = entries[k].size
        BY <1>4 DEF Kept
    <2> HIDE DEF f
    <2>2. ContentsIn(f, Kept) = ContentsIn(entries, Kept)
        BY <2>1, ContentsAgree
    <2> QED BY <2>2 DEF f
<1>8. BytesKept'
    <2>1. bytes = Cardinality(ContentsIn(entries, Kept)) /\ IsFiniteSet(Kept)
        BY <1>1 DEF BytesKept, BytesExact, BytesOf, Contents, ContentsIn
    <2>2. bytes' = Cardinality(ContentsIn(entries', Kept')) /\ IsFiniteSet(Kept')
        BY <1>3, <1>5, <1>7, <2>1
    <2> QED BY <2>2 DEF BytesKept, BytesExact, BytesOf, Contents, ContentsIn
<1>9. HandlersOK'
    <2>1. ASSUME NEW h \in Handlers
          PROVE  wait'[h] \in 0..Latency /\ (phase[h] # "idle" => wait'[h] = wait[h] + 1)
        BY <1>1, <1>3, CacheAssumption DEF HandlersOK
    <2>2. ASSUME NEW h \in Handlers
          PROVE  Held(h)'
        <3>1. CASE found[h] = Nothing
            BY <1>2, <1>3, <3>1 DEF Held, Nothing
        <3>2. CASE found[h] # Nothing
            <4>1. Sound(found[h]) /\ phase[h] = "fetching" /\ found[h].stored <= TTL + MaxStale + wait[h]
                BY <1>1, <3>2 DEF HandlersOK, Held
            <4>2. Sound(found'[h]) /\ found'[h].stored <= found[h].stored + 1
                BY <1>3, <4>1, OlderIs
            <4>3. wait[h] \in Nat /\ wait'[h] = wait[h] + 1
                BY <1>1, <2>1, <4>1 DEF HandlersOK
            <4>4. found'[h].stored <= TTL + MaxStale + wait'[h]
                BY <4>1, <4>2, <4>3, CacheAssumption DEF Sound, EntryRec
            <4> QED BY <1>3, <4>1, <4>2, <4>4 DEF Held, Sound, EntryRec
        <3> QED BY <3>1, <3>2
    <2> QED BY <1>1, <1>3, <2>1, <2>2 DEF HandlersOK
<1>10. WithinLimits'
    <2>1. OverLimit(Kept, bytes)' => OverLimit(Kept, bytes)
        BY <1>3, <1>5 DEF OverLimit
    <2> QED BY <1>1, <1>3, <2>1 DEF WithinLimits
<1>11. AnswersInTime'
    BY NoReplyIsInTime DEF CacheTick
<1> QED BY <1>6, <1>8, <1>9, <1>10, <1>11 DEF CacheInv

LEMMA CacheInvStep ==
    CacheInv /\ [CacheNext]_cacheVars => CacheInv'
<1> SUFFICES ASSUME CacheInv, [CacheNext]_cacheVars PROVE CacheInv'
    OBVIOUS
<1>1. CASE UNCHANGED cacheVars
    <2>1. \A h \in Handlers : phase'[h] = phase[h]
        BY <1>1 DEF cacheVars
    <2>2. EntriesOK' /\ BytesKept' /\ WithinLimits'
        BY <1>1, <2>1, LosesStep DEF CacheInv, Loses, cacheVars, cache
    <2>3. HandlersOK' /\ AnswersInTime'
        BY <1>1 DEF CacheInv, cacheVars, HandlersOK, Held, Sound, EntryRec, Nothing,
                    AnswersInTime, ServedInTime, AgeIsTold
    <2> QED BY <2>2, <2>3 DEF CacheInv
<1> QED
    BY <1>1, HandlerStep, StoreStep, EvictStep, CacheTickStep DEF CacheNext, Store

-----------------------------------------------------------------------------
(* The theorems: a behaviour is one component's, the others stand still *)

RequestsInv == ThrottleInv /\ LimitsInv /\ CacheInv

LEMMA RequestsInvariant == Spec => []RequestsInv
<1>1. Init => RequestsInv
    BY ThrottleInvInit, LimitsInvInit, CacheInvInit DEF Init, RequestsInv
<1>2. RequestsInv /\ [Next]_vars => RequestsInv'
    <2> SUFFICES ASSUME RequestsInv, [Next]_vars PROVE RequestsInv'
        OBVIOUS
    <2>1. [ThrottleNext]_throttleVars /\ [LimitsNext]_limitsVars /\ [CacheNext]_cacheVars
        BY DEF Next, vars
    <2> QED
        BY <2>1, ThrottleInvStep, LimitsInvStep, CacheInvStep DEF RequestsInv
<1> QED BY <1>1, <1>2, PTL DEF Spec

\* module_service.go:703 and 724: a download is only passed over while a write
\* for its key is under way or a row tells of one from the same interval, unless
\* that row's age, or a delete of its module since, has taken it.
THEOREM FailedWritesAreRetried == Spec => []PassedOverOnlyIfNoted
<1>1. RequestsInv => PassedOverOnlyIfNoted
    <2> SUFFICES ASSUME RequestsInv, NEW k \in UsageKeys, expiresAt[k] # 0
                 PROVE  \/ rows[k] >= expiresAt[k] - UsageInterval
                        \/ \E q \in Downloads : noting[q] = k /\ step[q] \in {"writing", "forgetting"}
                        \/ expiresAt[k] - UsageInterval < now - UsageRetention
                        \/ table = "release_usage" /\ k \in swept
        BY DEF PassedOverOnlyIfNoted
    <2>1. Noted(k) /\ ThrottleTypes
        BY DEF RequestsInv, ThrottleInv
    <2> QED BY <2>1, ThrottleAssumption DEF Noted, ThrottleTypes
<1> QED BY <1>1, RequestsInvariant, PTL

\* postgres.go:516 and rate_limiter.go:87: in a window's length, less the delay
\* of a request, a client gets in no more than twice the limit.
THEOREM LimitHolds == Spec => []TwiceTheLimit
<1>1. ASSUME LimitsInv, NEW c \in Clients
      PROVE  Cardinality(Admissions(c)) <= 2 * Limit
    <2>1. TwoWindows(buckets[c], admitted[c]) /\ Admissions(c) = AdmissionsOf(admitted[c])
        BY <1>1 DEF LimitsInv, Admissions, AdmissionsOf
    <2>2. PICK Old \in SUBSET Admissions(c) :
             Cardinality(Old) <= Limit /\ Cardinality(Admissions(c) \ Old) <= Limit
        BY <2>1 DEF TwoWindows
    <2>3. IsFiniteSet(Admissions(c)) /\ Admissions(c) \cap Old = Old
        BY <2>1 DEF TwoWindows
    <2>4. /\ Cardinality(Old) \in Nat /\ Cardinality(Admissions(c)) \in Nat
          /\ Cardinality(Admissions(c) \ Old) = Cardinality(Admissions(c)) - Cardinality(Old)
        <3>1. /\ IsFiniteSet(Old) /\ IsFiniteSet(Admissions(c) \ Old)
              /\ Cardinality(Admissions(c) \ Old)
                   = Cardinality(Admissions(c)) - Cardinality(Admissions(c) \cap Old)
            BY <2>3, FS_Subset, FS_Difference
        <3> QED BY <2>3, <3>1, FS_CardinalityType
    <2> QED BY <2>2, <2>4, LimitAssumption
<1>2. RequestsInv => TwiceTheLimit
    BY <1>1 DEF RequestsInv, TwiceTheLimit
<1> QED BY <1>2, RequestsInvariant, PTL

\* expiry_set.go:72, rate_limiter.go:80, cache.go:68 and 101: the tables a replica
\* keeps for its clients stay within their bounds, and the bytes the cache counts
\* are the bytes it keeps.
THEOREM MemoryIsBounded == Spec => []TablesBounded
<1>1. RequestsInv => TablesBounded
    <2> SUFFICES ASSUME RequestsInv PROVE TablesBounded
        OBVIOUS
    <2>1. WithinCapacity /\ WithinLimits /\ BytesExact
        BY DEF RequestsInv, ThrottleInv, Capacity, CacheInv, BytesKept
    <2>2. BucketsBounded
        BY DEF RequestsInv, LimitsInv, BucketsFit, BucketsBounded
    <2> QED BY <2>1, <2>2 DEF TablesBounded
<1> QED BY <1>1, RequestsInvariant, PTL

\* forge_proxy.go:316 and 1052: no cached answer is served beyond its time, or
\* with an Age below its real one.
THEOREM AgesAreTrue == Spec => []AnswersInTime
<1>1. RequestsInv => AnswersInTime
    BY DEF RequestsInv, CacheInv
<1> QED BY <1>1, RequestsInvariant, PTL
=============================================================================
