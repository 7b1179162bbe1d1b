---------------------------- MODULE WorkersProofs ----------------------------
(***************************************************************************)
(* Theorems about the refresh pool, the opening of the database, the       *)
(* module lock of the SQLite store and the background jobs, for every set  *)
(* of modules, workers, processes, rows, callers and replicas: no module   *)
(* is refreshed twice in a cycle and a cycle that returned left nothing    *)
(* behind (CyclesLeaveNothing); who serves has a whole schema              *)
(* (ServersHaveWholeSchemas), of the version it knows (VersionsNeverFall); *)
(* the counted semaphores are one lock, as ModuleLockPromise says          *)
(* (PromiseIsKept); the lease keeps cleanups apart, because a run ends     *)
(* well before the lease that it took does (OneCleanerAtATime).            *)
(***************************************************************************)
EXTENDS MCWorkers, FiniteSetTheorems, SequenceTheorems, TLAPS

-----------------------------------------------------------------------------
(* The refresh pool: sequences *)

LEMMA OldestAre ==
    ASSUME order \in Seq(Modules), IsInjective(order), order # <<>>
    PROVE  LET s == OldestFirst(BatchLimit) IN
           s \in Seq(Modules) /\ IsInjective(s) /\ Len(s) \in Nat \ {0}
<1> DEFINE n == IF BatchLimit < Len(order) THEN BatchLimit ELSE Len(order)
<1>1. n \in 1..Len(order)
    BY PoolAssumption
<1>2. OldestFirst(BatchLimit) = SubSeq(order, 1, n)
    BY DEF OldestFirst
<1> HIDE DEF n
<1>3. /\ SubSeq(order, 1, n) \in Seq(Modules) /\ Len(SubSeq(order, 1, n)) = n
      /\ \A i \in 1..n : SubSeq(order, 1, n)[i] = order[i]
    BY <1>1
<1> QED BY <1>1, <1>2, <1>3 DEF IsInjective

\* A module that was tried goes to the end.
LEMMA NotedIs ==
    ASSUME order \in Seq(Modules), IsInjective(order), NEW m \in ToSet(order)
    PROVE  /\ Noted(m) \in Seq(Modules) /\ Noted(m) # <<>>
           /\ IsInjective(Noted(m)) /\ ToSet(order) \subseteq ToSet(Noted(m))
<1> DEFINE i == CHOOSE i \in DOMAIN order : order[i] = m
<1>1. i \in 1..Len(order) /\ order[i] = m /\ m \in Modules
    BY DEF ToSet
<1>2. Noted(m) = Append(RemoveAt(order, i), m)
    BY DEF Noted
<1> HIDE DEF i
<1> DEFINE a == SubSeq(order, 1, i - 1)
<1> DEFINE b == SubSeq(order, i + 1, Len(order))
<1> DEFINE r == a \o b
<1> DEFINE n == Len(order) - 1
<1> DEFINE was(j) == IF j < i THEN j ELSE j + 1
<1>3. a \in Seq(Modules) /\ Len(a) = i - 1 /\ \A j \in 1..(i - 1) : a[j] = order[j]
    BY <1>1
<1>4. b \in Seq(Modules) /\ Len(b) = Len(order) - i /\ \A j \in 1..(Len(order) - i) : b[j] = order[i + j]
    BY <1>1
<1>5. RemoveAt(order, i) = r
    BY DEF RemoveAt
<1> HIDE DEF a, b
<1>6. /\ r \in Seq(Modules) /\ Len(r) = Len(a) + Len(b)
      /\ \A j \in 1..(Len(a) + Len(b)) : r[j] = IF j <= Len(a) THEN a[j] ELSE b[j - Len(a)]
    BY <1>3, <1>4
<1> HIDE DEF r
<1>7. n \in Nat /\ Len(r) = n
    BY <1>1, <1>3, <1>4, <1>6
<1>8. \A j \in 1..n : was(j) \in 1..Len(order) /\ was(j) # i /\ r[j] = order[was(j)]
    <2> SUFFICES ASSUME NEW j \in 1..n
                 PROVE  was(j) \in 1..Len(order) /\ was(j) # i /\ r[j] = order[was(j)]
        OBVIOUS
    <2>0. /\ Len(order) \in Nat /\ i \in Nat /\ i <= Len(order) /\ 1 <= i
          /\ Len(a) + Len(b) = n /\ j \in Nat /\ 1 <= j /\ j <= n
        BY <1>1, <1>3, <1>4
    <2>5. r[j] = IF j <= i - 1 THEN a[j] ELSE b[j - (i - 1)]
        BY <1>3, <1>6, <2>0
    <2>1. CASE j < i
        <3>1. j \in 1..(i - 1)
            BY <2>0, <2>1
        <3>2. r[j] = order[j]
            BY <1>3, <2>0, <2>5, <3>1
        <3> QED BY <2>0, <2>1, <3>2
    <2>2. CASE ~(j < i)
        <3>1. r[j] = b[j - (i - 1)]
            BY <2>0, <2>2, <2>5
        <3>2. j - (i - 1) \in 1..(Len(order) - i)
            BY <1>1, <2>2
        <3>3. i + (j - (i - 1)) = j + 1
            BY <1>1
        <3> QED BY <1>1, <1>4, <2>2, <3>1, <3>2, <3>3
    <2> QED BY <2>1, <2>2
<1>9. \A j, k \in 1..n : was(j) = was(k) => j = k
    BY <1>1
<1> DEFINE s == Append(r, m)
<1>10. /\ s \in Seq(Modules) /\ Len(s) = n + 1
       /\ \A j \in 1..n : s[j] = r[j]
       /\ s[n + 1] = m
    BY <1>1, <1>6, <1>7
<1> HIDE DEF s
<1>11. \A j \in 1..n : s[j] = order[was(j)] /\ was(j) \in 1..Len(order) /\ was(j) # i
    BY <1>8, <1>10
<1> HIDE DEF was
<1>12. \A j, k \in 1..Len(order) : order[j] = order[k] => j = k
    BY DEF IsInjective
<1>13. IsInjective(s)
    <2> SUFFICES ASSUME NEW j \in 1..(n + 1), NEW k \in 1..(n + 1), s[j] = s[k], j # k PROVE FALSE
        BY <1>7, <1>10 DEF IsInjective
    <2>1. (j \in 1..n \/ j = n + 1) /\ (k \in 1..n \/ k = n + 1)
        BY <1>7
    <2> HIDE DEF n
    <2>2. CASE j \in 1..n /\ k \in 1..n
        BY <1>9, <1>11, <1>12, <2>2
    <2>3. CASE j = n + 1 \/ k = n + 1
        BY <1>1, <1>10, <1>11, <1>12, <2>1, <2>3
    <2> QED BY <2>1, <2>2, <2>3
<1>14. ToSet(order) \subseteq ToSet(s)
    <2> SUFFICES ASSUME NEW k \in 1..Len(order) PROVE order[k] \in ToSet(s)
        BY DEF ToSet
    <2>1. DOMAIN s = 1..(n + 1)
        BY <1>10
    <2>2. CASE k = i
        BY <1>1, <1>7, <1>10, <2>1, <2>2 DEF ToSet
    <2>3. CASE k < i
        BY <1>1, <1>11, <2>1, <2>3 DEF ToSet, was
    <2>4. CASE k > i
        <3>1. k - 1 \in 1..n /\ was(k - 1) = k
            BY <1>1, <2>4 DEF was
        <3> QED BY <1>7, <1>11, <2>1, <3>1 DEF ToSet
    <2> QED BY <1>1, <2>2, <2>3, <2>4
<1>15. Noted(m) = s /\ s # <<>>
    BY <1>2, <1>5, <1>7, <1>10 DEF s
<1> QED BY <1>10, <1>13, <1>14, <1>15

-----------------------------------------------------------------------------
(* The refresh pool: the inductive invariant *)

Stages == {"stopped", "receiving", "syncing", "sending"}
AtWork(w) == stage[w] \in {"syncing", "sending"}

PoolTypes ==
    /\ order \in Seq(Modules) /\ IsInjective(order) /\ order # <<>>
    /\ toFeed \in Seq(Modules) /\ results \in Seq(Modules)
    /\ stage \in [Workers -> Stages] /\ refreshing \in [Workers -> Modules]
    /\ team \subseteq Workers
    /\ fed \in BOOLEAN /\ resultsClosed \in BOOLEAN
    /\ ToSet(toFeed) \subseteq batch /\ batch \subseteq ToSet(order)
    /\ \A w \in Workers : AtWork(w) => refreshing[w] \in batch

\* A module is waiting, with one worker, in the channel of results, or counted.
EachOnce ==
    /\ IsInjective(toFeed)
    /\ ToSet(toFeed) \cap (attempted \cup ToSet(results)) = {}
    /\ OneAttemptEach

\* What has stopped, in the order in which it stops.
StopsInOrder ==
    /\ cycle = "running" => team # {}
    /\ \A w \in Workers \ team : stage[w] = "stopped"
    /\ \A w \in team : stage[w] = "stopped" => fed
    /\ resultsClosed => TeamDone
    /\ cycle = "idle" => resultsClosed

PoolInv == PoolTypes /\ EachOnce /\ StopsInOrder /\ NothingLeftBehind

LEMMA PoolInvInit == PoolInit => PoolInv
<1> SUFFICES ASSUME PoolInit PROVE PoolInv
    OBVIOUS
<1>1. Cardinality(Modules) \in Nat \ {0}
    BY PoolAssumption, FS_CardinalityType, FS_EmptySet
<1>2. order \in [1..Cardinality(Modules) -> Modules]
      /\ \A i, j \in 1..Cardinality(Modules) : i # j => order[i] # order[j]
    BY Zenon DEF PoolInit, SetToSeqs
<1>3. order \in Seq(Modules) /\ Len(order) = Cardinality(Modules) /\ IsInjective(order)
    BY <1>1, <1>2 DEF IsInjective
<1>4. order # <<>> /\ order[1] \in Modules
    BY <1>1, <1>2, <1>3
<1>5. \A w \in Workers : stage[w] = "stopped"
    BY DEF PoolInit
<1>6. toFeed = <<>> /\ results = <<>> /\ toFeed \in Seq(Modules) /\ ToSet(toFeed) = {} /\ ToSet(results) = {}
      /\ IsInjective(toFeed)
    BY DEF PoolInit, ToSet, IsInjective
<1>7. refreshing \in [Workers -> Modules]
    BY <1>4 DEF PoolInit
<1>8. PoolTypes
    BY <1>3, <1>4, <1>5, <1>6, <1>7 DEF PoolInit, PoolTypes, AtWork, Stages
<1>9. EachOnce
    BY <1>5, <1>6 DEF EachOnce, OneAttemptEach
<1>10. StopsInOrder /\ NothingLeftBehind
    BY <1>5, <1>6 DEF PoolInit, StopsInOrder, NothingLeftBehind, TeamDone
<1> QED BY <1>8, <1>9, <1>10 DEF PoolInv

\* A cycle begins with workers.
LEMMA TeamIsThere ==
    ASSUME NEW n \in Nat \ {0}, NEW W \in SUBSET Workers, Cardinality(W) = WorkerCount(n)
    PROVE  W # {}
<1>1. Cardinality(Workers) \in Nat \ {0}
    BY PoolAssumption, FS_CardinalityType, FS_EmptySet
<1>2. WorkerCount(n) # 0
    BY <1>1 DEF WorkerCount
<1> QED BY <1>2, FS_EmptySet

LEMMA PoolStarts ==
    ASSUME PoolInv, StartCycle
    PROVE  PoolInv'
<1> DEFINE s == OldestFirst(BatchLimit)
<1>1. s \in Seq(Modules) /\ IsInjective(s) /\ Len(s) \in Nat \ {0}
    BY OldestAre DEF PoolInv, PoolTypes
<1>2. ToSet(s) \subseteq ToSet(order)
    <2> DEFINE n == IF BatchLimit < Len(order) THEN BatchLimit ELSE Len(order)
    <2>1. s = SubSeq(order, 1, n) /\ n \in Nat /\ n <= Len(order) /\ order \in Seq(Modules)
        BY PoolAssumption DEF OldestFirst, PoolInv, PoolTypes
    <2> HIDE DEF s, n
    <2>2. DOMAIN s = 1..n /\ \A i \in 1..n : s[i] = order[i] /\ i \in 1..Len(order)
        BY <2>1
    <2> QED BY <2>1, <2>2 DEF ToSet
<1>3. PICK W \in SUBSET Workers : /\ Cardinality(W) = WorkerCount(Len(s)) /\ team' = W
                                  /\ stage' = [w \in Workers |-> IF w \in W THEN "receiving" ELSE "stopped"]
    BY DEF StartCycle
<1>4. W # {}
    BY <1>1, <1>3, TeamIsThere
<1>5. /\ toFeed' = s /\ fed' = FALSE /\ results' = <<>> /\ resultsClosed' = FALSE /\ cycle' = "running"
      /\ batch' = ToSet(s) /\ attempted' = {} /\ order' = order /\ refreshing' = refreshing
    BY DEF StartCycle
<1> HIDE DEF s
<1>6. \A w \in Workers : stage'[w] \in {"receiving", "stopped"} /\ (stage'[w] = "stopped" <=> w \notin W)
    BY <1>3
<1>7. results' \in Seq(Modules) /\ ToSet(results') = {}
    BY <1>5 DEF ToSet
<1>8. PoolTypes'
    BY <1>1, <1>2, <1>3, <1>5, <1>6, <1>7 DEF PoolInv, PoolTypes, AtWork, Stages
<1>9. EachOnce'
    BY <1>1, <1>5, <1>6, <1>7 DEF EachOnce, OneAttemptEach
<1>10. StopsInOrder' /\ NothingLeftBehind'
    BY <1>3, <1>4, <1>5, <1>6 DEF StopsInOrder, NothingLeftBehind
<1> QED BY <1>8, <1>9, <1>10 DEF PoolInv

LEMMA PoolHandsOver ==
    ASSUME PoolInv, NEW w \in Workers, HandOver(w)
    PROVE  PoolInv'
<1> DEFINE m == Head(toFeed)
<1>1. toFeed \in Seq(Modules) /\ toFeed # <<>> /\ IsInjective(toFeed)
    BY DEF HandOver, PoolInv, PoolTypes, EachOnce
<1>2. /\ m \in ToSet(toFeed) /\ m \in Modules
      /\ Tail(toFeed) \in Seq(Modules) /\ IsInjective(Tail(toFeed))
      /\ ToSet(Tail(toFeed)) \subseteq ToSet(toFeed) \ {m}
    <2>1. /\ Len(toFeed) \in Nat \ {0} /\ m = toFeed[1] /\ Len(Tail(toFeed)) = Len(toFeed) - 1
          /\ \A i \in 1..(Len(toFeed) - 1) : Tail(toFeed)[i] = toFeed[i + 1]
          /\ Tail(toFeed) \in Seq(Modules)
        BY <1>1
    <2>2. DOMAIN toFeed = 1..Len(toFeed) /\ DOMAIN Tail(toFeed) = 1..(Len(toFeed) - 1)
        BY <1>1, <2>1
    <2>3. \A i, j \in 1..Len(toFeed) : toFeed[i] = toFeed[j] => i = j
        BY <1>1, <2>2 DEF IsInjective
    <2>4. m \in ToSet(toFeed) /\ m \in Modules
        BY <1>1, <2>1, <2>2 DEF ToSet
    <2>5. IsInjective(Tail(toFeed))
        BY <2>1, <2>2, <2>3 DEF IsInjective
    <2>6. ToSet(Tail(toFeed)) \subseteq ToSet(toFeed) \ {m}
        BY <2>1, <2>2, <2>3 DEF ToSet
    <2> QED BY <2>1, <2>4, <2>5, <2>6
<1>3. /\ refreshing' = [refreshing EXCEPT ![w] = m] /\ stage' = [stage EXCEPT ![w] = "syncing"]
      /\ toFeed' = Tail(toFeed) /\ stage[w] = "receiving" /\ ~fed
      /\ UNCHANGED <<order, cycle, fed, team, results, resultsClosed, batch, attempted, outcome>>
    BY DEF HandOver, Taken, collector
<1> HIDE DEF m
<1>4. /\ refreshing'[w] = m /\ stage'[w] = "syncing"
      /\ \A v \in Workers \ {w} : refreshing'[v] = refreshing[v] /\ stage'[v] = stage[v]
    BY <1>3 DEF PoolInv, PoolTypes
<1>5. PoolTypes'
    BY <1>2, <1>3, <1>4 DEF PoolInv, PoolTypes, AtWork, Stages
<1>6. \A v \in Workers : AtWork(v) => refreshing[v] \notin ToSet(toFeed)
    BY DEF PoolInv, EachOnce, OneAttemptEach, AtWork
<1>7. EachOnce'
    <2>1. m \notin attempted \cup ToSet(results) \cup ToSet(Tail(toFeed))
        BY <1>2 DEF PoolInv, EachOnce
    <2>2. OneAttemptEach'
        BY <1>2, <1>3, <1>4, <1>6, <2>1 DEF PoolInv, EachOnce, OneAttemptEach, AtWork
    <2> QED BY <1>2, <1>3, <2>2 DEF PoolInv, EachOnce
<1>8. StopsInOrder' /\ NothingLeftBehind'
    BY <1>3, <1>4 DEF PoolInv, StopsInOrder, NothingLeftBehind, TeamDone
<1> QED BY <1>5, <1>7, <1>8 DEF PoolInv

LEMMA PoolAttempts ==
    ASSUME PoolInv, NEW w \in Workers, Attempt(w)
    PROVE  PoolInv'
<1>1. /\ stage[w] = "syncing" /\ stage' = [stage EXCEPT ![w] = "sending"]
      /\ order' = Noted(refreshing[w]) \/ order' = order
      /\ UNCHANGED <<cycle, toFeed, fed, team, refreshing, results, resultsClosed, batch, attempted, outcome>>
    BY DEF Attempt, feeder
<1>2. refreshing[w] \in ToSet(order)
    BY <1>1 DEF PoolInv, PoolTypes, AtWork
<1>3. order' \in Seq(Modules) /\ IsInjective(order') /\ order' # <<>> /\ ToSet(order) \subseteq ToSet(order')
    BY <1>1, <1>2, NotedIs DEF PoolInv, PoolTypes
<1>4. stage'[w] = "sending" /\ \A v \in Workers \ {w} : stage'[v] = stage[v]
    BY <1>1 DEF PoolInv, PoolTypes
<1>5. PoolTypes'
    BY <1>1, <1>3, <1>4 DEF PoolInv, PoolTypes, AtWork, Stages
<1>6. EachOnce'
    BY <1>1, <1>4 DEF PoolInv, EachOnce, OneAttemptEach
<1>7. StopsInOrder' /\ NothingLeftBehind'
    BY <1>1, <1>4 DEF PoolInv, StopsInOrder, NothingLeftBehind, TeamDone
<1> QED BY <1>5, <1>6, <1>7 DEF PoolInv

LEMMA PoolSends ==
    ASSUME PoolInv, NEW w \in Workers, SendResult(w)
    PROVE  PoolInv'
<1> DEFINE m == refreshing[w]
<1>1. /\ stage[w] = "sending" /\ stage' = [stage EXCEPT ![w] = "receiving"]
      /\ results' = Append(results, m)
      /\ UNCHANGED <<order, cycle, toFeed, fed, team, refreshing, resultsClosed, batch, attempted, outcome>>
    BY DEF SendResult, feeder, collector
<1>2. results' \in Seq(Modules) /\ ToSet(results') = ToSet(results) \cup {m}
    <2>1. m \in Modules /\ results \in Seq(Modules)
        BY DEF PoolInv, PoolTypes
    <2>2. /\ results' \in Seq(Modules) /\ Len(results') = Len(results) + 1 /\ Len(results) \in Nat
          /\ \A i \in 1..Len(results) : results'[i] = results[i]
          /\ results'[Len(results) + 1] = m
        BY <1>1, <2>1
    <2>3. DOMAIN results' = 1..(Len(results) + 1) /\ DOMAIN results = 1..Len(results)
        BY <2>1, <2>2
    <2> QED BY <2>2, <2>3 DEF ToSet
<1>3. stage'[w] = "receiving" /\ \A v \in Workers \ {w} : stage'[v] = stage[v]
    BY <1>1 DEF PoolInv, PoolTypes
<1>4. PoolTypes'
    BY <1>1, <1>2, <1>3 DEF PoolInv, PoolTypes, AtWork, Stages
<1>5. m \notin ToSet(toFeed) /\ \A v \in Workers \ {w} : AtWork(v) => refreshing[v] # m
    BY <1>1 DEF PoolInv, EachOnce, OneAttemptEach, AtWork
<1>6. EachOnce'
    BY <1>1, <1>2, <1>3, <1>5 DEF PoolInv, EachOnce, OneAttemptEach, AtWork
<1>7. StopsInOrder' /\ NothingLeftBehind'
    BY <1>1, <1>3 DEF PoolInv, StopsInOrder, NothingLeftBehind, TeamDone
<1> QED BY <1>4, <1>6, <1>7 DEF PoolInv

LEMMA PoolCollects ==
    ASSUME PoolInv, Collect
    PROVE  PoolInv'
<1> DEFINE m == Head(results)
<1>1. /\ cycle = "running" /\ results # <<>> /\ attempted' = attempted \cup {m} /\ results' = Tail(results)
      /\ UNCHANGED <<order, cycle, toFeed, fed, team, stage, refreshing, resultsClosed, batch, outcome>>
    BY DEF Collect, feeder, crew
<1>2. m \in ToSet(results) /\ results' \in Seq(Modules) /\ ToSet(results') \subseteq ToSet(results)
    <2>1. results \in Seq(Modules)
        BY DEF PoolInv, PoolTypes
    <2>2. /\ Len(results) \in Nat \ {0} /\ m = results[1] /\ Len(results') = Len(results) - 1
          /\ \A i \in 1..(Len(results) - 1) : results'[i] = results[i + 1]
          /\ results' \in Seq(Modules)
        BY <1>1, <2>1
    <2>3. DOMAIN results = 1..Len(results) /\ DOMAIN results' = 1..(Len(results) - 1)
        BY <2>1, <2>2
    <2> QED BY <2>2, <2>3 DEF ToSet
<1> HIDE DEF m
<1>3. PoolTypes'
    BY <1>1, <1>2 DEF PoolInv, PoolTypes, AtWork
<1>4. EachOnce'
    BY <1>1, <1>2 DEF PoolInv, EachOnce, OneAttemptEach
<1>5. StopsInOrder' /\ NothingLeftBehind'
    BY <1>1 DEF PoolInv, StopsInOrder, NothingLeftBehind, TeamDone
<1> QED BY <1>3, <1>4, <1>5 DEF PoolInv

LEMMA PoolReturns ==
    ASSUME PoolInv, ReturnCycle
    PROVE  PoolInv'
<1>1. /\ cycle = "running" /\ resultsClosed /\ results = <<>> /\ cycle' = "idle"
      /\ outcome' = IF Complete THEN "nil" ELSE "error"
      /\ UNCHANGED <<order, toFeed, fed, team, stage, refreshing, results, resultsClosed, batch, attempted>>
    BY DEF ReturnCycle, feeder, crew
<1>2. \A w \in Workers : stage[w] = "stopped"
    BY <1>1 DEF PoolInv, StopsInOrder, TeamDone
<1>3. fed
    BY <1>1, <1>2 DEF PoolInv, StopsInOrder, PoolTypes
<1>4. outcome' = "nil" => attempted = batch
    BY <1>1 DEF Complete
<1>5. attempted = batch => toFeed = <<>>
    <2> SUFFICES ASSUME attempted = batch, toFeed # <<>> PROVE FALSE
        OBVIOUS
    <2>1. toFeed \in Seq(Modules) /\ ToSet(toFeed) \subseteq batch /\ ToSet(toFeed) \cap attempted = {}
        BY DEF PoolInv, PoolTypes, EachOnce
    <2>2. toFeed[1] \in ToSet(toFeed)
        BY <2>1 DEF ToSet
    <2> QED BY <2>1, <2>2
<1>6. PoolTypes'
    BY <1>1 DEF PoolInv, PoolTypes, AtWork
<1>7. EachOnce'
    BY <1>1 DEF PoolInv, EachOnce, OneAttemptEach
<1>8. StopsInOrder'
    BY <1>1 DEF PoolInv, StopsInOrder, TeamDone
<1>9. NothingLeftBehind'
    BY <1>1, <1>2, <1>3, <1>4, <1>5 DEF NothingLeftBehind
<1> QED BY <1>6, <1>7, <1>8, <1>9 DEF PoolInv

LEMMA PoolInvStep ==
    ASSUME PoolInv, [PoolNext]_poolVars
    PROVE  PoolInv'
<1>1. CASE UNCHANGED poolVars
    BY <1>1 DEF poolVars, PoolInv, PoolTypes, EachOnce, OneAttemptEach, StopsInOrder, TeamDone,
           NothingLeftBehind, AtWork
<1>2. CASE Interrupt
    BY <1>2 DEF Interrupt, feeder, crew, collector, PoolInv, PoolTypes, EachOnce, OneAttemptEach,
           StopsInOrder, TeamDone, NothingLeftBehind, AtWork
<1>3. CASE FeederStops
    BY <1>3 DEF FeederStops, collector, PoolInv, PoolTypes, EachOnce, OneAttemptEach,
           StopsInOrder, TeamDone, NothingLeftBehind, AtWork
<1>4. CASE CloseResults
    BY <1>4 DEF CloseResults, feeder, crew, collector, PoolInv, PoolTypes, EachOnce, OneAttemptEach,
           StopsInOrder, TeamDone, NothingLeftBehind, AtWork
<1>5. ASSUME NEW w \in Workers, WorkerStops(w)
      PROVE  PoolInv'
    <2>1. /\ stage[w] = "receiving" /\ fed /\ stage' = [stage EXCEPT ![w] = "stopped"]
          /\ UNCHANGED <<order, cycle, toFeed, fed, team, refreshing, results, resultsClosed, batch,
                         attempted, outcome>>
        BY <1>5 DEF WorkerStops, feeder, collector
    <2>2. stage'[w] = "stopped" /\ \A v \in Workers \ {w} : stage'[v] = stage[v]
        BY <2>1 DEF PoolInv, PoolTypes
    <2>3. PoolTypes'
        BY <2>1, <2>2 DEF PoolInv, PoolTypes, AtWork, Stages
    <2>4. EachOnce'
        BY <2>1, <2>2 DEF PoolInv, EachOnce, OneAttemptEach
    <2>5. StopsInOrder' /\ NothingLeftBehind'
        BY <2>1, <2>2 DEF PoolInv, StopsInOrder, NothingLeftBehind, TeamDone
    <2> QED BY <2>3, <2>4, <2>5 DEF PoolInv
<1> QED
    BY <1>1, <1>2, <1>3, <1>4, <1>5, PoolStarts, PoolHandsOver, PoolAttempts, PoolSends, PoolCollects,
       PoolReturns DEF PoolNext

\* No module is refreshed twice in a cycle, and once the cycle has returned
\* nobody works for it any more (module_service.go:1327 and 1330).
THEOREM CyclesLeaveNothing == Spec => []CyclesAreWhole
<1>1. Init => PoolInv
    BY PoolInvInit DEF Init
<1>2. PoolInv /\ [Next]_vars => PoolInv'
    <2>1. [Next]_vars => [PoolNext]_poolVars
        BY DEF Next, vars, poolVars
    <2> QED BY <2>1, PoolInvStep
<1>3. PoolInv => CyclesAreWhole
    BY DEF PoolInv, EachOnce, CyclesAreWhole
<1> QED BY <1>1, <1>2, <1>3, PTL DEF Spec

-----------------------------------------------------------------------------
(* The schema: what each part of the migration makes of it *)

Schemas ==
    [version : Nat, columns : SUBSET LaterColumns, rows : SUBSET ReleaseRows,
     ordered : SUBSET ReleaseRows, slugged : SUBSET ReleaseRows, checked : BOOLEAN,
     legacy : BOOLEAN, tokens : SUBSET LegacyTokens, keyed : BOOLEAN,
     mappings : [OIDCMappings -> Nat], indexed : BOOLEAN]

HasColumns(s) == s.columns = LaterColumns
Slugged(s)    == s.slugged = s.rows
Mapped(s)     == s.keyed /\ \A m \in OIDCMappings : s.mappings[m] < 2
WellKeyed(s)  == s.keyed => Mapped(s)
Granted(s)    == {m \in OIDCMappings : s.mappings[m] > 0}

\* Nothing that the schema has is undone.
Improves(s, t) ==
    /\ HasColumns(s) => HasColumns(t)
    /\ Unordered(s) = {} => Unordered(t) = {}
    /\ Slugged(s) => Slugged(t)
    /\ s.checked => t.checked
    /\ ~s.legacy => ~t.legacy
    /\ Mapped(s) => Mapped(t)
    /\ s.indexed => t.indexed
    /\ s.version <= t.version

\* ... and no token or mapping is lost, and nobody gets one.
Migrated(s, t) ==
    /\ t \in Schemas /\ Improves(s, t) /\ t.tokens = s.tokens /\ Granted(t) = Granted(s)
    /\ WellKeyed(s) => WellKeyed(t)

LEMMA NothingMigrated ==
    ASSUME NEW s \in Schemas
    PROVE  Migrated(s, s)
BY DEF Migrated, Improves, Schemas

LEMMA MigratedTwice ==
    ASSUME NEW s \in Schemas, NEW t, NEW u, Migrated(s, t), Migrated(t, u)
    PROVE  Migrated(s, u)
BY DEF Migrated, Improves, Schemas

LEMMA OneColumn ==
    ASSUME NEW s \in Schemas, NEW c \in LaterColumns
    PROVE  /\ Migrated(s, WithColumn(s, c))
           /\ WithColumn(s, c).columns = s.columns \cup {c} /\ WithColumn(s, c).version = s.version
<1>1. CASE c \in s.columns
    BY <1>1, NothingMigrated DEF WithColumn, HasColumn
<1>2. CASE c \notin s.columns
    <2> DEFINE t == [s EXCEPT !.columns = s.columns \cup {c}]
    <2>1. t \in Schemas /\ t.columns = s.columns \cup {c}
          /\ t.rows = s.rows /\ t.ordered = s.ordered /\ t.slugged = s.slugged
          /\ t.checked = s.checked /\ t.legacy = s.legacy /\ t.tokens = s.tokens
          /\ t.keyed = s.keyed /\ t.mappings = s.mappings /\ t.indexed = s.indexed /\ t.version = s.version
        BY DEF Schemas
    <2>2. WithColumn(s, c) = t
        BY <1>2 DEF WithColumn, HasColumn
    <2> HIDE DEF t
    <2>3. Migrated(s, t)
        BY <2>1 DEF Migrated, Improves, HasColumns, Unordered, Slugged, Mapped, WellKeyed, Granted, Schemas
    <2> QED BY <2>1, <2>2, <2>3
<1> QED BY <1>1, <1>2

LEMMA ColumnsMade ==
    ASSUME NEW s \in Schemas
    PROVE  LET t == WithColumns(s) IN Migrated(s, t) /\ HasColumns(t) /\ t.version = s.version
<1> DEFINE a == WithColumn(s, "md5")
<1> DEFINE b == WithColumn(a, "upstream_refreshed_at")
<1> DEFINE c == WithColumn(b, "email_verified")
<1> DEFINE d == WithColumn(c, "version_order")
<1>1. {"md5", "upstream_refreshed_at", "email_verified", "version_order"} = LaterColumns
    BY DEF LaterColumns
<1>2. Migrated(s, a) /\ a.columns = s.columns \cup {"md5"} /\ a.version = s.version /\ a \in Schemas
    BY <1>1, OneColumn DEF Migrated
<1> HIDE DEF a
<1>3. /\ Migrated(a, b) /\ b.columns = a.columns \cup {"upstream_refreshed_at"} /\ b.version = a.version
      /\ b \in Schemas
    BY <1>1, <1>2, OneColumn DEF Migrated
<1> HIDE DEF b
<1>4. Migrated(b, c) /\ c.columns = b.columns \cup {"email_verified"} /\ c.version = b.version /\ c \in Schemas
    BY <1>1, <1>3, OneColumn DEF Migrated
<1> HIDE DEF c
<1>5. Migrated(c, d) /\ d.columns = c.columns \cup {"version_order"} /\ d.version = c.version /\ d \in Schemas
    BY <1>1, <1>4, OneColumn DEF Migrated
<1>6. d = WithColumns(s)
    BY DEF WithColumns, WithUpstreamRefresh, WithReleaseMD5, a, b, c
<1> HIDE DEF d
<1>7. Migrated(s, d)
    BY <1>2, <1>3, <1>4, <1>5, MigratedTwice
<1>8. HasColumns(d)
    BY <1>1, <1>2, <1>3, <1>4, <1>5 DEF HasColumns, Schemas
<1> QED BY <1>2, <1>3, <1>4, <1>5, <1>6, <1>7, <1>8

\* The parts that change one field.
LEMMA PartsMade ==
    ASSUME NEW s \in Schemas
    PROVE  /\ Migrated(s, WithOrderKeys(s)) /\ Unordered(WithOrderKeys(s)) = {}
           /\ Migrated(s, WithSlugs(s)) /\ Slugged(WithSlugs(s))
           /\ Migrated(s, WithConstraints(s)) /\ WithConstraints(s).checked
           /\ Migrated(s, WithHashedTokens(s)) /\ ~WithHashedTokens(s).legacy
           /\ Migrated(s, WithIndexes(s)) /\ WithIndexes(s).indexed
           /\ \A row \in ReleaseRows : Migrated(s, WithOrderKey(s, row))
           /\ \A t \in {WithOrderKeys(s), WithSlugs(s), WithConstraints(s), WithHashedTokens(s), WithIndexes(s)} :
                  t.version = s.version
<1> USE DEF Migrated, Improves, HasColumns, Unordered, Slugged, Mapped, WellKeyed, Granted, Schemas
<1>1. /\ Migrated(s, WithOrderKeys(s)) /\ Unordered(WithOrderKeys(s)) = {}
      /\ WithOrderKeys(s).version = s.version
    BY DEF WithOrderKeys
<1>2. Migrated(s, WithSlugs(s)) /\ Slugged(WithSlugs(s)) /\ WithSlugs(s).version = s.version
    BY DEF WithSlugs
<1>3. /\ Migrated(s, WithConstraints(s)) /\ WithConstraints(s).checked
      /\ WithConstraints(s).version = s.version
    <2> DEFINE t == WithConstraints(s)
    <2>1. t \in Schemas /\ t.checked = TRUE
          /\ t.columns = s.columns /\ t.rows = s.rows /\ t.ordered = s.ordered /\ t.slugged = s.slugged
          /\ t.legacy = s.legacy /\ t.tokens = s.tokens /\ t.keyed = s.keyed /\ t.mappings = s.mappings
          /\ t.indexed = s.indexed /\ t.version = s.version
        BY DEF WithConstraints
    <2> HIDE DEF t
    <2>2. Improves(s, t)
        BY <2>1
    <2>3. Granted(t) = Granted(s) /\ (WellKeyed(s) => WellKeyed(t))
        BY <2>1
    <2>4. Migrated(s, t) /\ t.checked /\ t.version = s.version
        BY <2>1, <2>2, <2>3 DEF Migrated
    <2> QED BY <2>4 DEF t
<1>4. /\ Migrated(s, WithHashedTokens(s)) /\ ~WithHashedTokens(s).legacy
      /\ WithHashedTokens(s).version = s.version
    <2> DEFINE t == WithHashedTokens(s)
    <2>1. t \in Schemas /\ t.legacy = FALSE
          /\ t.columns = s.columns /\ t.rows = s.rows /\ t.ordered = s.ordered /\ t.slugged = s.slugged
          /\ t.checked = s.checked /\ t.tokens = s.tokens /\ t.keyed = s.keyed /\ t.mappings = s.mappings
          /\ t.indexed = s.indexed /\ t.version = s.version
        BY DEF WithHashedTokens
    <2> HIDE DEF t
    <2>2. Improves(s, t)
        BY <2>1
    <2>3. Granted(t) = Granted(s) /\ (WellKeyed(s) => WellKeyed(t))
        BY <2>1
    <2>4. Migrated(s, t) /\ ~t.legacy /\ t.version = s.version
        BY <2>1, <2>2, <2>3 DEF Migrated
    <2> QED BY <2>4 DEF t
<1>5. Migrated(s, WithIndexes(s)) /\ WithIndexes(s).indexed /\ WithIndexes(s).version = s.version
    <2> DEFINE t == WithIndexes(s)
    <2>1. t \in Schemas /\ t.indexed = TRUE
          /\ t.columns = s.columns /\ t.rows = s.rows /\ t.ordered = s.ordered /\ t.slugged = s.slugged
          /\ t.checked = s.checked /\ t.legacy = s.legacy /\ t.tokens = s.tokens /\ t.keyed = s.keyed
          /\ t.mappings = s.mappings /\ t.version = s.version
        BY DEF WithIndexes
    <2> HIDE DEF t
    <2>2. Improves(s, t)
        BY <2>1
    <2>3. Granted(t) = Granted(s) /\ (WellKeyed(s) => WellKeyed(t))
        BY <2>1
    <2>4. Migrated(s, t) /\ t.indexed /\ t.version = s.version
        BY <2>1, <2>2, <2>3 DEF Migrated
    <2> QED BY <2>4 DEF t
<1>6. \A row \in ReleaseRows : Migrated(s, WithOrderKey(s, row))
    BY DEF WithOrderKey
<1> QED BY <1>1, <1>2, <1>3, <1>4, <1>5, <1>6

LEMMA MappingsKeyed ==
    ASSUME NEW s \in Schemas
    PROVE  LET t == WithKeyedMappings(s) IN
           Migrated(s, t) /\ (WellKeyed(s) => Mapped(t)) /\ t.version = s.version
<1> DEFINE once == [m \in OIDCMappings |-> IF s.mappings[m] > 0 THEN 1 ELSE 0]
<1> DEFINE ms == IF s.keyed THEN s.mappings ELSE once
<1> DEFINE t == [s EXCEPT !.keyed = TRUE, !.mappings = ms]
<1>1. WithKeyedMappings(s) = t
    BY DEF WithKeyedMappings, Schemas
<1>2. ms \in [OIDCMappings -> Nat] /\ \A m \in OIDCMappings : ms[m] > 0 <=> s.mappings[m] > 0
    BY DEF Schemas
<1>3. ~s.keyed => \A m \in OIDCMappings : ms[m] < 2
    OBVIOUS
<1>4. s.keyed => ms = s.mappings
    OBVIOUS
<1> HIDE DEF ms
<1>5. t \in Schemas /\ t.keyed /\ t.mappings = ms /\ t.columns = s.columns
      /\ t.rows = s.rows /\ t.ordered = s.ordered /\ t.slugged = s.slugged
      /\ t.checked = s.checked /\ t.legacy = s.legacy /\ t.tokens = s.tokens
      /\ t.indexed = s.indexed /\ t.version = s.version
    BY <1>2 DEF Schemas
<1> HIDE DEF t
<1>6. Migrated(s, t)
    <2>1. Improves(s, t)
        BY <1>4, <1>5 DEF Improves, HasColumns, Unordered, Slugged, Mapped, Schemas
    <2>2. Granted(t) = Granted(s)
        BY <1>2, <1>5 DEF Granted
    <2>3. WellKeyed(s) => WellKeyed(t)
        BY <1>3, <1>4, <1>5 DEF WellKeyed, Mapped
    <2> QED BY <1>5, <2>1, <2>2, <2>3 DEF Migrated
<1> QED BY <1>1, <1>3, <1>4, <1>5, <1>6 DEF Mapped, WellKeyed

LEMMA VersionMade ==
    ASSUME NEW r, NEW s \in Schemas, supports[r] \in Nat, s.version <= supports[r]
    PROVE  LET t == WithVersion(r, s) IN
           Migrated(s, t) /\ t.version = supports[r] /\ t = [s EXCEPT !.version = supports[r]]
<1> DEFINE t == WithVersion(r, s)
<1>1. t \in Schemas /\ t.columns = s.columns /\ t.rows = s.rows /\ t.ordered = s.ordered
      /\ t.slugged = s.slugged /\ t.checked = s.checked /\ t.legacy = s.legacy /\ t.tokens = s.tokens
      /\ t.keyed = s.keyed /\ t.mappings = s.mappings /\ t.indexed = s.indexed /\ t.version = supports[r]
    BY DEF WithVersion, Schemas
<1>2. t = [s EXCEPT !.version = supports[r]]
    BY DEF WithVersion
<1> HIDE DEF t
<1>3. Improves(s, t)
    BY <1>1 DEF Improves, HasColumns, Unordered, Slugged, Mapped
<1>4. Granted(t) = Granted(s) /\ (WellKeyed(s) => WellKeyed(t))
    BY <1>1 DEF Granted, WellKeyed, Mapped
<1>5. Migrated(s, t)
    BY <1>1, <1>3, <1>4 DEF Migrated
<1> QED BY <1>1, <1>2, <1>5 DEF t

\* migrateSQLiteSchema: all the parts, in one transaction.
LEMMA SQLiteMigrated ==
    ASSUME NEW r, NEW s \in Schemas, s = schema, WellKeyed(s), supports[r] \in Nat, s.version <= supports[r]
    PROVE  LET t == MigratedSQLite(r) IN
           /\ Migrated(s, t) /\ HasColumns(t) /\ Unordered(t) = {} /\ Slugged(t)
           /\ t.checked /\ ~t.legacy /\ Mapped(t) /\ t.version = supports[r]
<1> DEFINE a == WithColumns(s)
<1> DEFINE b == WithOrderKeys(a)
<1> DEFINE c == WithSlugs(b)
<1> DEFINE d == WithConstraints(c)
<1> DEFINE e == WithHashedTokens(d)
<1> DEFINE f == WithKeyedMappings(e)
<1> DEFINE g == WithVersion(r, f)
<1>1. Migrated(s, a) /\ HasColumns(a) /\ a.version = s.version /\ a \in Schemas /\ WellKeyed(a)
    BY ColumnsMade DEF Migrated
<1> HIDE DEF a
<1>2. Migrated(a, b) /\ Unordered(b) = {} /\ b.version = a.version /\ b \in Schemas /\ WellKeyed(b)
    BY <1>1, PartsMade DEF Migrated
<1> HIDE DEF b
<1>3. Migrated(b, c) /\ Slugged(c) /\ c.version = b.version /\ c \in Schemas /\ WellKeyed(c)
    BY <1>2, PartsMade DEF Migrated
<1> HIDE DEF c
<1>4. Migrated(c, d) /\ d.checked /\ d.version = c.version /\ d \in Schemas /\ WellKeyed(d)
    BY <1>3, PartsMade DEF Migrated
<1> HIDE DEF d
<1>5. Migrated(d, e) /\ ~e.legacy /\ e.version = d.version /\ e \in Schemas /\ WellKeyed(e)
    BY <1>4, PartsMade DEF Migrated
<1> HIDE DEF e
<1>6. Migrated(e, f) /\ Mapped(f) /\ f.version = e.version /\ f \in Schemas /\ WellKeyed(f)
    BY <1>5, MappingsKeyed DEF Migrated
<1> HIDE DEF f
<1>7. f.version <= supports[r]
    BY <1>1, <1>2, <1>3, <1>4, <1>5, <1>6
<1>8. Migrated(f, g) /\ g.version = supports[r]
    BY <1>6, <1>7, VersionMade
<1> HIDE DEF g
<1>9. Migrated(s, g) /\ Migrated(a, g) /\ Migrated(b, g) /\ Migrated(c, g) /\ Migrated(d, g) /\ Migrated(e, g)
    <2>1. Migrated(e, g)
        BY <1>5, <1>6, <1>8, MigratedTwice
    <2>2. Migrated(d, g)
        BY <1>4, <1>5, <2>1, MigratedTwice
    <2>3. Migrated(c, g)
        BY <1>3, <1>4, <2>2, MigratedTwice
    <2>4. Migrated(b, g)
        BY <1>2, <1>3, <2>3, MigratedTwice
    <2>5. Migrated(a, g)
        BY <1>1, <1>2, <2>4, MigratedTwice
    <2>6. Migrated(s, g)
        BY <1>1, <2>5, MigratedTwice
    <2> QED BY <2>1, <2>2, <2>3, <2>4, <2>5, <2>6
<1>10. /\ HasColumns(g) /\ Unordered(g) = {} /\ Slugged(g) /\ g.checked /\ ~g.legacy /\ Mapped(g)
    BY <1>1, <1>2, <1>3, <1>4, <1>5, <1>6, <1>8, <1>9, Zenon DEF Migrated, Improves
<1>11. g = MigratedSQLite(r)
    BY DEF MigratedSQLite, a, b, c, d, e, f, g
<1> QED BY <1>8, <1>9, <1>10, <1>11

-----------------------------------------------------------------------------
(* The schema: who migrates it, and how far he is *)

\* The steps of the migration behind each of its parts.
FromIndexes  == {"version", "unlock", "serving"}
FromMappings == {"indexes"} \cup FromIndexes
FromTokens   == {"mappings"} \cup FromMappings
FromChecks   == {"tokens"} \cup FromTokens
FromSlugs    == {"constraints"} \cup FromChecks
FromOrder    == {"slugs"} \cup FromSlugs
FromColumns  == {"read", "backfill"} \cup FromOrder

\* What the schema has when the process is at this step, and its version.
Reached(at, s, v) ==
    /\ at \in FromColumns \/ (at = "check" /\ dialect = "postgres") => HasColumns(s)
    /\ at \in FromOrder => Unordered(s) = {}
    /\ at \in FromSlugs => Slugged(s)
    /\ at \in FromChecks => s.checked
    /\ at \in FromTokens => ~s.legacy
    /\ at \in FromMappings => Mapped(s)
    /\ at \in FromIndexes => s.indexed
    /\ at \in (FromColumns \ {"serving"}) \cup {"migrate"} => s.version <= v
    /\ at = "unlock" \/ (at = "indexes" /\ dialect = "sqlite") => s.version = v

Migrating == {"create", "check", "read", "backfill", "slugs", "constraints", "tokens", "mappings",
              "indexes", "version", "unlock", "giveUp", "migrate"}
SQLiteSteps == {"down", "create", "check", "migrate", "indexes", "serving"}

\* One process at a time changes the schema.
OneMigrates ==
    /\ dialect = "postgres" => \A r \in Servers :
          /\ opening[r] \in Migrating => schemaLock = r
          /\ opening[r] # "migrate"
    /\ dialect = "sqlite" => \A r, q \in Servers :
          /\ opening[r] \in SQLiteSteps
          /\ r # q => opening[r] = "down" \/ opening[q] = "down"

SchemaTypes ==
    /\ dialect \in {"postgres", "sqlite"}
    /\ schema \in Schemas /\ WellKeyed(schema)
    /\ opening \in [Servers -> OpenSteps]
    /\ supports \in [Servers -> {CurrentVersion, CurrentVersion + 1}]
    /\ unkeyed \in [Servers -> SUBSET ReleaseRows]

NothingLost == schema.tokens = held /\ Granted(schema) = granted

SchemaInv ==
    /\ SchemaTypes /\ OneMigrates /\ NothingLost
    /\ \A r \in Servers : Reached(opening[r], schema, supports[r])

LEMMA SchemaInvInit == SchemaInit => SchemaInv
<1> SUFFICES ASSUME SchemaInit PROVE SchemaInv
    OBVIOUS
<1>1. NewSchema \in Schemas /\ WellKeyed(NewSchema)
    BY DEF NewSchema, Schemas, WellKeyed, Mapped
<1>2. \A s \in OldSchemas : s \in Schemas /\ WellKeyed(s)
    <2> DEFINE twice == [m \in OIDCMappings |-> 2]
    <2> SUFFICES ASSUME NEW s \in OldSchemas PROVE s \in Schemas /\ WellKeyed(s)
        OBVIOUS
    <2>1. s \in [version : {0}, columns : {{}}, rows : {ReleaseRows}, ordered : {{}}, slugged : {{}},
                 checked : {FALSE}, legacy : BOOLEAN, tokens : SUBSET LegacyTokens, keyed : {FALSE},
                 mappings : {twice}, indexed : {FALSE}]
        BY DEF OldSchemas
    <2>2. twice \in [OIDCMappings -> Nat]
        OBVIOUS
    <2> HIDE DEF twice
    <2>3. /\ s.version \in Nat /\ s.columns \in SUBSET LaterColumns /\ s.rows \in SUBSET ReleaseRows
          /\ s.ordered \in SUBSET ReleaseRows /\ s.slugged \in SUBSET ReleaseRows
          /\ s.mappings \in [OIDCMappings -> Nat]
        BY <2>1, <2>2
    <2>4. s.checked \in BOOLEAN /\ s.legacy \in BOOLEAN /\ s.keyed = FALSE /\ s.indexed \in BOOLEAN
        BY <2>1
    <2>5. s.tokens \in SUBSET LegacyTokens
        BY <2>1
    <2>6. s = [version |-> s.version, columns |-> s.columns, rows |-> s.rows, ordered |-> s.ordered,
               slugged |-> s.slugged, checked |-> s.checked, legacy |-> s.legacy, tokens |-> s.tokens,
               keyed |-> s.keyed, mappings |-> s.mappings, indexed |-> s.indexed]
        BY <2>1
    <2>7. s \in Schemas
        BY <2>3, <2>4, <2>5, <2>6 DEF Schemas
    <2> QED BY <2>4, <2>7 DEF WellKeyed
<1>3. SchemaTypes
    BY <1>1, <1>2 DEF SchemaInit, SchemaTypes, OpenSteps
<1>4. \A r \in Servers : opening[r] = "down"
    BY DEF SchemaInit
<1>5. OneMigrates
    BY <1>4 DEF OneMigrates, Migrating, SQLiteSteps
<1>6. \A r \in Servers : Reached(opening[r], schema, supports[r])
    BY <1>4 DEF Reached, FromColumns, FromOrder, FromSlugs, FromChecks, FromTokens, FromMappings, FromIndexes
<1>7. NothingLost
    BY DEF SchemaInit, NothingLost, Granted
<1> QED BY <1>3, <1>5, <1>6, <1>7 DEF SchemaInv

-----------------------------------------------------------------------------
(* The schema: one step of a process *)

\* What NeverDowngraded says of a step.
VersionKept ==
    /\ schema'.version >= schema.version
    /\ \A r \in Servers : opening[r] # "serving" /\ opening'[r] = "serving"
                            => schema'.version = supports[r]

LEMMA OneGoesOn ==
    ASSUME SchemaInv, NEW r \in Servers, NEW step \in OpenSteps, NEW v \in {CurrentVersion, CurrentVersion + 1},
           dialect' = dialect, schema' \in Schemas, WellKeyed(schema'), Improves(schema, schema'), NothingLost',
           opening' = [opening EXCEPT ![r] = step], supports' = [supports EXCEPT ![r] = v],
           unkeyed' \in [Servers -> SUBSET ReleaseRows],
           schema'.version = schema.version \/ opening[r] \in Migrating,
           \A q \in Servers \ {r} : dialect = "postgres" /\ schemaLock = q => schemaLock' = q,
           dialect = "postgres" => (step \in Migrating => schemaLock' = r) /\ step # "migrate",
           dialect = "sqlite" => /\ step \in SQLiteSteps
                                 /\ step = "down" \/ opening[r] # "down" \/ \A q \in Servers : opening[q] = "down",
           Reached(step, schema', v),
           step = "serving" => opening[r] = "serving" \/ schema'.version = supports[r]
    PROVE  SchemaInv' /\ VersionKept
<1>1. /\ opening'[r] = step /\ supports'[r] = v
      /\ \A q \in Servers \ {r} : opening'[q] = opening[q] /\ supports'[q] = supports[q]
    BY DEF SchemaInv, SchemaTypes
<1>2. SchemaTypes'
    BY DEF SchemaInv, SchemaTypes, WellKeyed, Mapped
<1>3. OneMigrates'
    BY <1>1 DEF SchemaInv, OneMigrates, SchemaTypes
<1>4. ASSUME NEW q \in Servers \ {r}
      PROVE  Reached(opening[q], schema', supports[q])
    <2>1. opening[q] \in Migrating => schema'.version = schema.version
        <3>1. opening[q] \in Migrating => opening[r] \notin Migrating
            BY DEF SchemaInv, SchemaTypes, OneMigrates, Migrating
        <3> QED BY <3>1
    <2>2. Reached(opening[q], schema, supports[q])
        BY DEF SchemaInv
    <2>3. (FromColumns \ {"serving"}) \cup {"migrate", "unlock", "indexes"} \subseteq Migrating
        BY DEF FromColumns, FromOrder, FromSlugs, FromChecks, FromTokens, FromMappings, FromIndexes, Migrating
    <2> QED BY <2>1, <2>2, <2>3 DEF Reached, Improves
<1>5. \A q \in Servers : Reached(opening'[q], schema', supports'[q])
    BY <1>1, <1>4
<1>6. \A q \in Servers : Reached(opening[q], schema, supports[q])'
    BY <1>5 DEF Reached
<1>7. schema'.version >= schema.version
    BY DEF Improves, SchemaInv, SchemaTypes, Schemas
<1>8. VersionKept
    BY <1>1, <1>7 DEF VersionKept
<1> QED BY <1>2, <1>3, <1>6, <1>8 DEF SchemaInv

\* The steps of a process that is not opening have nothing to show of the schema.
LEMMA NothingReached ==
    ASSUME NEW at \in {"down", "lock", "create", "giveUp"}, NEW s, NEW v
    PROVE  Reached(at, s, v)
BY DEF Reached, FromColumns, FromOrder, FromSlugs, FromChecks, FromTokens, FromMappings, FromIndexes

\* The step that a process goes to, with what it knows.
LEMMA GoesIs ==
    ASSUME SchemaInv, NEW r \in Servers, NEW step, Goes(r, step)
    PROVE  \E v \in {CurrentVersion, CurrentVersion + 1} :
               /\ supports' = [supports EXCEPT ![r] = v]
               /\ opening' = [opening EXCEPT ![r] = step]
               /\ step # "down" => v = supports[r]
BY DEF Goes, SchemaInv, SchemaTypes

LEMMA MigratesOn ==
    ASSUME SchemaInv, NEW r \in Servers, NEW at \in Migrating, NEW can \in BOOLEAN, NEW after, NEW then,
           Migrates(r, at, can, after, then), Migrated(schema, after),
           then \in Migrating \cup {"serving"},
           dialect = "postgres" => then # "migrate" /\ then # "serving", dialect = "sqlite" => then \in SQLiteSteps,
           can => Reached(then, after, supports[r]),
           can /\ then = "serving" => after.version = supports[r]
    PROVE  SchemaInv' /\ VersionKept
<1>1. opening[r] = at /\ unkeyed' = unkeyed
    BY DEF Migrates
<1>2. schema \in Schemas /\ Migrated(schema, schema)
    BY NothingMigrated DEF SchemaInv, SchemaTypes
<1>3. PICK step : /\ Goes(r, step) /\ UNCHANGED <<dialect, colliding, pepper, schemaLock, held, granted>>
                  /\ \/ step = then /\ can /\ schema' = after
                     \/ step = (IF dialect = "postgres" THEN "giveUp" ELSE "down") /\ schema' \in {schema, after}
    BY DEF Migrates, GivesUp, GoesTo
<1>4. Migrated(schema, schema')
    BY <1>2, <1>3
<1>5. schema' \in Schemas /\ WellKeyed(schema') /\ Improves(schema, schema') /\ NothingLost'
    BY <1>3, <1>4 DEF Migrated, SchemaInv, SchemaTypes, NothingLost, Granted
<1>6. PICK v \in {CurrentVersion, CurrentVersion + 1} :
          /\ supports' = [supports EXCEPT ![r] = v] /\ opening' = [opening EXCEPT ![r] = step]
          /\ step # "down" => v = supports[r]
    BY <1>3, GoesIs
<1>7. then \in OpenSteps /\ then # "down" /\ at # "down"
    BY DEF Migrating, OpenSteps
<1>8. Reached(step, schema', v)
    BY <1>3, <1>6, <1>7, NothingReached
<1>9. dialect = "postgres" => schemaLock = r
    BY <1>1 DEF SchemaInv, OneMigrates
<1>10. /\ step \in OpenSteps
       /\ dialect = "postgres" => step # "migrate"
       /\ dialect = "sqlite" => step \in SQLiteSteps
       /\ step = "serving" => can /\ then = "serving" /\ schema' = after
    BY <1>3, <1>7 DEF OpenSteps, SQLiteSteps
<1>11. unkeyed' \in [Servers -> SUBSET ReleaseRows]
    BY <1>1 DEF SchemaInv, SchemaTypes
<1> QED BY <1>1, <1>3, <1>5, <1>6, <1>7, <1>8, <1>9, <1>10, <1>11, OneGoesOn

LEMMA PartsOn ==
    ASSUME SchemaInv, NEW r \in Servers,
           \/ CreateTables(r) \/ CreateSQLiteTables(r) \/ RejectNewerSchema(r)
           \/ MigrateCanonicalSlugs(r) \/ MigrateDataConstraints(r) \/ MigrateAccessTokens(r)
           \/ MigrateOIDCMappings(r) \/ CreateIndexes(r) \/ SetVersion(r) \/ MigrateSQLite(r)
    PROVE  SchemaInv' /\ VersionKept
<1> DEFINE v == supports[r]
<1>1. /\ schema \in Schemas /\ WellKeyed(schema) /\ v \in Nat /\ dialect \in {"postgres", "sqlite"}
      /\ Reached(opening[r], schema, v) /\ schema.version \in Nat
    BY SchemaAssumption DEF SchemaInv, SchemaTypes, Schemas
<1>2. /\ dialect = "sqlite" => opening[r] \in SQLiteSteps
      /\ dialect = "postgres" => opening[r] # "migrate"
    BY DEF SchemaInv, OneMigrates
<1> HIDE DEF v
<1> USE DEF FromColumns, FromOrder, FromSlugs, FromChecks, FromTokens, FromMappings, FromIndexes
<1>3. CASE CreateTables(r)
    <2>1. /\ Migrates(r, "create", TRUE, WithColumns(schema), "check") /\ dialect = "postgres"
          /\ Migrated(schema, WithColumns(schema)) /\ HasColumns(WithColumns(schema))
        BY <1>1, <1>3, ColumnsMade DEF CreateTables
    <2>2. Reached("check", WithColumns(schema), v)
        BY <2>1 DEF Reached
    <2> QED BY <2>1, <2>2, MigratesOn DEF Migrating, v
<1>4. CASE CreateSQLiteTables(r)
    <2>1. Migrates(r, "create", TRUE, schema, "check") /\ dialect = "sqlite" /\ Migrated(schema, schema)
        BY <1>1, <1>4, NothingMigrated DEF CreateSQLiteTables
    <2>2. Reached("check", schema, v)
        BY <2>1 DEF Reached
    <2> QED BY <2>1, <2>2, MigratesOn DEF Migrating, SQLiteSteps, v
<1>5. CASE RejectNewerSchema(r)
    <2> DEFINE then == IF dialect = "postgres" THEN "read" ELSE "migrate"
    <2>1. Migrates(r, "check", ~IsNewer(r), schema, then) /\ Migrated(schema, schema) /\ opening[r] = "check"
        BY <1>1, <1>5, NothingMigrated DEF RejectNewerSchema, Migrates
    <2>2. ~IsNewer(r) => schema.version <= v
        BY <1>1 DEF IsNewer, v
    <2>3. ~IsNewer(r) => Reached(then, schema, v)
        BY <1>1, <2>1, <2>2 DEF Reached
    <2>4. (~IsNewer(r)) \in BOOLEAN
        BY DEF IsNewer
    <2>5. then \in Migrating /\ (dialect = "sqlite" => then \in SQLiteSteps) /\ then # "serving"
          /\ (dialect = "postgres" => then # "migrate")
        BY <1>1 DEF Migrating, SQLiteSteps
    <2> HIDE DEF then
    <2> QED BY <2>1, <2>3, <2>4, <2>5, MigratesOn DEF Migrating, v
<1>6. CASE MigrateCanonicalSlugs(r)
    <2> DEFINE after == WithSlugs(schema)
    <2>1. /\ Migrates(r, "slugs", CanSlug(schema), after, "constraints") /\ opening[r] = "slugs"
          /\ Migrated(schema, after) /\ Slugged(after) /\ after.version = schema.version
        BY <1>1, <1>6, PartsMade DEF MigrateCanonicalSlugs, Migrates
    <2> HIDE DEF after
    <2>2. Reached("constraints", after, v)
        BY <1>1, <2>1 DEF Reached, Migrated, Improves
    <2>3. CanSlug(schema) \in BOOLEAN /\ dialect = "postgres"
        BY <1>1, <1>2, <2>1 DEF CanSlug, SQLiteSteps
    <2> QED BY <2>1, <2>2, <2>3, MigratesOn DEF Migrating, v
<1>7. CASE MigrateDataConstraints(r)
    <2> DEFINE after == WithConstraints(schema)
    <2>1. /\ Migrates(r, "constraints", TRUE, after, "tokens") /\ opening[r] = "constraints"
          /\ Migrated(schema, after) /\ after.checked /\ after.version = schema.version
        BY <1>1, <1>7, PartsMade DEF MigrateDataConstraints, Migrates
    <2> HIDE DEF after
    <2>2. Reached("tokens", after, v)
        BY <1>1, <2>1 DEF Reached, Migrated, Improves
    <2>3. dialect = "postgres"
        BY <1>1, <1>2, <2>1 DEF SQLiteSteps
    <2> QED BY <2>1, <2>2, <2>3, MigratesOn DEF Migrating, v
<1>8. CASE MigrateAccessTokens(r)
    <2> DEFINE after == WithHashedTokens(schema)
    <2>1. /\ Migrates(r, "tokens", CanHash(schema), after, "mappings") /\ opening[r] = "tokens"
          /\ Migrated(schema, after) /\ ~after.legacy /\ after.version = schema.version
        BY <1>1, <1>8, PartsMade DEF MigrateAccessTokens, Migrates
    <2> HIDE DEF after
    <2>2. Reached("mappings", after, v)
        BY <1>1, <2>1 DEF Reached, Migrated, Improves
    <2>3. CanHash(schema) \in BOOLEAN /\ dialect = "postgres"
        BY <1>1, <1>2, <2>1 DEF CanHash, SQLiteSteps
    <2> QED BY <2>1, <2>2, <2>3, MigratesOn DEF Migrating, v
<1>9. CASE MigrateOIDCMappings(r)
    <2> DEFINE after == WithKeyedMappings(schema)
    <2>1. /\ Migrates(r, "mappings", TRUE, after, "indexes") /\ opening[r] = "mappings"
          /\ Migrated(schema, after) /\ Mapped(after) /\ after.version = schema.version
        BY <1>1, <1>9, MappingsKeyed DEF MigrateOIDCMappings, Migrates
    <2> HIDE DEF after
    <2>2. dialect = "postgres"
        BY <1>1, <1>2, <2>1 DEF SQLiteSteps
    <2>3. Reached("indexes", after, v)
        BY <1>1, <2>1, <2>2 DEF Reached, Migrated, Improves
    <2> QED BY <2>1, <2>2, <2>3, MigratesOn DEF Migrating, v
<1>10. CASE CreateIndexes(r)
    <2> DEFINE after == WithIndexes(schema)
    <2> DEFINE then == IF dialect = "postgres" THEN "version" ELSE "serving"
    <2>1. /\ Migrates(r, "indexes", TRUE, after, then) /\ opening[r] = "indexes"
          /\ Migrated(schema, after) /\ after.indexed /\ after.version = schema.version
        BY <1>1, <1>10, PartsMade DEF CreateIndexes, Migrates
    <2> HIDE DEF after
    <2>2. Reached(then, after, v)
        BY <1>1, <2>1 DEF Reached, Migrated, Improves
    <2>3. then = "serving" => after.version = v
        BY <1>1, <2>1 DEF Reached
    <2>4. /\ then \in Migrating \cup {"serving"} /\ (dialect = "sqlite" => then \in SQLiteSteps)
          /\ (dialect = "postgres" => then # "migrate" /\ then # "serving")
        BY <1>1 DEF Migrating, SQLiteSteps
    <2> HIDE DEF then
    <2> QED BY <2>1, <2>2, <2>3, <2>4, MigratesOn DEF Migrating, v
<1>11. CASE SetVersion(r)
    <2> DEFINE after == WithVersion(r, schema)
    <2>1. Migrates(r, "version", TRUE, after, "unlock") /\ opening[r] = "version"
        BY <1>11 DEF SetVersion, Migrates
    <2>2. schema.version <= v
        BY <1>1, <2>1 DEF Reached
    <2>3. Migrated(schema, after) /\ after.version = v
        BY <1>1, <2>2, VersionMade DEF v
    <2> HIDE DEF after
    <2>4. Reached("unlock", after, v)
        BY <1>1, <2>1, <2>3 DEF Reached, Migrated, Improves
    <2>5. dialect = "postgres"
        BY <1>1, <1>2, <2>1 DEF SQLiteSteps
    <2> QED BY <2>1, <2>3, <2>4, <2>5, MigratesOn DEF Migrating, v
<1>12. CASE MigrateSQLite(r)
    <2> DEFINE after == MigratedSQLite(r)
    <2> DEFINE can == CanSlug(schema) /\ CanHash(schema)
    <2>1. Migrates(r, "migrate", can, after, "indexes") /\ opening[r] = "migrate"
        BY <1>12 DEF MigrateSQLite, Migrates
    <2>2. dialect = "sqlite" /\ can \in BOOLEAN
        BY <1>1, <1>2, <2>1
    <2>3. schema.version <= v
        BY <1>1, <2>1 DEF Reached
    <2>4. /\ Migrated(schema, after) /\ HasColumns(after) /\ Unordered(after) = {} /\ Slugged(after)
          /\ after.checked /\ ~after.legacy /\ Mapped(after) /\ after.version = v
        BY <1>1, <2>3, SQLiteMigrated DEF v
    <2> HIDE DEF after, can
    <2>5. after.version <= v
        BY <1>1, <2>4
    <2>6. Reached("indexes", after, v)
        BY <2>2, <2>4, <2>5 DEF Reached
    <2> QED BY <2>1, <2>2, <2>4, <2>6, MigratesOn DEF Migrating, SQLiteSteps, v
<1> QED BY <1>3, <1>4, <1>5, <1>6, <1>7, <1>8, <1>9, <1>10, <1>11, <1>12

LEMMA RowsOn ==
    ASSUME SchemaInv, NEW r \in Servers, ReadUnordered(r) \/ BackfillRow(r)
    PROVE  SchemaInv' /\ VersionKept
<1> USE DEF FromColumns, FromOrder, FromSlugs, FromChecks, FromTokens, FromMappings, FromIndexes
<1>1. /\ schema \in Schemas /\ WellKeyed(schema) /\ unkeyed \in [Servers -> SUBSET ReleaseRows]
      /\ opening[r] \in {"read", "backfill"} /\ Reached(opening[r], schema, supports[r])
      /\ dialect \in {"postgres", "sqlite"}
    BY DEF SchemaInv, SchemaTypes, ReadUnordered, BackfillRow
<1>2. dialect = "postgres" /\ schemaLock = r
    BY <1>1 DEF SchemaInv, OneMigrates, SQLiteSteps, Migrating
<1>3. ASSUME NEW step \in {"read", "slugs", "backfill", "giveUp"}, GoesTo(r, step),
             unkeyed' \in [Servers -> SUBSET ReleaseRows],
             NEW row \in ReleaseRows, schema' \in {schema, WithOrderKey(schema, row)},
             step = "slugs" => Unordered(schema) = {}
      PROVE  SchemaInv' /\ VersionKept
    <2>1. Migrated(schema, schema')
        BY <1>1, <1>3, PartsMade, NothingMigrated
    <2>2. schema'.version = schema.version
        BY <1>1, <1>3 DEF WithOrderKey, Schemas
    <2>3. PICK v \in {CurrentVersion, CurrentVersion + 1} :
              /\ supports' = [supports EXCEPT ![r] = v] /\ opening' = [opening EXCEPT ![r] = step]
              /\ step # "down" => v = supports[r]
        BY <1>3, GoesIs DEF GoesTo
    <2>4. v = supports[r] /\ UNCHANGED <<dialect, colliding, pepper, schemaLock, held, granted>>
        BY <1>3, <2>3 DEF GoesTo
    <2>5. Reached(step, schema', v)
        BY <1>1, <1>3, <2>1, <2>2, <2>4 DEF Reached, Migrated, Improves
    <2>6. schema' \in Schemas /\ WellKeyed(schema') /\ Improves(schema, schema') /\ NothingLost'
        BY <1>1, <2>1, <2>4 DEF Migrated, SchemaInv, NothingLost, Granted
    <2>7. step \in OpenSteps /\ step # "migrate" /\ step # "serving" /\ opening[r] \in Migrating
        BY <1>1 DEF OpenSteps, Migrating
    <2> QED BY <1>2, <1>3, <2>2, <2>3, <2>4, <2>5, <2>6, <2>7, OneGoesOn
<1>4. ASSUME NEW step \in {"read", "slugs", "backfill", "giveUp"}, GoesTo(r, step),
             unkeyed' \in [Servers -> SUBSET ReleaseRows], schema' = schema,
             step = "slugs" => Unordered(schema) = {}
      PROVE  SchemaInv' /\ VersionKept
    <2>1. Migrated(schema, schema')
        BY <1>1, <1>4, NothingMigrated
    <2>3. PICK v \in {CurrentVersion, CurrentVersion + 1} :
              /\ supports' = [supports EXCEPT ![r] = v] /\ opening' = [opening EXCEPT ![r] = step]
              /\ step # "down" => v = supports[r]
        BY <1>4, GoesIs DEF GoesTo
    <2>4. v = supports[r] /\ UNCHANGED <<dialect, colliding, pepper, schemaLock, held, granted>>
        BY <1>4, <2>3 DEF GoesTo
    <2>5. Reached(step, schema', v)
        BY <1>1, <1>4, <2>4 DEF Reached
    <2>6. schema' \in Schemas /\ WellKeyed(schema') /\ Improves(schema, schema') /\ NothingLost'
        BY <1>1, <1>4, <2>1, <2>4 DEF Migrated, SchemaInv, NothingLost, Granted
    <2>7. step \in OpenSteps /\ step # "migrate" /\ step # "serving" /\ opening[r] \in Migrating
        BY <1>1 DEF OpenSteps, Migrating
    <2> QED BY <1>2, <1>4, <2>3, <2>4, <2>5, <2>6, <2>7, OneGoesOn
<1>5. CASE ReadUnordered(r)
    <2>1. schema' = schema
        BY <1>5 DEF ReadUnordered
    <2>2. unkeyed' \in [Servers -> SUBSET ReleaseRows]
        BY <1>1, <1>5 DEF ReadUnordered, Unordered, Schemas
    <2>3. \/ Unordered(schema) = {} /\ GoesTo(r, "slugs")
          \/ GoesTo(r, "backfill") \/ GoesTo(r, "giveUp")
        BY <1>2, <1>5 DEF ReadUnordered, GivesUp
    <2> QED BY <1>4, <2>1, <2>2, <2>3
<1>6. CASE BackfillRow(r)
    <2>1. PICK row \in unkeyed[r] :
              \/ /\ schema' = WithOrderKey(schema, row)
                 /\ unkeyed' = [unkeyed EXCEPT ![r] = @ \ {row}]
                 /\ GoesTo(r, IF unkeyed[r] = {row} THEN NextBatch ELSE "backfill")
              \/ /\ GivesUp(r) /\ unkeyed' = [unkeyed EXCEPT ![r] = {}]
                 /\ schema' \in {schema, WithOrderKey(schema, row)}
        BY <1>6 DEF BackfillRow
    <2>2. row \in ReleaseRows /\ unkeyed' \in [Servers -> SUBSET ReleaseRows]
        BY <1>1, <2>1
    <2>3. GoesTo(r, "read") \/ GoesTo(r, "backfill") \/ GoesTo(r, "giveUp")
        BY <1>2, <2>1 DEF NextBatch, GivesUp
    <2> QED BY <1>3, <2>1, <2>2, <2>3
<1> QED BY <1>5, <1>6

LEMMA ProcessesOn ==
    ASSUME SchemaInv, NEW r \in Servers,
           Open(r) \/ LockSchema(r) \/ UnlockSchema(r) \/ CloseOrCrash(r)
    PROVE  SchemaInv' /\ VersionKept
<1>1. /\ schema \in Schemas /\ Improves(schema, schema) /\ schema.version \in Nat
      /\ unkeyed \in [Servers -> SUBSET ReleaseRows] /\ opening[r] \in OpenSteps
      /\ dialect \in {"postgres", "sqlite"} /\ Reached(opening[r], schema, supports[r])
      /\ supports[r] \in {CurrentVersion, CurrentVersion + 1} /\ supports = [supports EXCEPT ![r] = supports[r]]
    BY NothingMigrated DEF Migrated, SchemaInv, SchemaTypes, Schemas
<1>2. /\ schema' = schema /\ dialect' = dialect /\ held' = held /\ granted' = granted
      /\ unkeyed' \in [Servers -> SUBSET ReleaseRows]
    BY <1>1 DEF Open, LockSchema, UnlockSchema, CloseOrCrash
<1>3. schema' \in Schemas /\ WellKeyed(schema') /\ Improves(schema, schema') /\ NothingLost'
    BY <1>1, <1>2 DEF SchemaInv, SchemaTypes, NothingLost, Granted
<1>4. CASE Open(r)
    <2> DEFINE step == IF dialect = "postgres" THEN "lock" ELSE "create"
    <2>1. PICK v \in {CurrentVersion, CurrentVersion + 1} : supports' = [supports EXCEPT ![r] = v]
        BY <1>4 DEF Open
    <2>2. /\ opening' = [opening EXCEPT ![r] = step] /\ schemaLock' = schemaLock
          /\ dialect = "sqlite" => \A q \in Servers : opening[q] = "down"
        BY <1>4 DEF Open
    <2>3. Reached(step, schema', v)
        BY NothingReached
    <2>4. /\ step \in OpenSteps /\ step # "migrate" /\ step # "serving"
          /\ dialect = "postgres" => step \notin Migrating
          /\ dialect = "sqlite" => step \in SQLiteSteps
        BY <1>1 DEF OpenSteps, Migrating, SQLiteSteps
    <2> HIDE DEF step
    <2> QED BY <1>2, <1>3, <2>1, <2>2, <2>3, <2>4, OneGoesOn
<1>5. CASE LockSchema(r)
    <2>1. /\ opening[r] = "lock" /\ schemaLock = NoServer /\ schemaLock' = r
          /\ opening' = [opening EXCEPT ![r] = "create"] /\ supports' = [supports EXCEPT ![r] = supports[r]]
        BY <1>1, <1>5 DEF LockSchema, SchemaUnlocked
    <2>2. dialect = "postgres" /\ NoServer \notin Servers
        BY <1>1, <2>1, SchemaAssumption DEF SchemaInv, OneMigrates, SQLiteSteps
    <2>3. Reached("create", schema', supports[r])
        BY NothingReached
    <2>4. "create" \in OpenSteps
        BY DEF OpenSteps
    <2> QED BY <1>1, <1>2, <1>3, <2>1, <2>2, <2>3, <2>4, OneGoesOn
<1>6. CASE UnlockSchema(r)
    <2>1. opening[r] \in {"unlock", "giveUp"} /\ schemaLock' = NoServer
        BY <1>6 DEF UnlockSchema
    <2>2. PICK step \in {"serving", "down"} : Goes(r, step) /\ (step = "serving" => opening[r] = "unlock")
        BY <1>6 DEF UnlockSchema
    <2>3. PICK v \in {CurrentVersion, CurrentVersion + 1} :
              /\ supports' = [supports EXCEPT ![r] = v] /\ opening' = [opening EXCEPT ![r] = step]
              /\ step # "down" => v = supports[r]
        BY <2>2, GoesIs
    <2>4. dialect = "postgres" /\ schemaLock = r
        BY <1>1, <2>1 DEF SchemaInv, OneMigrates, SQLiteSteps, Migrating
    <2>5. step = "serving" => Reached("serving", schema, supports[r]) /\ schema.version = supports[r]
        BY <1>1, <2>2 DEF Reached, FromColumns, FromOrder, FromSlugs, FromChecks, FromTokens, FromMappings,
               FromIndexes
    <2>6. Reached(step, schema', v)
        BY <1>2, <2>3, <2>5, NothingReached
    <2>7. step \in OpenSteps /\ step # "migrate" /\ step \notin Migrating
        BY DEF OpenSteps, Migrating
    <2> QED BY <1>2, <1>3, <2>3, <2>4, <2>5, <2>6, <2>7, OneGoesOn
<1>7. CASE CloseOrCrash(r)
    <2>1. Goes(r, "down") /\ schemaLock' = (IF schemaLock = r THEN NoServer ELSE schemaLock)
        BY <1>7 DEF CloseOrCrash
    <2>2. PICK v \in {CurrentVersion, CurrentVersion + 1} :
              /\ supports' = [supports EXCEPT ![r] = v] /\ opening' = [opening EXCEPT ![r] = "down"]
        BY <2>1, GoesIs
    <2>3. Reached("down", schema', v)
        BY NothingReached
    <2>4. "down" \in OpenSteps /\ "down" \notin Migrating /\ "down" \in SQLiteSteps
        BY DEF OpenSteps, Migrating, SQLiteSteps
    <2> QED BY <1>2, <1>3, <2>1, <2>2, <2>3, <2>4, OneGoesOn
<1> QED BY <1>4, <1>5, <1>6, <1>7

LEMMA WritesOn ==
    ASSUME SchemaInv, NEW r \in Servers, ServerWrites(r)
    PROVE  SchemaInv' /\ VersionKept
<1>1. /\ schema \in Schemas /\ WellKeyed(schema) /\ opening[r] = "serving" /\ opening \in [Servers -> OpenSteps]
      /\ Reached("serving", schema, supports[r]) /\ supports[r] \in {CurrentVersion, CurrentVersion + 1}
      /\ supports = [supports EXCEPT ![r] = supports[r]] /\ opening = [opening EXCEPT ![r] = "serving"]
      /\ unkeyed \in [Servers -> SUBSET ReleaseRows] /\ NothingLost
    BY DEF SchemaInv, SchemaTypes, ServerWrites
<1>2. UNCHANGED <<dialect, schemaLock, opening, supports, unkeyed, granted>>
    BY DEF ServerWrites, openVars
<1>3. /\ schema' \in Schemas /\ WellKeyed(schema') /\ Improves(schema, schema') /\ NothingLost'
      /\ schema'.version = schema.version
    <2>1. CASE \E row \in ReleaseRows \ schema.rows :
                  /\ schema' = [schema EXCEPT !.rows = @ \cup {row}, !.ordered = @ \cup {row},
                                              !.slugged = @ \cup {row}]
                  /\ UNCHANGED held
        <3>1. PICK row \in ReleaseRows :
                  /\ schema' = [schema EXCEPT !.rows = schema.rows \cup {row},
                                    !.ordered = schema.ordered \cup {row}, !.slugged = schema.slugged \cup {row}]
                  /\ held' = held
            BY <2>1
        <3>2. /\ schema' \in Schemas /\ schema'.rows = schema.rows \cup {row}
              /\ schema'.ordered = schema.ordered \cup {row} /\ schema'.slugged = schema.slugged \cup {row}
              /\ schema'.columns = schema.columns /\ schema'.checked = schema.checked
              /\ schema'.legacy = schema.legacy /\ schema'.tokens = schema.tokens
              /\ schema'.keyed = schema.keyed /\ schema'.mappings = schema.mappings
              /\ schema'.indexed = schema.indexed /\ schema'.version = schema.version
            BY <1>1, <3>1 DEF Schemas
        <3>3. Improves(schema, schema')
            BY <1>1, <3>2 DEF Improves, HasColumns, Unordered, Slugged, Mapped, Schemas
        <3> QED BY <1>1, <1>2, <3>1, <3>2, <3>3 DEF WellKeyed, Mapped, NothingLost, Granted
    <2>2. CASE \E t \in LegacyTokens \ schema.tokens :
                  schema' = [schema EXCEPT !.tokens = @ \cup {t}] /\ held' = held \cup {t}
        <3>1. PICK t \in LegacyTokens :
                  schema' = [schema EXCEPT !.tokens = schema.tokens \cup {t}] /\ held' = held \cup {t}
            BY <2>2
        <3>2. /\ schema' \in Schemas /\ schema'.tokens = schema.tokens \cup {t}
              /\ schema'.rows = schema.rows /\ schema'.ordered = schema.ordered
              /\ schema'.slugged = schema.slugged
              /\ schema'.columns = schema.columns /\ schema'.checked = schema.checked
              /\ schema'.legacy = schema.legacy /\ schema'.keyed = schema.keyed
              /\ schema'.mappings = schema.mappings
              /\ schema'.indexed = schema.indexed /\ schema'.version = schema.version
            BY <1>1, <3>1 DEF Schemas
        <3>3. Improves(schema, schema')
            BY <1>1, <3>2 DEF Improves, HasColumns, Unordered, Slugged, Mapped, Schemas
        <3> QED BY <1>1, <1>2, <3>1, <3>2, <3>3 DEF WellKeyed, Mapped, NothingLost, Granted
    <2> QED BY <2>1, <2>2 DEF ServerWrites
<1>4. Reached("serving", schema', supports[r])
    BY <1>1, <1>3 DEF Reached, Improves, FromColumns, FromOrder, FromSlugs, FromChecks, FromTokens,
           FromMappings, FromIndexes
<1>5. "serving" \in OpenSteps /\ "serving" \notin Migrating /\ "serving" \in SQLiteSteps
    BY DEF OpenSteps, Migrating, SQLiteSteps
<1> QED BY <1>1, <1>2, <1>3, <1>4, <1>5, OneGoesOn

LEMMA SchemaInvStep ==
    ASSUME SchemaInv, [SchemaNext]_schemaVars
    PROVE  SchemaInv' /\ (schemaVars' # schemaVars => VersionKept)
<1>1. CASE UNCHANGED schemaVars
    BY <1>1 DEF schemaVars, openVars, SchemaInv, SchemaTypes, WellKeyed, Mapped, OneMigrates, NothingLost,
           Granted, Reached, Unordered, HasColumns, Slugged
<1>2. ASSUME NEW r \in Servers, OpenStep(r)
      PROVE  SchemaInv' /\ VersionKept
    BY <1>2, PartsOn, RowsOn, ProcessesOn DEF OpenStep
<1> QED BY <1>1, <1>2, ProcessesOn, WritesOn DEF SchemaNext

LEMMA SchemaStepsOfSpec ==
    /\ Init => SchemaInit
    /\ [Next]_vars => [SchemaNext]_schemaVars
BY DEF Init, Next, vars, schemaVars

\* Who serves has every row's order key and slug, the constraints, hashed tokens
\* and keyed mappings, and no opening loses a token or mapping
\* (ensureOperationalTables, postgres.go:433; migrateSQLiteSchema).
THEOREM ServersHaveWholeSchemas == Spec => []SchemaIsWhole
<1>1. Init => SchemaInv
    BY SchemaStepsOfSpec, SchemaInvInit
<1>2. SchemaInv /\ [Next]_vars => SchemaInv'
    BY SchemaStepsOfSpec, SchemaInvStep
<1>3. SchemaInv => SchemaIsWhole
    <2> SUFFICES ASSUME SchemaInv PROVE SchemaIsWhole
        OBVIOUS
    <2>1. ASSUME NEW r \in Servers, opening[r] = "serving"
          PROVE  /\ schema.columns = LaterColumns /\ schema.checked /\ schema.indexed
                 /\ Unordered(schema) = {} /\ schema.slugged = schema.rows
                 /\ ~schema.legacy /\ schema.keyed /\ \A m \in OIDCMappings : schema.mappings[m] < 2
        <3>1. Reached("serving", schema, supports[r])
            BY <2>1 DEF SchemaInv
        <3> QED BY <3>1 DEF Reached, FromColumns, FromOrder, FromSlugs, FromChecks, FromTokens, FromMappings,
                    FromIndexes, HasColumns, Slugged, Mapped
    <2> QED BY <2>1 DEF SchemaIsWhole, SchemaInv, NothingLost, Granted
<1> QED BY <1>1, <1>2, <1>3, PTL DEF Spec

\* The schema's version never falls, and a process begins to serve only the
\* version it knows (docs/SCHEMA.md:618; RejectNewerSchema under the lock).
THEOREM VersionsNeverFall == Spec => NeverDowngraded
<1>1. Init => SchemaInv
    BY SchemaStepsOfSpec, SchemaInvInit
<1>2. SchemaInv /\ [Next]_vars => SchemaInv'
    BY SchemaStepsOfSpec, SchemaInvStep
<1>3. SchemaInv /\ [Next]_vars =>
          [/\ schema'.version >= schema.version
           /\ \A r \in Servers : opening[r] # "serving" /\ opening'[r] = "serving"
                                   => schema'.version = supports[r]]_schemaVars
    BY SchemaStepsOfSpec, SchemaInvStep DEF VersionKept
<1> QED BY <1>1, <1>2, <1>3, PTL DEF Spec, NeverDowngraded

-----------------------------------------------------------------------------
(* The module lock of the SQLite store *)

Users(e) == {c \in Callers : entryOf[c] = e}

Types ==
    /\ standing \in [Callers -> {"idle", "entered", "waiting", "holding", "leaving"}]
    /\ entryOf \in [Callers -> Entries \cup {None}]
    /\ moduleLocks \in Entries \cup {None}
    /\ references \in [Entries -> Nat]
    /\ semaphore \in [Entries -> BOOLEAN] /\ line \in [Entries -> Seq(Callers)]

\* A caller that is not idle has the entry of the map in hand, and each entry
\* counts those who have it.
Shared ==
    /\ \A c \in Callers : IF standing[c] = "idle" THEN entryOf[c] = None
                          ELSE entryOf[c] = moduleLocks /\ moduleLocks # None
    /\ \A e \in Entries : references[e] = Cardinality(Users(e))

\* The token of that entry is with its holder, or in the channel.
OneToken ==
    /\ MutualExclusion
    /\ moduleLocks # None => (semaphore[moduleLocks] <=> \A c \in Callers : standing[c] # "holding")

\* A line is of waiting callers, each in it once.
Lined == \A e \in Entries : \A i \in DOMAIN line[e] :
    /\ standing[line[e][i]] = "waiting" /\ entryOf[line[e][i]] = e
    /\ \A j \in DOMAIN line[e] : line[e][i] = line[e][j] => i = j

LocksInv == Types /\ Shared /\ OneToken /\ Lined

USE DEF Becomes

-----------------------------------------------------------------------------
\* The users of an entry are finite in number.
LEMMA UsersFinite ==
    ASSUME Types, NEW e \in Entries
    PROVE  IsFiniteSet(Users(e)) /\ Cardinality(Users(e)) \in Nat /\ Cardinality(Users(e)) <= Cardinality(Callers)
<1>1. Users(e) \in SUBSET Callers /\ IsFiniteSet(Callers)
    BY LockAssumption DEF Users
<1> QED BY <1>1, FS_Subset, FS_CardinalityType

\* Removing a place of a sequence.
LEMMA RemovedAt ==
    ASSUME NEW S, NEW s \in Seq(S), NEW i \in DOMAIN s
    PROVE  /\ RemoveAt(s, i) \in Seq(S)
           /\ DOMAIN RemoveAt(s, i) = 1 .. (Len(s) - 1)
           /\ \A j \in 1 .. (Len(s) - 1) : RemoveAt(s, i)[j] = s[IF j < i THEN j ELSE j + 1]
<1>1. i \in 1 .. Len(s) /\ Len(s) \in Nat
    BY LenProperties
<1> DEFINE front == SubSeq(s, 1, i - 1)
           back  == SubSeq(s, i + 1, Len(s))
<1>2. front \in Seq(S) /\ Len(front) = i - 1 /\ \A j \in 1 .. (i - 1) : front[j] = s[j]
    BY <1>1, SubSeqProperties
<1>3. back \in Seq(S) /\ Len(back) = Len(s) - i /\ \A j \in 1 .. (Len(s) - i) : back[j] = s[i + j]
    BY <1>1, SubSeqProperties
<1> HIDE DEF front, back
<1>4. RemoveAt(s, i) = front \o back
    BY DEF RemoveAt, front, back
<1>5. front \o back \in Seq(S) /\ Len(front \o back) = Len(s) - 1
    BY <1>1, <1>2, <1>3, ConcatProperties
<1>6. ASSUME NEW j \in 1 .. (Len(s) - 1)
      PROVE  (front \o back)[j] = s[IF j < i THEN j ELSE j + 1]
    <2>1. (front \o back)[j] = IF j <= i - 1 THEN front[j] ELSE back[j - (i - 1)]
        BY <1>1, <1>2, <1>3, ConcatProperties
    <2>2. CASE j < i
        BY <1>1, <1>2, <2>1, <2>2
    <2>3. CASE ~(j < i)
        <3>1. j - (i - 1) \in 1 .. (Len(s) - i)
            BY <1>1, <2>3
        <3>2. back[j - (i - 1)] = s[i + (j - (i - 1))]
            BY <1>3, <3>1
        <3> QED BY <1>1, <2>1, <2>3, <3>2
    <2> QED BY <2>2, <2>3
<1> QED BY <1>4, <1>5, <1>6, LenProperties

-----------------------------------------------------------------------------
LEMMA LocksInitInv == LocksInit => LocksInv
<1> SUFFICES ASSUME LocksInit PROVE LocksInv
    OBVIOUS
<1> USE DEF LocksInit
<1>1. Types
    BY DEF Types
<1>2. Shared
    <2>1. ASSUME NEW e \in Entries PROVE Users(e) = {}
        BY LockAssumption DEF Users
    <2> QED BY <2>1, FS_EmptySet DEF Shared
<1>3. OneToken /\ Lined
    BY DEF OneToken, MutualExclusion, Lined
<1> QED BY <1>1, <1>2, <1>3 DEF LocksInv

\* A caller takes its entry, the map's or a new one that nobody has.
LEMMA EnterKeeps ==
    ASSUME LocksInv, NEW c \in Callers, Enter(c)
    PROVE  LocksInv'
<1> USE DEF LocksInv
<1> PICK e \in Entries :
        /\ EnterWith(c, e) /\ standing[c] = "idle" /\ UNCHANGED line
        /\ \/ moduleLocks = e /\ UNCHANGED semaphore
           \/ moduleLocks = None /\ semaphore' = NewChannel(e)
    BY DEF Enter, Unused, Types
<1> USE DEF EnterWith
<1>1. Types'
    <2>1. references' \in [Entries -> Nat] /\ entryOf' \in [Callers -> Entries \cup {None}]
        BY DEF Types
    <2>2. semaphore' \in [Entries -> BOOLEAN]
        BY DEF Types, NewChannel
    <2> QED BY <2>1, <2>2 DEF Types
<1>2. Shared'
    <2>1. \A d \in Callers : IF standing'[d] = "idle" THEN entryOf'[d] = None
                             ELSE entryOf'[d] = moduleLocks' /\ moduleLocks' # None
        BY LockAssumption DEF Types, Shared
    <2>2. ASSUME NEW f \in Entries PROVE references'[f] = Cardinality(Users(f)')
        <3>1. IsFiniteSet(Users(f)) /\ Cardinality(Users(f)) \in Nat /\ references[f] = Cardinality(Users(f))
            BY UsersFinite DEF Shared
        <3>2. c \notin Users(f)
            BY LockAssumption DEF Shared, Users
        <3>3. CASE f = e
            <4>1. Users(f)' = Users(f) \cup {c}
                BY <3>3 DEF Users, Types
            <4>2. Cardinality(Users(f) \cup {c}) = Cardinality(Users(f)) + 1
                BY <3>1, <3>2, FS_AddElement
            <4>3. references'[f] = references[f] + 1
                BY <3>3 DEF Types
            <4> QED BY <3>1, <4>1, <4>2, <4>3
        <3>4. CASE f # e
            <4>1. Users(f)' = Users(f)
                BY <3>2, <3>4 DEF Users, Types
            <4> QED BY <3>1, <3>4, <4>1 DEF Types
        <3> QED BY <3>3, <3>4
    <2> QED BY <2>1, <2>2 DEF Shared
<1>3. OneToken'
    <2>1. \A d \in Callers : standing'[d] = "holding" <=> standing[d] = "holding"
        BY DEF Types
    <2>2. moduleLocks = None => \A d \in Callers : standing[d] # "holding"
        BY DEF Shared
    <2> QED BY <2>1, <2>2, LockAssumption DEF OneToken, MutualExclusion, NewChannel, Types
<1>4. Lined'
    <2>1. \A f \in Entries : \A i \in DOMAIN line[f] : line[f][i] \in Callers /\ line[f][i] # c
        BY ElementOfSeq, LenProperties DEF Types, Lined
    <2> QED BY <2>1 DEF Lined, Types
<1> QED BY <1>1, <1>2, <1>3, <1>4

\* What changes no entry in hand keeps the entries shared.
LEMMA SharedKept ==
    ASSUME LocksInv, Types', UNCHANGED <<entryOf, moduleLocks, references>>,
           \A c \in Callers : standing'[c] = "idle" <=> standing[c] = "idle"
    PROVE  Shared'
BY DEF LocksInv, Shared, Users

LEMMA SelectKeeps ==
    ASSUME LocksInv, NEW c \in Callers, Select(c)
    PROVE  LocksInv'
<1> USE DEF LocksInv
<1> DEFINE e == entryOf[c]
<1>1. e \in Entries /\ e = moduleLocks /\ moduleLocks # None /\ standing[c] = "entered"
    BY DEF Select, Shared, Types
<1>2. CASE semaphore[e] /\ semaphore' = [semaphore EXCEPT ![e] = FALSE]
           /\ Becomes(c, "holding") /\ UNCHANGED line
    <2> USE <1>1, <1>2
    <2>1. Types'
        BY DEF Types, Select
    <2>2. Shared'
        BY <2>1, SharedKept DEF Types, Select
    <2>3. OneToken'
        BY DEF OneToken, MutualExclusion, Types, Select
    <2>4. Lined'
        <3>1. \A f \in Entries : \A i \in DOMAIN line[f] : line[f][i] \in Callers /\ line[f][i] # c
            BY ElementOfSeq, LenProperties DEF Types, Lined
        <3> QED BY <3>1 DEF Lined, Types, Select
    <2> QED BY <2>1, <2>2, <2>3, <2>4
<1>3. CASE ~semaphore[e] /\ line' = [line EXCEPT ![e] = Append(@, c)]
           /\ Becomes(c, "waiting") /\ UNCHANGED semaphore
    <2> USE <1>1, <1>3
    <2>0. line[e] \in Seq(Callers) /\ Len(line[e]) \in Nat /\ DOMAIN line[e] = 1 .. Len(line[e])
        BY LenProperties DEF Types
    <2>a. /\ Append(line[e], c) \in Seq(Callers)
          /\ DOMAIN Append(line[e], c) = 1 .. (Len(line[e]) + 1)
          /\ \A i \in 1 .. Len(line[e]) : Append(line[e], c)[i] = line[e][i]
          /\ Append(line[e], c)[Len(line[e]) + 1] = c
        BY <2>0, AppendProperties, LenProperties
    <2>1. Types'
        BY <2>a DEF Types, Select
    <2>2. Shared'
        BY <2>1, SharedKept DEF Types, Select
    <2>3. OneToken'
        BY DEF OneToken, MutualExclusion, Types, Select
    <2>4. Lined'
        <3>1. \A f \in Entries : \A i \in DOMAIN line[f] : line[f][i] \in Callers /\ line[f][i] # c
            BY ElementOfSeq, LenProperties DEF Types, Lined
        <3>2. ASSUME NEW f \in Entries, f # e, NEW i \in DOMAIN line'[f]
              PROVE  /\ standing'[line'[f][i]] = "waiting" /\ entryOf'[line'[f][i]] = f
                     /\ \A j \in DOMAIN line'[f] : line'[f][i] = line'[f][j] => i = j
            BY <3>1, <3>2 DEF Lined, Types, Select
        <3>3. line'[e] = Append(line[e], c)
            BY DEF Types
        <3>4. ASSUME NEW i \in DOMAIN line'[e]
              PROVE  /\ standing'[line'[e][i]] = "waiting" /\ entryOf'[line'[e][i]] = e
                     /\ \A j \in DOMAIN line'[e] : line'[e][i] = line'[e][j] => i = j
            <4>1. \A j \in DOMAIN line'[e] : \/ j \in DOMAIN line[e] /\ line'[e][j] = line[e][j]
                                             \/ j = Len(line[e]) + 1 /\ line'[e][j] = c
                BY <2>0, <2>a, <3>3
            <4>2. \A j \in DOMAIN line'[e] : standing'[line'[e][j]] = "waiting" /\ entryOf'[line'[e][j]] = e
                BY <3>1, <4>1 DEF Lined, Types, Select
            <4>3. \A j, k \in DOMAIN line'[e] : line'[e][j] = line'[e][k] => j = k
                BY <3>1, <4>1 DEF Lined
            <4> QED BY <3>4, <4>2, <4>3
        <3> QED BY <3>2, <3>4 DEF Lined
    <2> QED BY <2>1, <2>2, <2>3, <2>4
<1> QED BY <1>2, <1>3 DEF Select

LEMMA StopWaitingKeeps ==
    ASSUME LocksInv, NEW c \in Callers, StopWaiting(c)
    PROVE  LocksInv'
<1> USE DEF LocksInv
<1> DEFINE e == entryOf[c]
<1>1. e \in Entries /\ standing[c] \in {"entered", "waiting"}
    BY DEF StopWaiting, Shared, Types
<1>2. CASE standing[c] = "entered" /\ UNCHANGED line
    <2>1. Types'
        BY <1>2 DEF Types, StopWaiting
    <2>2. Shared'
        BY <1>1, <2>1, SharedKept DEF Types, StopWaiting
    <2>3. OneToken'
        BY <1>1 DEF OneToken, MutualExclusion, Types, StopWaiting
    <2>4. \A f \in Entries : \A i \in DOMAIN line[f] : line[f][i] \in Callers /\ line[f][i] # c
        BY <1>2, ElementOfSeq, LenProperties DEF Types, Lined
    <2>5. Lined'
        BY <1>2, <2>4 DEF Lined, Types, StopWaiting
    <2> QED BY <2>1, <2>2, <2>3, <2>5
<1>3. ASSUME standing[c] = "waiting", NEW i \in DOMAIN line[e], line[e][i] = c,
             line' = [line EXCEPT ![e] = RemoveAt(@, i)]
      PROVE  LocksInv'
    <2>0. line[e] \in Seq(Callers) /\ Len(line[e]) \in Nat /\ DOMAIN line[e] = 1 .. Len(line[e])
        BY <1>1, LenProperties DEF Types
    <2>a. /\ RemoveAt(line[e], i) \in Seq(Callers)
          /\ DOMAIN RemoveAt(line[e], i) = 1 .. (Len(line[e]) - 1)
          /\ \A j \in 1 .. (Len(line[e]) - 1) :
                 RemoveAt(line[e], i)[j] = line[e][IF j < i THEN j ELSE j + 1]
        BY <1>3, <2>0, RemovedAt
    <2>b. line'[e] = RemoveAt(line[e], i) /\ \A f \in Entries \ {e} : line'[f] = line[f]
        BY <1>1, <1>3 DEF Types
    <2>1. Types'
        BY <1>1, <1>3, <2>a DEF Types, StopWaiting
    <2>2. Shared'
        BY <1>1, <2>1, SharedKept DEF Types, StopWaiting
    <2>3. OneToken'
        BY <1>1 DEF OneToken, MutualExclusion, Types, StopWaiting
    <2>4. Lined'
        <3>1. \A f \in Entries : \A j \in DOMAIN line[f] : line[f][j] \in Callers
            BY ElementOfSeq, LenProperties DEF Types
        <3>2. ASSUME NEW f \in Entries, f # e, NEW j \in DOMAIN line'[f]
              PROVE  /\ standing'[line'[f][j]] = "waiting" /\ entryOf'[line'[f][j]] = f
                     /\ \A k \in DOMAIN line'[f] : line'[f][j] = line'[f][k] => j = k
            <4>1. line'[f] = line[f] /\ line[f][j] \in Callers /\ line[f][j] # c
                BY <1>1, <2>b, <3>1, <3>2 DEF Lined
            <4> QED BY <3>2, <4>1 DEF Lined, Types, StopWaiting
        <3>4. ASSUME NEW j \in DOMAIN line'[e]
              PROVE  /\ standing'[line'[e][j]] = "waiting" /\ entryOf'[line'[e][j]] = e
                     /\ \A k \in DOMAIN line'[e] : line'[e][j] = line'[e][k] => j = k
            <4> DEFINE old(k) == IF k < i THEN k ELSE k + 1
            <4>0. DOMAIN line'[e] = 1 .. (Len(line[e]) - 1) /\ i \in 1 .. Len(line[e])
                BY <1>3, <2>0, <2>a, <2>b
            <4>1. \A k \in DOMAIN line'[e] : old(k) \in DOMAIN line[e] /\ old(k) # i /\ line'[e][k] = line[e][old(k)]
                <5> SUFFICES ASSUME NEW k \in 1 .. (Len(line[e]) - 1)
                             PROVE  old(k) \in DOMAIN line[e] /\ old(k) # i /\ line'[e][k] = line[e][old(k)]
                    BY <4>0
                <5>1. old(k) \in 1 .. Len(line[e]) /\ old(k) # i
                    BY <2>0, <4>0
                <5>2. line'[e][k] = line[e][old(k)]
                    BY <2>a, <2>b
                <5> QED BY <2>0, <5>1, <5>2
            <4>2. \A k \in DOMAIN line'[e] : old(j) = old(k) => j = k
                BY <2>0, <3>4, <4>0
            <4> HIDE DEF old
            <4>3. line[e][old(j)] \in Callers /\ line[e][old(j)] # c
                BY <1>1, <1>3, <3>1, <3>4, <4>1 DEF Lined
            <4> QED BY <1>1, <3>4, <4>1, <4>2, <4>3 DEF Lined, Types, StopWaiting
        <3> QED BY <3>2, <3>4 DEF Lined
    <2> QED BY <2>1, <2>2, <2>3, <2>4
<1>4. CASE standing[c] = "waiting"
    <2>1. \E i \in DOMAIN line[e] : line[e][i] = c /\ line' = [line EXCEPT ![e] = RemoveAt(@, i)]
        BY <1>4 DEF StopWaiting
    <2> HIDE DEF e
    <2> QED BY <1>3, <1>4, <2>1
<1> QED BY <1>1, <1>2, <1>4 DEF StopWaiting

\* The head of a line, which is who gets the token.
LEMMA HeadOfLine ==
    ASSUME LocksInv, NEW e \in Entries, line[e] # <<>>
    PROVE  /\ line[e] \in Seq(Callers) /\ DOMAIN line[e] = 1 .. Len(line[e]) /\ Len(line[e]) \in Nat \ {0}
           /\ Head(line[e]) = line[e][1] /\ Head(line[e]) \in Callers
           /\ standing[Head(line[e])] = "waiting" /\ entryOf[Head(line[e])] = e
           /\ Tail(line[e]) \in Seq(Callers) /\ DOMAIN Tail(line[e]) = 1 .. (Len(line[e]) - 1)
           /\ \A i \in 1 .. (Len(line[e]) - 1) : Tail(line[e])[i] = line[e][i + 1]
<1>1. line[e] \in Seq(Callers)
    BY DEF LocksInv, Types
<1>2. /\ DOMAIN line[e] = 1 .. Len(line[e]) /\ Len(line[e]) \in Nat \ {0}
      /\ Head(line[e]) = line[e][1] /\ Head(line[e]) \in Callers
    BY <1>1, HeadTailProperties, LenProperties, EmptySeq
<1>3. /\ Tail(line[e]) \in Seq(Callers) /\ DOMAIN Tail(line[e]) = 1 .. (Len(line[e]) - 1)
      /\ \A i \in 1 .. (Len(line[e]) - 1) : Tail(line[e])[i] = line[e][i + 1]
    BY <1>1, <1>2, HeadTailProperties, LenProperties
<1> QED BY <1>1, <1>2, <1>3 DEF LocksInv, Lined

LEMMA UnlockKeeps ==
    ASSUME LocksInv, NEW c \in Callers, Unlock(c)
    PROVE  LocksInv'
<1> USE DEF LocksInv
<1> DEFINE e == entryOf[c]
<1>1. e \in Entries /\ e = moduleLocks /\ moduleLocks # None /\ standing[c] = "holding"
    BY DEF Unlock, Shared, Types
<1>2. CASE line[e] = <<>> /\ semaphore' = [semaphore EXCEPT ![e] = TRUE]
           /\ Becomes(c, "leaving") /\ UNCHANGED line
    <2>1. Types'
        BY <1>1, <1>2 DEF Types, Unlock
    <2>2. Shared'
        BY <1>1, <1>2, <2>1, SharedKept DEF Types, Unlock
    <2>3. OneToken'
        BY <1>1, <1>2 DEF OneToken, MutualExclusion, Types, Unlock
    <2>4. \A f \in Entries : \A i \in DOMAIN line[f] : line[f][i] \in Callers /\ line[f][i] # c
        BY <1>1, ElementOfSeq, LenProperties DEF Types, Lined
    <2>5. Lined'
        BY <1>1, <1>2, <2>4 DEF Lined, Types, Unlock
    <2> QED BY <2>1, <2>2, <2>3, <2>5
<1>3. CASE line[e] # <<>> /\ line' = [line EXCEPT ![e] = Tail(@)] /\ UNCHANGED semaphore
           /\ standing' = [standing EXCEPT ![c] = "leaving", ![Head(line[e])] = "holding"]
    <2> DEFINE h == Head(line[e])
    <2>0. /\ line[e] \in Seq(Callers) /\ DOMAIN line[e] = 1 .. Len(line[e]) /\ Len(line[e]) \in Nat \ {0}
          /\ h = line[e][1] /\ h \in Callers /\ standing[h] = "waiting" /\ entryOf[h] = e
          /\ Tail(line[e]) \in Seq(Callers) /\ DOMAIN Tail(line[e]) = 1 .. (Len(line[e]) - 1)
          /\ \A i \in 1 .. (Len(line[e]) - 1) : Tail(line[e])[i] = line[e][i + 1]
        BY <1>1, <1>3, HeadOfLine
    <2> HIDE DEF h
    <2>a. standing' = [standing EXCEPT ![c] = "leaving", ![h] = "holding"] /\ h # c
        BY <1>1, <1>3, <2>0 DEF h
    <2>b. line'[e] = Tail(line[e]) /\ \A f \in Entries \ {e} : line'[f] = line[f]
        BY <1>1, <1>3 DEF Types
    <2>1. Types'
        BY <1>1, <1>3, <2>0, <2>a DEF Types, Unlock
    <2>2. Shared'
        BY <1>1, <2>0, <2>a, <2>1, SharedKept DEF Types, Unlock
    <2>3. OneToken'
        <3>1. \A d \in Callers : standing[d] = "holding" => d = c
            BY <1>1 DEF OneToken, MutualExclusion
        <3>2. \A d \in Callers : standing'[d] = "holding" <=> d = h
            BY <1>1, <2>0, <2>a, <3>1 DEF Types
        <3>3. ~semaphore'[e] /\ moduleLocks' = e
            BY <1>1, <1>3 DEF Unlock
        <3> QED BY <2>0, <3>2, <3>3 DEF OneToken, MutualExclusion
    <2>4. \A f \in Entries : \A i \in DOMAIN line[f] : line[f][i] \in Callers /\ line[f][i] # c
        BY <1>1, ElementOfSeq, LenProperties DEF Types, Lined
    <2>5. Lined'
        <3>2. ASSUME NEW f \in Entries, f # e, NEW j \in DOMAIN line'[f]
              PROVE  /\ standing'[line'[f][j]] = "waiting" /\ entryOf'[line'[f][j]] = f
                     /\ \A k \in DOMAIN line'[f] : line'[f][j] = line'[f][k] => j = k
            <4>1. line'[f] = line[f] /\ line[f][j] \in Callers /\ line[f][j] # c /\ line[f][j] # h
                BY <2>0, <2>b, <2>4, <3>2 DEF Lined
            <4> QED BY <2>a, <3>2, <4>1 DEF Lined, Types, Unlock
        <3>4. ASSUME NEW j \in DOMAIN line'[e]
              PROVE  /\ standing'[line'[e][j]] = "waiting" /\ entryOf'[line'[e][j]] = e
                     /\ \A k \in DOMAIN line'[e] : line'[e][j] = line'[e][k] => j = k
            <4>1. \A k \in DOMAIN line'[e] : k + 1 \in DOMAIN line[e] /\ k + 1 # 1 /\ line'[e][k] = line[e][k + 1] /\ k \in Nat
                BY <2>0, <2>b
            <4>2. 1 \in DOMAIN line[e]
                BY <2>0
            <4>3. line'[e][j] \in Callers /\ line'[e][j] # c /\ line'[e][j] # h
                BY <1>1, <2>0, <2>4, <3>4, <4>1, <4>2 DEF Lined
            <4>4. standing[line'[e][j]] = "waiting" /\ entryOf[line'[e][j]] = e
                BY <1>1, <3>4, <4>1 DEF Lined
            <4>5. \A k \in DOMAIN line'[e] : line'[e][j] = line'[e][k] => j + 1 = k + 1
                BY <1>1, <3>4, <4>1 DEF Lined
            <4>6. \A k \in DOMAIN line'[e] : line'[e][j] = line'[e][k] => j = k
                BY <3>4, <4>1, <4>5
            <4> QED BY <2>a, <4>3, <4>4, <4>6 DEF Types, Unlock
        <3> QED BY <3>2, <3>4 DEF Lined
    <2> QED BY <2>1, <2>2, <2>3, <2>5
<1> QED BY <1>2, <1>3 DEF Unlock

\* The last one to leave finds nobody else with the entry.
LEMMA ReleaseReferenceKeeps ==
    ASSUME LocksInv, NEW c \in Callers, ReleaseReference(c)
    PROVE  LocksInv'
<1> USE DEF LocksInv
<1> DEFINE e == entryOf[c]
<1>1. e \in Entries /\ e = moduleLocks /\ moduleLocks # None /\ standing[c] = "leaving"
    BY DEF ReleaseReference, Shared, Types
<1>2. IsFiniteSet(Users(e)) /\ references[e] = Cardinality(Users(e)) /\ c \in Users(e)
    BY <1>1, UsersFinite DEF Shared, Users
<1>3. references[e] \in Nat \ {0}
    <2>1. Users(e) # {}
        BY <1>2
    <2> QED BY <1>1, <1>2, <2>1, FS_EmptySet DEF Types
<1>4. LastReference(e) => \A d \in Callers \ {c} : standing[d] = "idle"
    <2> SUFFICES ASSUME references[e] = 1, NEW d \in Callers \ {c} PROVE standing[d] = "idle"
        BY DEF LastReference
    <2>1. PICK x : Users(e) = {x}
        BY <1>2, FS_Singleton
    <2>2. d \notin Users(e)
        BY <1>2, <2>1
    <2> QED BY <1>1, <2>2 DEF Shared, Users
<1>5. Types'
    BY <1>1, <1>3, LockAssumption DEF Types, ReleaseReference
<1>6. Shared'
    <2>1. \A d \in Callers : IF standing'[d] = "idle" THEN entryOf'[d] = None
                             ELSE entryOf'[d] = moduleLocks' /\ moduleLocks' # None
        BY <1>1, <1>4 DEF Types, Shared, ReleaseReference
    <2>2. ASSUME NEW f \in Entries PROVE references'[f] = Cardinality(Users(f)')
        <3>1. IsFiniteSet(Users(f)) /\ Cardinality(Users(f)) \in Nat /\ references[f] = Cardinality(Users(f))
            BY UsersFinite DEF Shared
        <3>2. CASE f = e
            <4>1. Users(f)' = Users(f) \ {c}
                BY <1>1, <3>2, LockAssumption DEF Users, Types, ReleaseReference
            <4>2. Cardinality(Users(f) \ {c}) = Cardinality(Users(f)) - 1
                BY <1>2, <3>1, <3>2, FS_RemoveElement
            <4>3. references'[f] = references[f] - 1
                BY <1>1, <3>2 DEF Types, ReleaseReference
            <4> QED BY <3>1, <4>1, <4>2, <4>3
        <3>3. CASE f # e
            <4>1. Users(f)' = Users(f)
                BY <1>1, <3>3, LockAssumption DEF Users, Types, ReleaseReference
            <4>2. references'[f] = references[f]
                BY <1>1, <3>3 DEF Types, ReleaseReference
            <4> QED BY <3>1, <4>1, <4>2
        <3> QED BY <3>2, <3>3
    <2> QED BY <2>1, <2>2 DEF Shared
<1>7. OneToken'
    BY <1>1 DEF OneToken, MutualExclusion, Types, ReleaseReference
<1>8. Lined'
    <2>1. \A f \in Entries : \A i \in DOMAIN line[f] : line[f][i] \in Callers /\ line[f][i] # c
        BY <1>1, ElementOfSeq, LenProperties DEF Types, Lined
    <2> QED BY <2>1 DEF Lined, Types, ReleaseReference
<1> QED BY <1>5, <1>6, <1>7, <1>8

LEMMA LocksNextKeeps == LocksInv /\ [LocksNext]_locksVars => LocksInv'
<1>1. ASSUME LocksInv, UNCHANGED locksVars PROVE LocksInv'
    BY <1>1 DEF locksVars, LocksInv, Types, Shared, Users, OneToken, MutualExclusion, Lined
<1> QED BY <1>1, EnterKeeps, SelectKeeps, StopWaitingKeeps, UnlockKeeps, ReleaseReferenceKeeps
    DEF LocksNext

\* The steps of the lock, alone or beside those of other components.
LocksSteps == LocksInit /\ [][LocksNext]_locksVars

LEMMA LocksTakeSteps == (LocksSpec => LocksSteps) /\ (Spec => LocksSteps)
<1>1. Init => LocksInit
    BY DEF Init
<1>2. [Next]_vars => [LocksNext]_locksVars
    BY DEF Next, vars, locksVars
<1> QED BY <1>1, <1>2, PTL DEF LocksSpec, LocksSteps, Spec

LEMMA LocksInductive == LocksSteps => []LocksInv
BY LocksInitInv, LocksNextKeeps, PTL DEF LocksSteps

-----------------------------------------------------------------------------
\* The lock's variables keep their types; the references are bounded by the callers.
THEOREM LocksTypeCorrect == LocksSpec \/ Spec => []LocksTypeOK
<1>1. LocksInv => LocksTypeOK
    <2> SUFFICES ASSUME LocksInv PROVE LocksTypeOK
        OBVIOUS
    <2>1. Cardinality(Callers) \in Nat
        BY LockAssumption, FS_CardinalityType
    <2>2. \A e \in Entries : references[e] \in 0 .. Cardinality(Callers)
        BY <2>1, UsersFinite DEF LocksInv, Shared
    <2> QED BY <2>2 DEF LocksInv, Types, LocksTypeOK
<1> QED BY <1>1, LocksInductive, LocksTakeSteps, PTL

\* sqlite.go:358: at most one caller holds the module, and a newcomer finds the
\* entry of those who hold it or wait for it.
THEOREM OneLock == LocksSpec \/ Spec => [](MutualExclusion /\ EntryShared)
<1>1. LocksInv => MutualExclusion /\ EntryShared
    BY LockAssumption DEF LocksInv, Shared, OneToken, EntryShared, Users
<1> QED BY <1>1, LocksInductive, LocksTakeSteps, PTL

\* sqlite.go:358: the counted semaphores implement the lock that the module
\* service relies on.
THEOREM PromiseIsKept == LocksSpec \/ Spec => LockKeepsPromise
<1> DEFINE inside == {c \in Callers : standing[c] = "holding"}
<1>1. LocksInit => Promise!Init
    BY DEF LocksInit, Promise!Init
<1>2. LocksInv /\ [LocksNext]_locksVars => [Promise!Next]_inside
    <2> SUFFICES ASSUME LocksInv, [LocksNext]_locksVars PROVE [Promise!Next]_inside
        OBVIOUS
    <2> USE DEF LocksInv
    <2>1. ASSUME UNCHANGED locksVars PROVE inside' = inside
        BY <2>1 DEF locksVars
    <2>2. ASSUME NEW c \in Callers, Enter(c) \/ StopWaiting(c) \/ ReleaseReference(c) PROVE inside' = inside
        BY <2>2 DEF Enter, EnterWith, StopWaiting, ReleaseReference, Types
    <2>3. ASSUME NEW c \in Callers, Select(c) PROVE inside' = inside \/ Promise!Acquire(c)
        <3>1. entryOf[c] \in Entries /\ entryOf[c] = moduleLocks /\ moduleLocks # None
            BY <2>3 DEF Select, Shared, Types
        <3> QED BY <2>3, <3>1 DEF Select, Types, OneToken, Promise!Acquire
    <2>4. ASSUME NEW c \in Callers, Unlock(c)
          PROVE  Promise!Release(c) \/ \E d \in Callers : Promise!Pass(c, d)
        <3>1. entryOf[c] \in Entries /\ standing[c] = "holding" /\ inside = {c}
            BY <2>4 DEF Unlock, Shared, Types, OneToken, MutualExclusion
        <3>2. CASE line[entryOf[c]] = <<>>
            BY <2>4, <3>1, <3>2 DEF Unlock, Types, Promise!Release
        <3>3. CASE line[entryOf[c]] # <<>>
            <4> DEFINE h == Head(line[entryOf[c]])
            <4>1. h \in Callers /\ h # c
                BY <3>1, <3>3, HeadOfLine
            <4> HIDE DEF h
            <4>2. standing' = [standing EXCEPT ![c] = "leaving", ![h] = "holding"]
                BY <2>4, <3>3 DEF Unlock, h
            <4>3. inside' = {h}
                BY <3>1, <4>1, <4>2 DEF Types
            <4> QED BY <3>1, <4>1, <4>3 DEF Promise!Pass
        <3> QED BY <3>2, <3>3
    <2> QED BY <2>1, <2>2, <2>3, <2>4 DEF LocksNext, Promise!Next
<1> QED BY <1>1, <1>2, LocksInductive, LocksTakeSteps, PTL DEF LocksSteps, LockKeepsPromise, Promise!Spec

HIDE DEF Becomes

-----------------------------------------------------------------------------
(* The background jobs *)

\* A call that has a context lasts no longer than the context and the slack.
CallsEnd == \A r \in Replicas : task[r] \in Busy => clock[r] <= Longest

\* Whoever runs, or is about to, has the lease since its acquisition began.
Leased ==
    job # "refresh" =>
        \A r \in Replicas : task[r] \in {"granted", "cleaning"} =>
            leaseHolder = r /\ leaseLeft + clock[r] >= LeaseTime

\* The inductive invariant.
JobsInv == JobsTypeOK /\ CallsEnd /\ Leased /\ StoreOutlivesWorkers

USE DEF Busy, LeaseTime, Longest
-------------------------------------------------------------------------------
\* The timer of a worker is set to a natural number.
LEMMA DelaysAreNatural ==
    ASSUME job \in Kinds, NEW b \in BOOLEAN PROVE Delays(b) \subseteq Nat
  BY TimeAssumption DEF Delays

\* Changing one entry of what the workers do keeps the types.
LEMMA GotoTypes ==
    ASSUME JobsTypeOK, NEW r \in Replicas,
           NEW where \in Busy \cup {"waiting", "releasing", "done", "exited"}, NEW time \in Nat,
           Goto(r, where, time)
    PROVE  /\ task' \in [Replicas -> Busy \cup {"waiting", "releasing", "done", "exited"}]
           /\ clock' \in [Replicas -> Nat]
           /\ task'[r] = where /\ clock'[r] = time
           /\ \A s \in Replicas \ {r} : task'[s] = task[s] /\ clock'[s] = clock[s]
  BY DEF JobsTypeOK, Goto

LEMMA JobsInitInv == JobsInit => JobsInv
  <1> SUFFICES ASSUME JobsInit PROVE JobsInv
    OBVIOUS
  <1>1. FirstDelays \subseteq Nat
    BY TimeAssumption DEF JobsInit, FirstDelays
  <1>2. clock \in [Replicas -> Nat]
    BY <1>1 DEF JobsInit
  <1>3. -1 \in -1..CloseTimeout /\ 0 \in 0..LeaseTime /\ 0 \in 0..MaxJobFaults
    BY TimeAssumption
  <1>4. closeLeft \in [Replicas -> -1..CloseTimeout]
    BY <1>3 DEF JobsInit
  <1>5. JobsTypeOK
    BY <1>2, <1>3, <1>4 DEF JobsInit, JobsTypeOK
  <1> QED BY <1>5 DEF JobsInit, JobsInv, CallsEnd, Leased, StoreOutlivesWorkers

\* A worker that stops, waits or gives back takes nothing from the others: the
\* steps after which it runs no job and the lease is as before.
LEMMA StepAside ==
    ASSUME JobsInv, NEW r \in Replicas, NEW where \in {"waiting", "releasing", "done", "exited"},
           NEW time \in Nat, Goto(r, where, time),
           storeOpen[r] \/ where \in {"done", "exited"},
           UNCHANGED <<job, closeLeft, storeOpen, lease>>,
           late' \subseteq Replicas, faults' \in 0..MaxJobFaults
    PROVE  JobsInv'
  <1> USE DEF JobsInv
  <1>1. /\ task' \in [Replicas -> Busy \cup {"waiting", "releasing", "done", "exited"}]
        /\ clock' \in [Replicas -> Nat]
        /\ task'[r] = where /\ clock'[r] = time
        /\ \A s \in Replicas \ {r} : task'[s] = task[s] /\ clock'[s] = clock[s]
    BY GotoTypes
  <1>2. JobsTypeOK'
    BY <1>1 DEF JobsTypeOK, lease
  <1>3. CallsEnd' /\ StoreOutlivesWorkers'
    BY <1>1 DEF CallsEnd, StoreOutlivesWorkers
  <1>4. Leased'
    BY <1>1 DEF Leased, lease
  <1> QED BY <1>2, <1>3, <1>4
-------------------------------------------------------------------------------
LEMMA WaitAgainKeeps ==
    ASSUME JobsInv, NEW r \in Replicas, NEW b \in BOOLEAN, WaitAgain(r, b),
           task[r] \notin {"done", "exited"},
           UNCHANGED <<job, closeLeft, storeOpen, lease>>,
           late' \subseteq Replicas, faults' \in 0..MaxJobFaults
    PROVE  JobsInv'
  <1>1. PICK d \in Delays(b) : Goto(r, "waiting", d)
    BY DEF WaitAgain
  <1>2. d \in Nat /\ storeOpen[r]
    BY DelaysAreNatural DEF JobsInv, JobsTypeOK, StoreOutlivesWorkers
  <1> QED BY <1>1, <1>2, StepAside

\* Faults stay within their bound.
LEMMA FaultCounted ==
    ASSUME JobsTypeOK, NEW r \in Replicas, Fault \/ Interrupted(r) \/ UNCHANGED faults
    PROVE  faults' \in 0..MaxJobFaults
  BY TimeAssumption DEF JobsTypeOK, Fault, Interrupted

\* A worker that goes on to a call of its run, with or without a new lease.
LEMMA StepUp ==
    ASSUME JobsInv, NEW r \in Replicas, NEW where \in Busy, NEW time \in Nat, Goto(r, where, time),
           time <= Longest, task[r] \notin {"done", "exited"},
           where # "acquiring" /\ job # "refresh" => leaseHolder' = r /\ leaseLeft' + time >= LeaseTime,
           \A s \in Replicas \ {r} : job # "refresh" /\ task[s] \in {"granted", "cleaning"} => UNCHANGED lease,
           leaseHolder' \in Replicas \cup {NoHolder}, leaseLeft' \in 0..LeaseTime,
           UNCHANGED <<job, closeLeft, storeOpen, late, faults>>
    PROVE  JobsInv'
  <1> USE DEF JobsInv
  <1>1. /\ task' \in [Replicas -> Busy \cup {"waiting", "releasing", "done", "exited"}]
        /\ clock' \in [Replicas -> Nat]
        /\ task'[r] = where /\ clock'[r] = time
        /\ \A s \in Replicas \ {r} : task'[s] = task[s] /\ clock'[s] = clock[s]
    BY GotoTypes
  <1>2. JobsTypeOK'
    BY <1>1 DEF JobsTypeOK
  <1>3. CallsEnd' /\ StoreOutlivesWorkers'
    BY <1>1 DEF CallsEnd, StoreOutlivesWorkers
  <1>4. Leased'
    BY <1>1 DEF Leased, lease
  <1> QED BY <1>2, <1>3, <1>4

\* A lease under which another replica runs cannot be taken: its time is not over.
LEMMA NotTaken ==
    ASSUME JobsInv, job # "refresh", NEW r \in Replicas, NEW s \in Replicas \ {r},
           task[s] \in {"granted", "cleaning"}
    PROVE  ~CanTake(r)
  <1>1. leaseHolder = s /\ leaseLeft + clock[s] >= LeaseTime /\ clock[s] <= Longest
    BY DEF JobsInv, Leased, CallsEnd
  <1>2. leaseLeft > 0
    BY <1>1, TimeAssumption DEF JobsInv, JobsTypeOK
  <1> QED BY <1>1, <1>2, TimeAssumption DEF CanTake

LEMMA AcquireLeaseKeeps ==
    ASSUME JobsInv, NEW r \in Replicas, AcquireLease(r) PROVE JobsInv'
  <1> USE DEF AcquireLease
  <1>1. CASE CanTake(r) /\ Take(r) /\ Goto(r, "granted", clock[r])
    <2>1. clock[r] \in Nat /\ clock[r] <= Longest
      BY DEF JobsInv, JobsTypeOK, CallsEnd
    <2>2. leaseHolder' = r /\ leaseLeft' = LeaseTime /\ LeaseTime \in Nat
      BY <1>1, TimeAssumption DEF Take
    <2>3. \A s \in Replicas \ {r} : job # "refresh" /\ task[s] \in {"granted", "cleaning"} => UNCHANGED lease
      BY <1>1, NotTaken
    <2> QED BY <1>1, <2>1, <2>2, <2>3, StepUp
  <1>2. CASE WaitAgain(r, FALSE) /\ UNCHANGED lease
    BY <1>2, WaitAgainKeeps DEF JobsInv, JobsTypeOK
  <1> QED BY <1>1, <1>2

\* Only the row's holder gives it back, and it runs nothing then.
LEMMA GiveBackKeeps ==
    ASSUME JobsInv, NEW r \in Replicas, ReleaseLease(r),
           \A s \in Replicas \ {r} : job # "refresh" /\ task[s] \in {"granted", "cleaning"} => leaseHolder = s
    PROVE  JobsInv'
  <1> USE DEF JobsInv, ReleaseLease
  <1>1. /\ task' \in [Replicas -> Busy \cup {"waiting", "releasing", "done", "exited"}]
        /\ clock' \in [Replicas -> Nat]
        /\ task'[r] = "done" /\ clock'[r] = 0
        /\ \A s \in Replicas \ {r} : task'[s] = task[s] /\ clock'[s] = clock[s]
    BY GotoTypes
  <1>2. JobsTypeOK'
    BY <1>1, TimeAssumption DEF JobsTypeOK, lease
  <1>3. CallsEnd' /\ StoreOutlivesWorkers'
    BY <1>1 DEF CallsEnd, StoreOutlivesWorkers
  <1>4. Leased'
    BY <1>1 DEF Leased, lease, IsHolder
  <1> QED BY <1>2, <1>3, <1>4

LEMMA WorkerKeeps ==
    ASSUME JobsInv, NEW r \in Replicas, Worker(r) PROVE JobsInv'
  <1> USE DEF JobsInv, JobsTypeOK
  <1>1. CASE WakeUp(r)
    BY <1>1, StepUp, TimeAssumption DEF WakeUp, lease
  <1>2. CASE AcquireLease(r)
    BY <1>2, AcquireLeaseKeeps
  <1>3. CASE AcquireLeaseFails(r)
    <2>1. faults' \in 0..MaxJobFaults /\ late' \subseteq Replicas
      BY <1>3, FaultCounted DEF AcquireLeaseFails
    <2> QED BY <1>3, <2>1, WaitAgainKeeps DEF AcquireLeaseFails
  <1>4. CASE StartRun(r)
    <2>1. Goto(r, "cleaning", IF job = "refresh" THEN 0 ELSE clock[r])
      BY <1>4 DEF StartRun
    <2>2. job # "refresh" => leaseHolder' = r /\ leaseLeft' + clock[r] >= LeaseTime
      BY <1>4 DEF StartRun, Leased, lease
    <2> DEFINE time == IF job = "refresh" THEN 0 ELSE clock[r]
    <2>3. time \in Nat /\ time <= Longest
      BY <1>4, TimeAssumption DEF StartRun, CallsEnd
    <2> QED BY <1>4, <2>1, <2>2, <2>3, StepUp DEF StartRun, lease
  <1>5. CASE ReplyLost(r)
    <2>1. faults' \in 0..MaxJobFaults
      BY <1>5, FaultCounted DEF ReplyLost
    <2> QED BY <1>5, <2>1, WaitAgainKeeps DEF ReplyLost
  <1>6. CASE FinishRun(r)
    <2>1. faults' \in 0..MaxJobFaults
      BY <1>6, FaultCounted DEF FinishRun
    <2>2. \E b \in BOOLEAN : WaitAgain(r, b)
      BY <1>6 DEF FinishRun
    <2> QED BY <1>6, <2>1, <2>2, WaitAgainKeeps DEF FinishRun
  <1>7. CASE LeaveLoop(r)
    BY <1>7, StepAside DEF LeaveLoop, StoreOutlivesWorkers
  <1>8. CASE ReleaseLease(r)
    <2>1. \A s \in Replicas \ {r} : job # "refresh" /\ task[s] \in {"granted", "cleaning"} => leaseHolder = s
      BY DEF Leased
    <2> QED BY <1>8, <2>1, GiveBackKeeps
  <1>9. CASE ReleaseFails(r)
    <2>1. faults' \in 0..MaxJobFaults
      BY <1>9, FaultCounted DEF ReleaseFails
    <2> QED BY <1>9, <2>1, StepAside DEF ReleaseFails
  <1> QED BY <1>1, <1>2, <1>3, <1>4, <1>5, <1>6, <1>7, <1>8, <1>9 DEF Worker
-------------------------------------------------------------------------------
LEMMA LateAcquireKeeps ==
    ASSUME JobsInv, NEW r \in Replicas, LateAcquire(r) PROVE JobsInv'
  <1> USE DEF JobsInv, LateAcquire
  <1>1. UNCHANGED <<task, clock>>
    BY DEF worker
  <1>2. JobsTypeOK'
    BY <1>1, TimeAssumption DEF JobsTypeOK, lease, Take
  <1>3. CallsEnd' /\ StoreOutlivesWorkers'
    BY <1>1 DEF CallsEnd, StoreOutlivesWorkers
  <1>4. Leased'
    <2> SUFFICES ASSUME job # "refresh", NEW s \in Replicas, task[s] \in {"granted", "cleaning"}
                 PROVE  leaseHolder' = s /\ leaseLeft' + clock[s] >= LeaseTime
      BY <1>1 DEF Leased
    <2>1. CASE UNCHANGED lease
      BY <2>1 DEF Leased, lease
    <2>2. CASE CanTake(r) /\ Take(r)
      BY <2>2, NotTaken, TimeAssumption DEF Take, JobsTypeOK
    <2> QED BY <2>1, <2>2
  <1> QED BY <1>2, <1>3, <1>4

LEMMA ClosingKeeps ==
    ASSUME JobsInv, NEW r \in Replicas, Closing(r) \/ Close(r) \/ Crash(r) PROVE JobsInv'
  <1> USE DEF JobsInv
  <1>1. CASE CloseStore(r)
    <2>1. UNCHANGED <<task, clock, leaseHolder, leaseLeft>>
      BY <1>1 DEF CloseStore, worker, lease
    <2>2. storeOpen' = [storeOpen EXCEPT ![r] = FALSE] /\ task[r] = "done"
      BY <1>1 DEF CloseStore, WorkersStopped
    <2> QED BY <1>1, <2>1, <2>2 DEF CloseStore, JobsTypeOK, CallsEnd, Leased, StoreOutlivesWorkers
  <1>2. CASE Exit(r)
    BY <1>2, StepAside DEF Exit, JobsTypeOK
  <1>3. CASE Close(r)
    <2>1. UNCHANGED <<task, clock, leaseHolder, leaseLeft>>
      BY <1>3 DEF Close, worker, lease
    <2> QED BY <1>3, <2>1, TimeAssumption DEF Close, JobsTypeOK, CallsEnd, Leased, StoreOutlivesWorkers
  <1>4. CASE Crash(r)
    <2>1. faults' \in 0..MaxJobFaults
      BY <1>4, FaultCounted DEF Crash
    <2> QED BY <1>4, <2>1, StepAside DEF Crash, JobsTypeOK
  <1> QED BY <1>1, <1>2, <1>3, <1>4 DEF Closing

\* A unit of time off the lease is a unit on the clock of the run under it.
LEMMA TickKeeps ==
    ASSUME JobsInv, JobsTick PROVE JobsInv'
  <1> USE DEF JobsInv, JobsTick
  <1>1. JobsTypeOK'
    BY TimeAssumption DEF JobsTypeOK, Advance
  <1>2. ASSUME NEW r \in Replicas, task[r] \in Busy PROVE clock'[r] <= Longest
    BY <1>2, TimeAssumption DEF JobsTypeOK, CallsEnd, Advance
  <1>3. ASSUME job # "refresh", NEW r \in Replicas, task[r] \in {"granted", "cleaning"}
        PROVE  leaseHolder = r /\ leaseLeft' + clock'[r] >= LeaseTime
    <2>1. leaseHolder = r /\ leaseLeft + clock[r] >= LeaseTime
      BY <1>3 DEF Leased
    <2>2. clock[r] < Longest
      BY <1>3, TimeAssumption DEF MayWait, OutsideRun, Patience, JobsTypeOK
    <2>3. clock'[r] = clock[r] + 1
      BY <1>3, <2>2 DEF Advance
    <2> QED BY <2>1, <2>3, TimeAssumption DEF JobsTypeOK
  <1>4. StoreOutlivesWorkers'
    BY DEF StoreOutlivesWorkers
  <1> QED BY <1>1, <1>2, <1>3, <1>4 DEF CallsEnd, Leased

LEMMA JobsNextKeeps == JobsInv /\ [JobsNext]_jobsVars => JobsInv'
  <1> SUFFICES ASSUME JobsInv, [JobsNext]_jobsVars PROVE JobsInv'
    OBVIOUS
  <1>1. CASE JobsTick
    BY <1>1, TickKeeps
  <1>2. ASSUME NEW r \in Replicas, Worker(r) \/ Closing(r) \/ LateAcquire(r) \/ Close(r) \/ Crash(r)
        PROVE  JobsInv'
    BY <1>2, WorkerKeeps, ClosingKeeps, LateAcquireKeeps
  <1>3. CASE UNCHANGED jobsVars
    BY <1>3 DEF jobsVars, JobsInv, JobsTypeOK, CallsEnd, Leased, StoreOutlivesWorkers
  <1> QED BY <1>1, <1>2, <1>3 DEF JobsNext

\* The steps of the jobs, alone or beside those of other components.
JobsSteps == JobsInit /\ [][JobsNext]_jobsVars

LEMMA JobsTakeSteps == (JobsSpec => JobsSteps) /\ (Spec => JobsSteps)
  <1>1. Init => JobsInit
    BY DEF Init
  <1>2. [Next]_vars => [JobsNext]_jobsVars
    BY DEF Next, vars, jobsVars
  <1> QED BY <1>1, <1>2, PTL DEF JobsSpec, JobsSteps, Spec

LEMMA JobsInductive == JobsSteps => []JobsInv
  BY JobsInitInv, JobsNextKeeps, PTL DEF JobsSteps
-------------------------------------------------------------------------------
\* Every variable of the jobs keeps its type.
THEOREM JobsTypeCorrect == JobsSpec \/ Spec => []JobsTypeOK
  <1>1. JobsInv => JobsTypeOK
    BY DEF JobsInv
  <1> QED BY <1>1, JobsInductive, JobsTakeSteps, PTL

\* app.go:523 and 560: no two replicas run one cleanup at once, however many there
\* are, whenever they crash, and although a lease statement may arrive late.
THEOREM OneCleanerAtATime == JobsSpec \/ Spec => []OneCleaner
  <1>1. JobsInv => OneCleaner
    BY DEF JobsInv, Leased, OneCleaner
  <1> QED BY <1>1, JobsInductive, JobsTakeSteps, PTL

\* app.go:310: App.Close closes the database pool only after the worker is done.
THEOREM StoreIsClosedLast == JobsSpec \/ Spec => []StoreOutlivesWorkers
  <1>1. JobsInv => StoreOutlivesWorkers
    BY DEF JobsInv
  <1> QED BY <1>1, JobsInductive, JobsTakeSteps, PTL

\* app.go:343: nobody loses a lease that has not expired but by giving it back.
THEOREM LeasesAreGivenBack == JobsSpec \/ Spec => LeaseOnlyGivenBack
  <1>1. ASSUME JobsInv, [JobsNext]_jobsVars, leaseHolder # NoHolder, leaseLeft > 0, leaseHolder' # leaseHolder
        PROVE  task[leaseHolder] = "releasing"
    <2>1. leaseLeft # 0
      BY <1>1
    <2>2. PICK r \in Replicas : AcquireLease(r) \/ LateAcquire(r) \/ ReleaseLease(r)
      BY <1>1 DEF jobsVars, JobsNext, JobsTick, Worker, WakeUp, AcquireLeaseFails, StartRun, ReplyLost,
                  FinishRun, LeaveLoop, ReleaseFails, Closing, CloseStore, Exit, Close, Crash, lease
    <2> QED BY <1>1, <2>1, <2>2 DEF AcquireLease, LateAcquire, ReleaseLease, CanTake, Take, IsHolder, lease
  <1>2. JobsInv /\ [JobsNext]_jobsVars
        => [leaseHolder # NoHolder /\ leaseLeft > 0 /\ leaseHolder' # leaseHolder
            => task[leaseHolder] = "releasing"]_jobsVars
    BY <1>1
  <1> QED BY <1>2, JobsInductive, JobsTakeSteps, PTL DEF JobsSteps, LeaseOnlyGivenBack
=============================================================================
