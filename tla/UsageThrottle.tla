----------------------------- MODULE UsageThrottle -----------------------------
(* How a download is noted: an expiry set of                                   *)
(* src/internal/throttle/expiry_set.go in front of the row that                *)
(* MarkReleaseUsed writes to release_usage, another one in front of the row    *)
(* that MarkReleaseConsumerUsed writes to release_consumers                    *)
(* (src/internal/service/module_service.go).  The two never meet: a behaviour  *)
(* is one of them, and table names its rows.  Both are pruned by age; a module *)
(* takes its rows of release_usage with it when it is deleted, and the expiry  *)
(* sets are not told.                                                          *)
EXTENDS Integers, FiniteSets, FiniteSetsExt

CONSTANTS
    Downloads,    \* concurrent downloads of one replica
    UsageKeys,        \* release, or consumer and release: naturals, ordered as the heap orders equal expiries
    MaxUsageEntries, UsageInterval,
    UsageRetention,   \* the age at which a row is pruned
    MaxTime      \* bound on the clock

ASSUME ThrottleAssumption ==
    /\ UsageKeys \subseteq Nat /\ MaxUsageEntries \in Nat \ {0}
    /\ UsageInterval \in Nat \ {0} /\ UsageRetention \in Nat \ {0} /\ MaxTime \in Nat

VARIABLES
    now,
    expiresAt,       \* the recorded keys: 0 for one that is not in the set
    step, noting, readAt,     \* of a request: its step, its release, the time it read
    table, rows,     \* the table in use; of a key, its last use or sighting, 0 when there is no row
    swept            \* history: keys recorded before a delete of their module removed their row

throttleVars == <<now, expiresAt, step, noting, readAt, table, rows, swept>>

\* ExpirySet.Record, under its mutex, with the time its caller read before
Live(t)      == {k \in UsageKeys : expiresAt[k] > t}
NextExpiry(S) == CHOOSE k \in S : \A l \in S \ {k} :
                     expiresAt[k] < expiresAt[l] \/ (expiresAt[k] = expiresAt[l] /\ k < l)
KeptFor(k, t) == IF Cardinality(Live(t)) >= MaxUsageEntries
                 THEN Live(t) \ {NextExpiry(Live(t))} ELSE Live(t)
Recorded(k, t) == [l \in UsageKeys |-> IF l = k THEN t + UsageInterval
                                  ELSE IF l \in KeptFor(k, t) THEN expiresAt[l] ELSE 0]
Expired(t) == [l \in UsageKeys |-> IF l \in Live(t) THEN expiresAt[l] ELSE 0]
-------------------------------------------------------------------------------
ThrottleInit ==
    /\ now = 1
    /\ expiresAt = [k \in UsageKeys |-> 0]
    /\ step = [q \in Downloads |-> "idle"]
    /\ noting \in [Downloads -> {Min(UsageKeys)}] /\ readAt = [q \in Downloads |-> 0]
    /\ table \in {"release_usage", "release_consumers"}
    /\ rows = [k \in UsageKeys |-> 0] /\ swept = {}

Finish(q) ==
    /\ step' = [step EXCEPT ![q] = "idle"]
    /\ noting' = [noting EXCEPT ![q] = Min(UsageKeys)] /\ readAt' = [readAt EXCEPT ![q] = 0]

\* time.Now is read before Record takes the mutex.
Download(q, k) ==
    /\ step[q] = "idle"
    /\ step' = [step EXCEPT ![q] = "recording"]
    /\ noting' = [noting EXCEPT ![q] = k] /\ readAt' = [readAt EXCEPT ![q] = now]
    /\ UNCHANGED <<now, expiresAt, table, rows, swept>>

Record(q) ==
    /\ step[q] = "recording"
    /\ \/ /\ noting[q] \in Live(readAt[q])
          /\ expiresAt' = Expired(readAt[q]) /\ Finish(q) /\ UNCHANGED swept
       \/ /\ noting[q] \notin Live(readAt[q])
          /\ expiresAt' = Recorded(noting[q], readAt[q]) /\ step' = [step EXCEPT ![q] = "writing"]
          /\ swept' = swept \ {noting[q]}
          /\ UNCHANGED <<noting, readAt>>
    /\ UNCHANGED <<now, table, rows>>

\* insert ... on conflict do update: release_usage takes the time of the
\* statement, release_consumers the greatest time that a request has read.
Noting(k, t) ==
    [rows EXCEPT ![k] = IF table = "release_usage" THEN now
                        ELSE IF t > @ THEN t ELSE @]

WriteRow(q) ==
    /\ step[q] = "writing"
    /\ rows' = Noting(noting[q], readAt[q])
    /\ Finish(q)
    /\ UNCHANGED <<now, expiresAt, table, swept>>

\* The write fails and nothing is stored, or it is stored and the reply is lost.
WriteRowFails(q) ==
    /\ step[q] = "writing"
    /\ rows' \in {rows, Noting(noting[q], readAt[q])}
    /\ step' = [step EXCEPT ![q] = "forgetting"]
    /\ UNCHANGED <<now, expiresAt, noting, readAt, table, swept>>

\* Forget removes the key, whoever recorded it.  (Mutant: it stays.)
StillRecorded(k) == expiresAt
Forgotten(k)     == [expiresAt EXCEPT ![k] = 0]

Forget(q) ==
    /\ step[q] = "forgetting"
    /\ expiresAt' = Forgotten(noting[q])
    /\ Finish(q)
    /\ UNCHANGED <<now, table, rows, swept>>

Without(S) == [k \in UsageKeys |-> IF k \in S THEN 0 ELSE rows[k]]

\* DeleteModule removes the usage rows of its releases; no replica forgets a key.
DeleteUsage(releases) ==
    /\ table = "release_usage"
    /\ rows' = Without(releases)
    /\ swept' = swept \cup {k \in releases : expiresAt[k] # 0}
    /\ UNCHANGED <<now, expiresAt, step, noting, readAt, table>>

\* The daily jobs read the clock, then delete the rows last written before.
PruneRows(before) ==
    /\ before + UsageRetention <= now
    /\ rows' = Without({k \in UsageKeys : rows[k] < before})
    /\ UNCHANGED <<now, expiresAt, step, noting, readAt, table, swept>>

ThrottleTick ==
    /\ now < MaxTime /\ now' = now + 1
    /\ UNCHANGED <<expiresAt, step, noting, readAt, table, rows, swept>>

ThrottleNext ==
    \/ ThrottleTick
    \/ \E releases \in SUBSET UsageKeys : DeleteUsage(releases)
    \/ \E before \in 1..MaxTime : PruneRows(before)
    \/ \E q \in Downloads :
        (\E k \in UsageKeys : Download(q, k)) \/ Record(q) \/ WriteRow(q) \/ WriteRowFails(q) \/ Forget(q)

ThrottleSpec == ThrottleInit /\ [][ThrottleNext]_throttleVars
-------------------------------------------------------------------------------
ThrottleTypeOK ==
    /\ now \in 1..MaxTime
    /\ expiresAt \in [UsageKeys -> 0..(MaxTime + UsageInterval)]
    /\ step \in [Downloads -> {"idle", "recording", "writing", "forgetting"}]
    /\ noting \in [Downloads -> UsageKeys] /\ readAt \in [Downloads -> 0..MaxTime]
    /\ table \in {"release_usage", "release_consumers"}
    /\ rows \in [UsageKeys -> 0..now] /\ swept \subseteq UsageKeys

\* module_service.go:703 and 724: the key is recorded before the row is written,
\* so a download may only be passed over while a write for it is under way or the
\* row already tells of one from the same interval: a failed write is not lost
\* for long.  Two things alone may have taken that row: its age, and a delete of
\* the module (postgres.go:1520) since the key was recorded.  The latter leaves
\* the downloads of a version published again without a row until the key
\* expires; release_consumers knows no such delete.
PassedOverOnlyIfNoted ==
    \A k \in UsageKeys : expiresAt[k] # 0 =>
        \/ rows[k] >= expiresAt[k] - UsageInterval
        \/ \E q \in Downloads : noting[q] = k /\ step[q] \in {"writing", "forgetting"}
        \/ expiresAt[k] - UsageInterval < now - UsageRetention
        \/ table = "release_usage" /\ k \in swept

\* expiry_set.go:72: the set stays within its capacity, also when requests that
\* read the clock earlier record later.
WithinCapacity == Cardinality({k \in UsageKeys : expiresAt[k] # 0}) <= MaxUsageEntries
===============================================================================
