----------------------------- MODULE ResponseCache -----------------------------
(* The cache of upstream JSON responses: ResponseCache                         *)
(* (src/internal/proxy/cache.go) and the handler around it (ForgeProxy.handle,  *)
(* src/internal/proxy/forge_proxy.go).  The handler takes the cache's lock for  *)
(* each call only, so handlers interleave between the lookup, the request to    *)
(* upstream, the store and the eviction.  Times are ages relative to now.       *)
EXTENDS Integers, FiniteSets, FiniteSetsExt

CONSTANTS
    Handlers, CacheKeys,
    Sizes,                 \* sizes a response body may have
    MaxEntries, MaxBytes,
    TTL, MaxStale,         \* how long an entry is fresh, and stale after that
    Latency                  \* how long upstream, and the client, may take

ASSUME CacheAssumption ==
    /\ MaxEntries \in Nat \ {0} /\ MaxBytes \in Nat \ {0} /\ Sizes \subseteq Nat
    /\ TTL \in Nat \ {0} /\ MaxStale \in Nat /\ Latency \in Nat

VARIABLES
    entries, bytes,        \* the cache: entry or none of each asked, and the bytes it counts
    phase, asked,               \* of a handler: its step, its asked,
    found,                 \* the stale entry it holds
    wait,                  \* how long its step has taken
    reply                  \* how this step answered a request, if it did

cacheVars == <<entries, bytes, phase, asked, found, wait, reply>>
cache == <<entries, bytes>>

\* An entry: age since StoredAt, StoredAt less the response's Date, and the size;
\* born, its real age, is what the other two are to tell.
Nothing == [stored |-> -1, lag |-> 0, size |-> 0, born |-> 0]
\* (Mutant: the response's Date is not kept.)
EntryUndated(size, since) == [stored |-> 0, lag |-> 0, size |-> size, born |-> since]
Entry(size, since) == [stored |-> 0, lag |-> since, size |-> size, born |-> since]

Present(k) == entries[k] # Nothing
Kept       == {k \in CacheKeys : Present(k)}
Oldest     == TTL + MaxStale + 2 * Latency + 1    \* ages above this are not told apart

Fresh(e)     == e.stored <= TTL
Retained(e)  == e.stored <= TTL + MaxStale      \* cacheRetentionDeadline
AgeTold(e)   == e.lag + e.stored                \* cachedResponseAge

\* The bytes kept under the keys of S, each told by its key and its place.
Contents(S) == {c \in S \X (1..MaxBytes) : c[2] <= entries[c[1]].size}
BytesOf(S)  == Cardinality(Contents(S))

Drop(S) ==
    /\ entries' = [k \in CacheKeys |-> IF k \in S THEN Nothing ELSE entries[k]]
    /\ bytes' = bytes - BytesOf(S)

OverLimit(S, b) == Cardinality(S) > MaxEntries \/ b > MaxBytes

Idle(h) ==
    /\ phase' = [phase EXCEPT ![h] = "idle"] /\ asked' = [asked EXCEPT ![h] = Min(CacheKeys)]
    /\ found' = [found EXCEPT ![h] = Nothing]
    /\ wait' = [wait EXCEPT ![h] = 0]

Answered(how, e) == [how |-> how, told |-> AgeTold(e), real |-> e.born]
Silence == [how |-> "none", told |-> 0, real |-> 0]

Served(how, e) == reply' = Answered(how, e)
NoReply        == reply' = Silence
-------------------------------------------------------------------------------
CacheInit ==
    /\ entries = [k \in CacheKeys |-> Nothing] /\ bytes = 0
    /\ phase = [h \in Handlers |-> "idle"] /\ asked = [h \in Handlers |-> Min(CacheKeys)]
    /\ found = [h \in Handlers |-> Nothing]
    /\ wait = [h \in Handlers |-> 0]
    /\ reply = Silence

\* Get: a fresh entry is the answer.
Hit(h, k) ==
    /\ phase[h] = "idle" /\ Present(k) /\ Fresh(entries[k])
    /\ Served("HIT", entries[k])
    /\ UNCHANGED <<cache, phase, asked, found, wait>>

Miss(h, k) ==
    /\ phase[h] = "idle" /\ ~(Present(k) /\ Fresh(entries[k]))
    /\ phase' = [phase EXCEPT ![h] = IF Present(k) THEN "expired" ELSE "missed"]
    /\ asked' = [asked EXCEPT ![h] = k]
    /\ UNCHANGED <<cache, found, wait>> /\ NoReply

\* deleteExpired, under the lock again: by then the entry may be another one.
DeleteExpired(h) ==
    /\ phase[h] = "expired"
    /\ IF Present(asked[h]) /\ ~Retained(entries[asked[h]]) THEN Drop({asked[h]}) ELSE UNCHANGED cache
    /\ phase' = [phase EXCEPT ![h] = "missed"]
    /\ UNCHANGED <<asked, found, wait>> /\ NoReply

\* GetStale, then the request to upstream begins.
GetStale(h) ==
    LET e == entries[asked[h]] IN
    /\ phase[h] = "missed"
    /\ IF Present(asked[h]) /\ ~Retained(e) THEN Drop({asked[h]}) ELSE UNCHANGED cache
    /\ found' = [found EXCEPT ![h] = IF Present(asked[h]) /\ Retained(e) /\ MaxStale > 0
                                     THEN e ELSE Nothing]
    /\ phase' = [phase EXCEPT ![h] = "fetching"] /\ wait' = [wait EXCEPT ![h] = 0]
    /\ UNCHANGED asked /\ NoReply

\* Upstream fails: the stale entry read before, or an error.
FetchFails(h) ==
    /\ phase[h] = "fetching"
    /\ IF found[h] # Nothing THEN Served("STALE", found[h])
       ELSE reply' = [Silence EXCEPT !.how = "error"]
    /\ Idle(h) /\ UNCHANGED cache

\* Upstream answers.  The client gets the response before it is stored.
Fetched(h) ==
    /\ phase[h] = "fetching"
    /\ reply' = [Silence EXCEPT !.how = "MISS"]
    /\ phase' = [phase EXCEPT ![h] = "writing"] /\ wait' = [wait EXCEPT ![h] = 0]
    /\ found' = [found EXCEPT ![h] = Nothing]
    /\ UNCHANGED <<cache, asked>>

\* shouldCache says no: not JSON.
NotCached(h) == phase[h] = "writing" /\ Idle(h) /\ UNCHANGED cache /\ NoReply

\* Set: StoredAt is read now; the limits are judged under the lock and enforced
\* under the next one.  Nothing depends on the size of a body before.
\* (Mutant: the replaced entry's bytes stay counted.)
ReplacedNothing(k) == 0
Replaced(k) == entries[k].size

MustEvict(S, b) == OverLimit(S, b)

StoreBody(h, size) ==
    LET k == asked[h]
        e == Entry(size, wait[h])
        after == bytes - Replaced(k) + e.size
    IN
    /\ phase[h] = "writing"
    /\ \/ e.size > MaxBytes /\ Drop({k} \cap Kept) /\ Idle(h)
       \/ /\ e.size <= MaxBytes
          /\ entries' = [entries EXCEPT ![k] = e] /\ bytes' = after
          /\ IF MustEvict(Kept \cup {k}, after)
             THEN phase' = [phase EXCEPT ![h] = "evicting"] /\ UNCHANGED <<asked, found, wait>>
             ELSE Idle(h)
    /\ NoReply

Store(h) == \E size \in Sizes : StoreBody(h, size)

\* evict: what is past its retention, then the entries that end first, until the
\* cache is within its limits.
Gone == {k \in Kept : ~Retained(entries[k])}

Survivors(S) == S \subseteq Kept \ Gone
                /\ \A k \in S, l \in (Kept \ Gone) \ S : entries[k].stored <= entries[l].stored

Evict(h) ==
    LET Fits(S) == ~OverLimit(S, bytes - BytesOf(Kept \ S)) IN
    /\ phase[h] = "evicting"
    /\ \E S \in SUBSET (Kept \ Gone) :
          /\ Survivors(S) /\ Fits(S)
          /\ \A T \in SUBSET (Kept \ Gone) : Survivors(T) /\ Fits(T) => Cardinality(T) <= Cardinality(S)
          /\ Drop(Kept \ S)
    /\ Idle(h) /\ NoReply

Older(e) ==
    IF e.stored = -1 \/ e.stored = Oldest THEN e
    ELSE [e EXCEPT !.stored = @ + 1, !.born = @ + 1]

CacheTick ==
    /\ \A h \in Handlers : phase[h] = "idle" \/ (phase[h] \in {"fetching", "writing"} /\ wait[h] < Latency)
    /\ entries' = [k \in CacheKeys |-> Older(entries[k])]
    /\ found' = [h \in Handlers |-> Older(found[h])]
    /\ wait' = [h \in Handlers |-> IF phase[h] = "idle" THEN 0 ELSE wait[h] + 1]
    /\ UNCHANGED <<bytes, phase, asked>> /\ NoReply

CacheNext ==
    \/ CacheTick
    \/ \E h \in Handlers :
        \/ \E k \in CacheKeys : Hit(h, k) \/ Miss(h, k)
        \/ DeleteExpired(h) \/ GetStale(h) \/ FetchFails(h) \/ Fetched(h)
        \/ NotCached(h) \/ Store(h) \/ Evict(h)

CacheSpec == CacheInit /\ [][CacheNext]_cacheVars
-------------------------------------------------------------------------------
CacheTypeOK ==
    /\ \A k \in CacheKeys : entries[k].stored \in -1..Oldest /\ entries[k].size \in Sizes \cup {0}
    /\ bytes \in Int
    /\ phase \in [Handlers -> {"idle", "expired", "missed", "fetching", "writing", "evicting"}]
    /\ asked \in [Handlers -> CacheKeys] /\ wait \in [Handlers -> 0..Latency]
    /\ reply.how \in {"none", "HIT", "STALE", "MISS", "error"}

\* cache.go:81, 89 and 107: the bytes counted are the bytes kept, whatever
\* handlers replace, expire and evict between one another's steps.
BytesExact == bytes = BytesOf(Kept)

\* cache.go:101: the cache is over its limits only while a handler is on its way
\* to evict.
WithinLimits == OverLimit(Kept, bytes) => \E h \in Handlers : phase[h] = "evicting"

\* forge_proxy.go:316: nothing is served as fresh beyond its time, nor as stale
\* beyond the stale time, however long the client that caused the store and
\* upstream took.
ServedInTime ==
    /\ reply.how = "HIT"   => reply.real <= TTL + Latency
    /\ reply.how = "STALE" => reply.real <= TTL + MaxStale + 2 * Latency

\* forge_proxy.go:1052: the Age a cached response is served with is not less
\* than its real age, although it was stored after a slow client had read it.
AgeIsTold == reply.told >= reply.real
===============================================================================
