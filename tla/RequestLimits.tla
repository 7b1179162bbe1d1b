----------------------------- MODULE RequestLimits -----------------------------
(* The fixed-window limits on requests: the buckets one replica keeps in memory *)
(* (rateLimiter, src/internal/httpapi/rate_limiter.go) and the rows all         *)
(* replicas share (ConsumeRateLimit of the stores).  A request reads the clock  *)
(* first and is counted when it gets the mutex, or when its statement reaches   *)
(* the database.  Times are relative to the present, which needs no bound.      *)
EXTENDS Integers, FiniteSets, FiniteSetsExt

CONSTANTS
    Requests,   \* requests under way at once
    Clients,    \* numbered as the heap orders equal resets
    Limit, Window, MaxKeys,
    CountDelay       \* how long a request may take from the clock to its count

ASSUME LimitAssumption ==
    /\ Clients \subseteq Nat /\ Limit \in Nat \ {0} /\ MaxKeys \in Nat \ {0}
    /\ Window \in Nat /\ CountDelay \in Nat /\ CountDelay < Window

VARIABLES
    shared,     \* the behaviour is about the database's rows; never changes
    buckets,    \* of a client: none, or the time left in its window and its count
    age,        \* of a request: none (-1), or how long ago it read the clock
    from,       \* its client
    admitted    \* of a client: how many were let in that long ago

limitsVars == <<shared, buckets, age, from, admitted>>

Long     == -(CountDelay + 1)    \* over for every request under way
NoBucket == [left |-> Long, count |-> 0]
History  == 0..(Window - CountDelay - 1)
Nobody   == [h \in History |-> 0]

\* the window is still open for a request that read the clock a ago
Open(c, a)  == buckets[c].left + a > 0
\* (Mutant: the request that opens the window is not counted.)
OpenedFree(a) == [left |-> Window - a, count |-> 0]
Opened(a)   == [left |-> Window - a, count |-> 1]
Least(a, b) == IF a < b THEN a ELSE b
-------------------------------------------------------------------------------
LimitsInit ==
    /\ shared \in BOOLEAN
    /\ buckets = [c \in Clients |-> NoBucket]
    /\ age = [q \in Requests |-> -1] /\ from = [q \in Requests |-> Min(Clients)]
    /\ admitted = [c \in Clients |-> Nobody]

Arrive(q, c) ==
    /\ age[q] = -1
    /\ age' = [age EXCEPT ![q] = 0] /\ from' = [from EXCEPT ![q] = c]
    /\ UNCHANGED <<shared, buckets, admitted>>

\* history of the clients, those in gone starting again without their bucket
Answer(q, allowed, gone) ==
    /\ admitted' = [c \in Clients |->
                       IF c \in gone THEN Nobody
                       ELSE IF c = from[q] /\ allowed THEN [admitted[c] EXCEPT ![0] = @ + 1]
                       ELSE admitted[c]]
    /\ age' = [age EXCEPT ![q] = -1] /\ from' = [from EXCEPT ![q] = Min(Clients)]

\* rateLimiter.Allow: buckets that are over go first, and when the map is full
\* the one that ends next.
OpenFor(a) == {c \in Clients : Open(c, a)}
NextReset(S) == CHOOSE c \in S : \A d \in S \ {c} :
    buckets[c].left < buckets[d].left \/ (buckets[c].left = buckets[d].left /\ c < d)
GivenUp(S) == IF Cardinality(S) >= MaxKeys THEN {NextReset(S)} ELSE {}

Allow(q) ==
    LET c == from[q]
        kept == OpenFor(age[q])
        allowed == buckets[c].count < Limit
    IN
    /\ ~shared /\ age[q] # -1
    /\ \/ /\ c \in kept
          /\ buckets' = [d \in Clients |-> IF d \notin kept THEN NoBucket
                                           ELSE IF d = c /\ allowed
                                           THEN [buckets[d] EXCEPT !.count = @ + 1] ELSE buckets[d]]
          /\ Answer(q, allowed, {})
       \/ /\ c \notin kept
          /\ buckets' = [d \in Clients |-> IF d = c THEN Opened(age[q])
                                           ELSE IF d \in kept \ GivenUp(kept) THEN buckets[d]
                                           ELSE NoBucket]
          /\ Answer(q, TRUE, GivenUp(kept))
    /\ UNCHANGED shared

\* ConsumeRateLimit: one statement; the count saturates above the limit.
Counted(c, a) == IF Open(c, a) THEN [buckets[c] EXCEPT !.count = Least(@ + 1, Limit + 1)]
                 ELSE Opened(a)

Consume(q) ==
    /\ shared /\ age[q] # -1
    /\ buckets' = [buckets EXCEPT ![from[q]] = Counted(from[q], age[q])]
    /\ Answer(q, Counted(from[q], age[q]).count <= Limit, {})
    /\ UNCHANGED shared

\* PurgeRateLimits: rows whose window ended long ago (an hour, the job's interval).
Purge ==
    /\ shared
    /\ buckets' = [c \in Clients |-> IF buckets[c].left <= Long THEN NoBucket ELSE buckets[c]]
    /\ UNCHANGED <<shared, age, from, admitted>>

LimitsTick ==
    /\ \A q \in Requests : age[q] < CountDelay
    /\ age' = [q \in Requests |-> IF age[q] = -1 THEN -1 ELSE age[q] + 1]
    /\ buckets' = [c \in Clients |-> IF buckets[c].left = Long THEN buckets[c]
                                     ELSE [buckets[c] EXCEPT !.left = @ - 1]]
    /\ admitted' = [c \in Clients |-> [h \in History |-> IF h = 0 THEN 0 ELSE admitted[c][h - 1]]]
    /\ UNCHANGED <<shared, from>>

LimitsNext ==
    \/ LimitsTick \/ Purge
    \/ \E q \in Requests : (\E c \in Clients : Arrive(q, c)) \/ Allow(q) \/ Consume(q)

LimitsSpec == LimitsInit /\ [][LimitsNext]_limitsVars
-------------------------------------------------------------------------------
LimitsTypeOK ==
    /\ shared \in BOOLEAN
    /\ \A c \in Clients : buckets[c].left \in Long..Window /\ buckets[c].count \in 0..(Limit + 1)
    /\ age \in [Requests -> -1..CountDelay] /\ from \in [Requests -> Clients]
    /\ admitted \in [Clients -> [History -> Nat]]

\* postgres.go:516 and rate_limiter.go:87: a fixed window lets in the limit at
\* its end and the limit again at the start of the next one, and never more: in
\* a window's length (less the delay a request may have) a client gets in twice
\* the limit at most, as long as its bucket is not given up for another client.
Admissions(c) == UNION {{h} \X (1..admitted[c][h]) : h \in History}
TwiceTheLimit == \A c \in Clients : Cardinality(Admissions(c)) <= 2 * Limit

\* rate_limiter.go:80: the map is bounded whatever clients come, also when
\* requests that read the clock earlier are counted later.
BucketsBounded == ~shared => Cardinality({c \in Clients : buckets[c].count > 0}) <= MaxKeys
===============================================================================
