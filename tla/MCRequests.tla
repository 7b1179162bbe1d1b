------------------------------ MODULE MCRequests ------------------------------
\* Components of which concurrent requests are the actors: the usage throttle, the
\* rate limits, the response cache, the management sessions and the requests that
\* need rights.  They share no state, so a behaviour is one of them, chosen by Init
\* and named by running; the others stand still in one of their initial states.
EXTENDS UsageThrottle, RequestLimits, ResponseCache, Sessions, AccessPolicy, TLC

CONSTANTS core, web, spare, ops, staff    \* teams, an extra space and claims of the configurations

\* Team core has an administrator and perhaps members that no form shows, team web
\* a space and a token of its own; ops may administer both, staff is also global
\* administrator.
Configured(members, managers) ==
    [teams  |-> (core :> [NewTeam EXCEPT !.managers = {ops}, !.members = members]) @@
                (web :> [NewTeam EXCEPT !.managers = managers, !.extra = {spare}, !.tokens = {"publish"}]),
     admins |-> {staff}]
Configurations == {Configured(ms, mb) : ms \in {{}, {staff}}, mb \in {{}, {ops}}}
OneClaim       == {{}, {ops}, {staff}}

VARIABLE running

vars == <<running, throttleVars, limitsVars, cacheVars, sessionVars, policyVars>>

\* one set of two requests serves every component, so one swap is a symmetry of all
Symmetry == Permutations(Requests)

Init ==
    /\ running \in {"throttle", "limits", "cache", "sessions", "policy"}
    /\ ThrottleInit /\ (running # "throttle" => table = "release_usage")
    /\ LimitsInit   /\ (running # "limits" => ~shared)
    /\ CacheInit
    /\ PolicyInit   /\ (running # "policy" => configs = CHOOSE cs \in InitialConfigs : TRUE)
    /\ SessionsInit /\ (running # "sessions" => jar = EmptyJar)

Next ==
    \/ running = "throttle" /\ ThrottleNext /\ UNCHANGED <<running, limitsVars, cacheVars, sessionVars, policyVars>>
    \/ running = "limits"   /\ LimitsNext   /\ UNCHANGED <<running, throttleVars, cacheVars, sessionVars, policyVars>>
    \/ running = "cache"    /\ CacheNext    /\ UNCHANGED <<running, throttleVars, limitsVars, sessionVars, policyVars>>
    \/ running = "sessions" /\ SessionsNext /\ UNCHANGED <<running, throttleVars, limitsVars, cacheVars, policyVars>>
    \/ running = "policy"   /\ PolicyNext   /\ UNCHANGED <<running, throttleVars, limitsVars, cacheVars, sessionVars>>

Spec == Init /\ [][Next]_vars

\* expiry_set.go:72, rate_limiter.go:80, cache.go:68 and 101: what a replica keeps
\* in memory for its clients stays within its bounds, in whatever order requests
\* that read the clock at different times record, replace, expire and evict; and
\* the bytes the cache counts are the bytes it keeps.
TablesBounded == WithinCapacity /\ BucketsBounded /\ WithinLimits /\ BytesExact

\* forge_proxy.go:316 and 1052: no cached answer is served beyond its time, or
\* with an Age below its real one.
AnswersInTime == ServedInTime /\ AgeIsTold

TypeOK == ThrottleTypeOK /\ LimitsTypeOK /\ CacheTypeOK /\ SessionsTypeOK /\ PolicyTypeOK
===============================================================================
