---------------------------- MODULE AccessConfig ----------------------------
(***************************************************************************)
(* The access configuration: administrators change it as a whole under one *)
(* SQL lock, each replica answers requests from an authorizer that it      *)
(* rebuilds from SQL now and then, and a bearer token is checked in SQL    *)
(* once more before it is accepted.                                        *)
(*                                                                         *)
(* A process is a request.  Each SQL call, and each use of the replica's   *)
(* mutex and authorizer, is a step.  A configuration is the set of access  *)
(* tokens with their status; the changes of OIDC mappings and spaces take  *)
(* the same path with other content.  Beside it, a token has a mark that   *)
(* it was used, which requests set without the lock.                       *)
(***************************************************************************)
EXTENDS Integers, Sequences, FiniteSets

CONSTANTS
    Replica, Process,
    Token,       \* access tokens, by ID
    Free, NoToken, NoReplica,
    PoolSize,    \* connections of each of the two SQL pools of a replica
    RefreshTTL,  \* accessConfigRefreshTTL
    MaxStale,    \* accessConfigMaxStaleTTL
    MaxTime,     \* bound on the clock
    Operations,  \* the requests' operations
    Faults       \* the kinds of failure that may happen

Changes       == {"create", "revoke", "rotate"}
AllOperations == Changes \cup {"bearer", "manage"}
AllFaults     == {"sqlError", "crash"}

ASSUME ConstantsAssumption ==
    /\ Free \notin Process /\ NoToken \notin Token /\ NoReplica \notin Replica
    /\ PoolSize \in Nat \ {0}
    /\ RefreshTTL \in Nat /\ MaxStale \in Nat /\ MaxTime \in Nat
    /\ Operations \subseteq AllOperations /\ Faults \subseteq AllFaults

VARIABLES
    history,     \* the configurations in their order, the last of which is in
                 \* SQL; each with the time of its commit
    used,        \* the tokens with a last_used_at
    lock,        \* the advisory lock "puppet-forge/access-config"
    replica,     \* whether a replica is down, starting or up
    authorizer,  \* its snapshot: the index of a configuration, the time it
                 \* carries, and whether it is still that of the start
    refreshMu,   \* its authorizerRefreshMu
    now,
    pc, job,     \* a request: operation, token(s), the replica that handles it,
                 \* and the configuration in force when it began
    version,     \* the configuration that the request has read or written
    marks,       \* the marks that came with it, which a change writes back
    stamp        \* the time at which it began to refresh

shared == <<history, used, lock, replica, authorizer, refreshMu>>
local  == <<job, version, marks, stamp>>
vars   == <<shared, now, pc, local>>

-----------------------------------------------------------------------------
Status   == {"absent", "active", "revoked"}
Config   == [Token -> Status]
Job      == [op : AllOperations, token : Token, new : Token, on : Replica, began : Nat]
NoJob    == [op |-> "none", token |-> NoToken, new |-> NoToken, on |-> NoReplica, began |-> 0]
Snapshot == [version : Nat, at : Nat, boot : BOOLEAN]

Steps == {"idle", "refresh", "load", "set", "snapshot", "check", "mark", "connect",
          "lock", "read", "commit", "publish", "unlock", "granted"}

Latest  == Len(history)
Current == history[Latest].tokens

\* The configuration after j's change of c.  Removing a team revokes its tokens.
Changed(j, c) ==
    CASE j.op = "create" -> [c EXCEPT ![j.token] = "active"]
      [] j.op = "revoke" -> [c EXCEPT ![j.token] = "revoked"]
      [] j.op = "rotate" -> [c EXCEPT ![j.token] = "revoked", ![j.new] = "active"]

\* Its token is there; a new one has no active namesake.
MayChange(j, c) ==
    CASE j.op = "create" -> c[j.token] = "absent"
      [] j.op = "revoke" -> c[j.token] = "active"
      [] j.op = "rotate" -> c[j.token] = "active" /\ c[j.new] = "absent"

\* How long configuration v was in force, so far.
InForceUntil(v) == IF v = Latest THEN now ELSE history[v + 1].at

\* The advisory lock, in a session of its own.  (Mutant: it excludes nobody.)
LockIgnored == TRUE
LockFree    == lock = Free

\* authorizerRefreshMu.  (Mutant: refreshes do not wait for one another.)
MuIgnored(r) == TRUE
MuFree(r)    == refreshMu[r] = Free

\* The time that a refreshed authorizer carries.  (Mutant: when it is ready.)
SetTime(p)     == now
RefreshTime(p) == stamp[p]

\* IsAccessTokenActive.  (Mutant: the snapshot is enough.)
IsKnown(t)       == TRUE
IsTokenActive(t) == Current[t] = "active"

\* Advisory locks have connections of their own, because a request holds one
\* while it works.  (Mutant: they come from the pool of the other calls.)
OnePool  == "pool"
LockPool == "lockPool"
Locked   == {"read", "commit", "publish", "unlock"}
HasConnection(r, pool) ==
    pool = LockPool =>
        Cardinality({q \in Process : job[q].on = r /\ pc[q] \in {"lock"} \cup Locked})
            < PoolSize

\* What becomes of the lock when the requests of a replica are gone.
LockAfter(gone) == IF lock \in gone THEN Free ELSE lock

Goto(p, label) == pc' = [pc EXCEPT ![p] = label]

\* The requests that are gone leave nothing behind.
Finish(gone) ==
    /\ pc' = [p \in Process |-> IF p \in gone THEN "idle" ELSE pc[p]]
    /\ job' = [p \in Process |-> IF p \in gone THEN NoJob ELSE job[p]]
    /\ version' = [p \in Process |-> IF p \in gone THEN 1 ELSE version[p]]
    /\ marks' = [p \in Process |-> IF p \in gone THEN {} ELSE marks[p]]
    /\ stamp' = [p \in Process |-> IF p \in gone THEN 0 ELSE stamp[p]]

Init ==
    /\ \E c \in Config : history = <<[tokens |-> c, at |-> 0]>>
    /\ lock = Free
    /\ replica = [r \in Replica |-> "up"]
    /\ authorizer = [r \in Replica |-> [version |-> 1, at |-> 0, boot |-> TRUE]]
    /\ refreshMu = [r \in Replica |-> Free]
    /\ used = {}
    /\ now = 0
    /\ pc = [p \in Process |-> "idle"]
    /\ job = [p \in Process |-> NoJob]
    /\ version = [p \in Process |-> 1] /\ marks = [p \in Process |-> {}]
    /\ stamp = [p \in Process |-> 0]

-----------------------------------------------------------------------------
(* Every request brings the authorizer of its replica up to date           *)

Start(p) ==
    /\ pc[p] = "idle"
    /\ \E op \in Operations, t, u \in Token, r \in Replica :
           /\ replica[r] = "up"
           /\ (op = "rotate") = (t # u)
           /\ job' = [job EXCEPT ![p] =
                  [op |-> op, token |-> t, new |-> u, on |-> r, began |-> Latest]]
    /\ stamp' = [stamp EXCEPT ![p] = now]
    /\ Goto(p, "refresh")
    /\ UNCHANGED <<shared, now, version, marks>>

\* refreshAuthorizer for a bearer request: only if the snapshot is not fresh,
\* and only if nobody else refreshes it.
TryRefresh(p) ==
    LET r == job[p].on
        due == MuFree(r) /\ stamp[p] - authorizer[r].at >= RefreshTTL
    IN
    /\ pc[p] = "refresh" /\ job[p].op = "bearer"
    /\ refreshMu' = IF due THEN [refreshMu EXCEPT ![r] = p] ELSE refreshMu
    /\ Goto(p, IF due THEN "load" ELSE "snapshot")
    /\ UNCHANGED <<history, used, lock, replica, authorizer, now, local>>

\* ... and for management, in any case.
ForceRefresh(p) ==
    /\ pc[p] = "refresh" /\ job[p].op # "bearer"
    /\ MuFree(job[p].on)
    /\ refreshMu' = [refreshMu EXCEPT ![job[p].on] = p]
    /\ Goto(p, "load")
    /\ UNCHANGED <<history, used, lock, replica, authorizer, now, local>>

LoadTeamConfigs(p) ==
    /\ pc[p] = "load" /\ HasConnection(job[p].on, "pool")
    /\ version' = [version EXCEPT ![p] = Latest]
    /\ Goto(p, "set")
    /\ UNCHANGED <<shared, now, job, marks, stamp>>

\* Bearer requests go on with the snapshot there is.
LoadFails(p) ==
    /\ pc[p] = "load" /\ "sqlError" \in Faults
    /\ refreshMu' = [refreshMu EXCEPT ![job[p].on] = Free]
    /\ IF job[p].op = "bearer"
       THEN Goto(p, "snapshot") /\ UNCHANGED local ELSE Finish({p})
    /\ UNCHANGED <<history, used, lock, replica, authorizer, now>>

SetAuthorizer(p) ==
    /\ pc[p] = "set"
    /\ authorizer' = [authorizer EXCEPT ![job[p].on] =
                        [version |-> version[p], at |-> RefreshTime(p), boot |-> FALSE]]
    /\ refreshMu' = [refreshMu EXCEPT ![job[p].on] = Free]
    /\ Goto(p, "snapshot")
    /\ UNCHANGED <<history, used, lock, replica, now, local>>

\* currentAuthorizer and managePrincipal; a token's use may be recorded.  The
\* author of a change is an administrator in every configuration.
ReadAuthorizer(p) ==
    LET s == authorizer[job[p].on]
        known == history[s.version].tokens[job[p].token] = "active"
        stale == job[p].op = "bearer" /\ now - s.at > MaxStale
    IN
    /\ pc[p] = "snapshot"
    /\ IF job[p].op \notin Changes /\ (~known \/ stale)
       THEN Finish({p})
       ELSE /\ CASE job[p].op = "bearer" -> Goto(p, "check")
                  [] job[p].op = "manage" -> Goto(p, "mark") \/ Goto(p, "granted")
                  [] OTHER -> Goto(p, "connect")
            /\ version' = [version EXCEPT ![p] = s.version]
            /\ stamp' = [stamp EXCEPT ![p] = 0]
            /\ UNCHANGED <<job, marks>>
    /\ UNCHANGED <<shared, now>>

\* requireActiveAccessToken; then the throttle of the replica may let its use
\* be recorded.
CheckActive(p) ==
    /\ pc[p] = "check" /\ HasConnection(job[p].on, "pool")
    /\ IF IsTokenActive(job[p].token)
       THEN (Goto(p, "mark") \/ Goto(p, "granted")) /\ UNCHANGED local
       ELSE Finish({p})
    /\ UNCHANGED <<shared, now>>

CheckFails(p) ==
    /\ pc[p] = "check" /\ "sqlError" \in Faults
    /\ Finish({p})
    /\ UNCHANGED <<shared, now>>

\* recordAccessTokenUsed: what fails here fails quietly.
MarkAccessTokenUsed(p) ==
    LET t == job[p].token IN
    /\ pc[p] = "mark" /\ HasConnection(job[p].on, "pool")
    /\ used' = IF Current[t] = "active" THEN used \cup {t} ELSE used
    /\ Goto(p, "granted")
    /\ UNCHANGED <<history, lock, replica, authorizer, refreshMu, now, local>>

MarkFails(p) ==
    /\ pc[p] = "mark" /\ "sqlError" \in Faults
    /\ Goto(p, "granted")
    /\ UNCHANGED <<shared, now, local>>

Return(p) ==
    /\ pc[p] = "granted"
    /\ Finish({p})
    /\ UNCHANGED <<shared, now>>

-----------------------------------------------------------------------------
(* Changes: manageAccessPage, manageAccessAddPage, manageAccessTokenPage,  *)
(* managePublishSpacesPage                                                 *)

\* LockAccessConfig: a connection, then the lock.
Connect(p) ==
    /\ pc[p] = "connect" /\ HasConnection(job[p].on, LockPool)
    /\ Goto(p, "lock")
    /\ UNCHANGED <<shared, now, local>>

LockAccessConfig(p) ==
    /\ pc[p] = "lock" /\ LockFree
    /\ lock' = p
    /\ Goto(p, "read")
    /\ UNCHANGED <<history, used, replica, authorizer, refreshMu, now, local>>

LockFails(p) ==
    /\ pc[p] \in {"connect", "lock"} /\ "sqlError" \in Faults
    /\ Finish({p})
    /\ UNCHANGED <<shared, now>>

ReadConfigs(p) ==
    /\ pc[p] = "read" /\ HasConnection(job[p].on, "pool")
    /\ version' = [version EXCEPT ![p] = Latest]
    /\ marks' = [marks EXCEPT ![p] = used]
    /\ Goto(p, IF MayChange(job[p], Current) THEN "commit" ELSE "unlock")
    /\ UNCHANGED <<shared, now, job, stamp>>

\* ReplaceTeamConfigs: delete everything, and write what the request has read,
\* changed.
Replace(p) ==
    /\ history' = Append(history,
           [tokens |-> Changed(job[p], history[version[p]].tokens), at |-> now])
    /\ used' = marks[p]

ReplaceTeamConfigs(p) ==
    /\ pc[p] = "commit" /\ HasConnection(job[p].on, "pool")
    /\ Replace(p)
    /\ version' = [version EXCEPT ![p] = Latest + 1]
    /\ Goto(p, "publish")
    /\ UNCHANGED <<lock, replica, authorizer, refreshMu, now, job, marks, stamp>>

\* A call fails; the transaction may have been committed.
ChangeFails(p) ==
    /\ pc[p] \in {"read", "commit"} /\ "sqlError" \in Faults
    /\ UNCHANGED <<history, used>> \/ (pc[p] = "commit" /\ Replace(p))
    /\ Goto(p, "unlock")
    /\ UNCHANGED <<lock, replica, authorizer, refreshMu, now, local>>

\* saveAccessConfigs replaces the authorizer, beside any refresh under way.
PublishAuthorizer(p) ==
    /\ pc[p] = "publish"
    /\ authorizer' = [authorizer EXCEPT ![job[p].on] =
                        [version |-> version[p], at |-> now, boot |-> FALSE]]
    /\ Goto(p, "unlock")
    /\ UNCHANGED <<history, used, lock, replica, refreshMu, now, local>>

Unlock(p) ==
    /\ pc[p] = "unlock"
    /\ lock' = Free
    /\ Finish({p})
    /\ UNCHANGED <<history, used, replica, authorizer, refreshMu, now>>

-----------------------------------------------------------------------------
(* Replicas and time                                                       *)

\* Its sessions end, and with them the lock.
Crash(r) ==
    LET gone == {p \in Process : job[p].on = r} IN
    /\ "crash" \in Faults
    /\ replica[r] # "down"
    /\ replica' = [replica EXCEPT ![r] = "down"]
    /\ Finish(gone)
    /\ lock' = LockAfter(gone)
    /\ refreshMu' = [refreshMu EXCEPT ![r] = Free]
    /\ UNCHANGED <<history, used, authorizer, now>>

\* NewContext loads the configuration; NewRouter stamps it when everything else
\* is ready.
LoadAtStart(r) ==
    /\ replica[r] = "down"
    /\ replica' = [replica EXCEPT ![r] = "starting"]
    /\ authorizer' = [authorizer EXCEPT ![r] =
                        [version |-> Latest, at |-> now, boot |-> TRUE]]
    /\ UNCHANGED <<history, used, lock, refreshMu, now, pc, local>>

Serve(r) ==
    /\ replica[r] = "starting"
    /\ replica' = [replica EXCEPT ![r] = "up"]
    /\ authorizer' = [authorizer EXCEPT ![r].at = now]
    /\ UNCHANGED <<history, used, lock, refreshMu, now, pc, local>>

Tick ==
    /\ now < MaxTime
    /\ now' = now + 1
    /\ UNCHANGED <<shared, pc, local>>

-----------------------------------------------------------------------------
Request(p) ==
    \/ TryRefresh(p) \/ ForceRefresh(p) \/ LoadTeamConfigs(p) \/ SetAuthorizer(p)
    \/ ReadAuthorizer(p) \/ CheckActive(p) \/ MarkAccessTokenUsed(p) \/ Return(p)

Change(p) ==
    \/ Connect(p) \/ LockAccessConfig(p) \/ ReadConfigs(p)
    \/ ReplaceTeamConfigs(p) \/ PublishAuthorizer(p) \/ Unlock(p)

Fails(p) == LoadFails(p) \/ CheckFails(p) \/ MarkFails(p) \/ LockFails(p) \/ ChangeFails(p)

Next ==
    \/ \E p \in Process : Start(p) \/ Request(p) \/ Change(p) \/ Fails(p)
    \/ \E r \in Replica : Crash(r) \/ LoadAtStart(r) \/ Serve(r)
    \/ Tick

Spec == Init /\ [][Next]_vars

\* A request goes on; a mutex, pg_advisory_lock and a pool serve their waiters,
\* so one that can go on again and again does.
Fairness == \A p \in Process : SF_vars(Request(p) \/ Change(p))

FairSpec == Spec /\ Fairness

-----------------------------------------------------------------------------
(* Properties                                                              *)

SharedTypes ==
    /\ history \in Seq([tokens : Config, at : Nat]) /\ history # <<>>
    /\ used \subseteq Token
    /\ lock \in Process \cup {Free}
    /\ replica \in [Replica -> {"down", "starting", "up"}]
    /\ authorizer \in [Replica -> Snapshot]
    /\ \A r \in Replica : authorizer[r].version \in 1 .. Latest
    /\ refreshMu \in [Replica -> Process \cup {Free}]
    /\ now \in Nat

LocalTypes ==
    /\ pc \in [Process -> Steps]
    /\ job \in [Process -> Job \cup {NoJob}]
    /\ version \in [Process -> 1 .. Latest]
    /\ marks \in [Process -> SUBSET Token]
    /\ stamp \in [Process -> Nat]

\* Every variable keeps its type, every index is that of a configuration, and
\* the lock is held by a request at a step under it (LockAccessConfig).
TypeOK ==
    /\ SharedTypes /\ LocalTypes
    /\ \A p \in Process : lock = p => pc[p] \in Locked

\* Administrators on several replicas lose no change of one another: what is
\* committed is the configuration in force, with one request's change, which
\* that configuration allows
\* (LockAccessConfig around LoadTeamConfigs and ReplaceTeamConfigs).
NoLostUpdate ==
    [][history' # history
        => \E p \in Process :
               /\ job[p].op \in Changes /\ MayChange(job[p], Current)
               /\ history' = Append(history, [tokens |-> Changed(job[p], Current), at |-> now])]_vars

\* A bearer token is accepted only if it was active at some time during the
\* request, however old the replica's snapshot is (requireActiveAccessToken).
RevocationIsImmediate ==
    \A p \in Process :
        pc[p] = "granted" /\ job[p].op = "bearer"
            => \E v \in job[p].began .. Latest :
                   history[v].tokens[job[p].token] = "active"

\* A management request is judged by a configuration that was in force during
\* it, although other requests replace the authorizer (refreshManageAuthorizer).
ManagementIsCurrent ==
    \A p \in Process :
        pc[p] \in {"mark", "granted"} /\ job[p].op = "manage"
            => version[p] >= job[p].began

\* No bearer request is judged by a configuration that was replaced more than
\* accessConfigMaxStaleTTL ago, unless the replica has it since its start
\* (currentAuthorizer, refreshAuthorizer, saveAccessConfigs).
StalenessIsBounded ==
    [][\A p \in Process :
        pc[p] = "snapshot" /\ pc'[p] = "check" /\ ~authorizer[job[p].on].boot
            => InForceUntil(version'[p]) >= now - MaxStale]_vars

\* The record of a token's last use never moves back (docs/SCHEMA.md:638:
\* "SQL rejects stale timestamp movement"; MarkAccessTokenUsed does, but
\* ReplaceTeamConfigs writes what it has read).
LastUseStays == [][used \subseteq used']_vars

\* Every request returns, whatever it waits for: the mutex, the lock, a
\* connection (LockAccessConfig, refreshAuthorizer).
EveryRequestReturns == \A p \in Process : pc[p] # "idle" ~> pc[p] = "idle"
-----------------------------------------------------------------------------
(* Why they hold                                                           *)

\* A request is at a step of its operation.
StepFits(p) ==
    /\ IF pc[p] = "idle" THEN job[p] = NoJob ELSE job[p] \in Job
    /\ pc[p] = "check" => job[p].op = "bearer"
    /\ pc[p] \in {"connect", "lock"} \cup Locked => job[p].op \in Changes
    /\ pc[p] \in {"mark", "granted"} => job[p].op \notin Changes

TypeInv ==
    /\ TypeOK
    /\ \A p \in Process : StepFits(p) /\ (pc[p] \in Locked => lock = p)

\* What a change is about to write is made from the configuration in force.
ChangeInv ==
    \A p \in Process :
        /\ pc[p] = "commit" => version[p] = Latest /\ MayChange(job[p], Current)
        /\ pc[p] = "publish" => version[p] = Latest

\* A refresh has the mutex, and what it sets is not older than any management
\* request that waits for nothing more.
RefreshInv ==
    \A p \in Process :
        /\ pc[p] # "idle" => job[p].began \in 1 .. Latest
        /\ pc[p] \in {"load", "set"} => refreshMu[job[p].on] = p
        /\ pc[p] = "set" => version[p] >= job[p].began
        /\ pc[p] = "snapshot" /\ job[p].op # "bearer"
            => /\ authorizer[job[p].on].version >= job[p].began
               /\ \A q \in Process : pc[q] = "set" /\ job[q].on = job[p].on
                      => version[q] >= job[p].began

\* An accepted token was active.
ActiveInv ==
    \A p \in Process :
        pc[p] \in {"mark", "granted"} /\ job[p].op = "bearer"
            => \E v \in job[p].began .. Latest :
                   history[v].tokens[job[p].token] = "active"

\* A replica that is not up handles no request, and keeps the snapshot of its start.
StartInv ==
    /\ \A p \in Process : pc[p] # "idle" => replica[job[p].on] = "up"
    /\ \A r \in Replica : replica[r] = "starting" => authorizer[r].boot

\* Snapshots were in force at the time they carry.
FreshInv ==
    /\ \A v \in 1 .. Latest : history[v].at <= now
    /\ \A r \in Replica :
           ~authorizer[r].boot
               => InForceUntil(authorizer[r].version) >= authorizer[r].at
    /\ \A p \in Process :
           /\ pc[p] \in {"refresh", "load", "set"} => stamp[p] <= now
           /\ pc[p] = "set" => InForceUntil(version[p]) >= stamp[p]

AccessInv ==
    /\ TypeInv /\ ChangeInv /\ RefreshInv /\ ManagementIsCurrent
    /\ ActiveInv /\ StartInv /\ FreshInv
=============================================================================
