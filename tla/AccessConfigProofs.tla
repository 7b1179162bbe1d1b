------------------------ MODULE AccessConfigProofs ------------------------
(***************************************************************************)
(* Theorems about AccessConfig, for any replicas, requests and tokens, any *)
(* retention of the snapshot, and every fault of the module.               *)
(***************************************************************************)
EXTENDS AccessConfig, SequenceTheorems, TLAPS

USE DEF Goto, shared, local

-----------------------------------------------------------------------------
(* Types                                                                   *)

\* A step of a request that leaves the configuration, the lock and the
\* snapshots alone.
Asks(p) ==
    \/ Start(p) \/ TryRefresh(p) \/ ForceRefresh(p) \/ LoadTeamConfigs(p)
    \/ ReadAuthorizer(p) \/ CheckActive(p) \/ MarkAccessTokenUsed(p) \/ Return(p)
    \/ Connect(p) \/ LoadFails(p) \/ CheckFails(p) \/ MarkFails(p) \/ LockFails(p)
Sets(p)  == SetAuthorizer(p) \/ PublishAuthorizer(p)
Locks(p) == LockAccessConfig(p) \/ ReadConfigs(p) \/ Unlock(p)
Commits(p) == ReplaceTeamConfigs(p) \/ ChangeFails(p)
Starts(r) == LoadAtStart(r) \/ Serve(r)

\* Next, by these groups.
LEMMA NextCases ==
    ASSUME Next
    PROVE  \/ \E p \in Process : Asks(p) \/ Sets(p) \/ Locks(p) \/ Commits(p)
           \/ \E r \in Replica : Crash(r) \/ Starts(r)
           \/ Tick
BY DEF Next, Request, Change, Fails, Asks, Sets, Locks, Commits, Starts

\* A configuration stays one when it is changed.
LEMMA ChangedIsConfig ==
    ASSUME NEW j \in Job, j.op \in Changes, NEW c \in Config
    PROVE  Changed(j, c) \in Config
BY DEF Changed, Changes, Config, Status, Job

\* The history after a commit.
LEMMA HistoryGrows ==
    ASSUME TypeInv, NEW p \in Process, pc[p] = "commit", Replace(p)
    PROVE  /\ history' \in Seq([tokens : Config, at : Nat]) /\ history' # <<>>
           /\ Latest' = Latest + 1 /\ Latest \in Nat \ {0}
           /\ \A v \in 1 .. Latest : history'[v] = history[v]
           /\ history'[Latest + 1] =
                  [tokens |-> Changed(job[p], history[version[p]].tokens), at |-> now]
<1>1. history \in Seq([tokens : Config, at : Nat]) /\ Latest \in Nat \ {0}
    BY DEF TypeInv, TypeOK, SharedTypes, LocalTypes, Latest
<1>2. version[p] \in 1 .. Latest /\ now \in Nat
    BY DEF TypeInv, TypeOK, SharedTypes, LocalTypes
<1>3. history[version[p]] \in [tokens : Config, at : Nat]
    BY <1>1, <1>2, ElementOfSeq DEF Latest
<1>4. job[p] \in Job /\ job[p].op \in Changes
    BY DEF TypeInv, StepFits, Locked
<1>5. [tokens |-> Changed(job[p], history[version[p]].tokens), at |-> now]
          \in [tokens : Config, at : Nat]
    BY <1>2, <1>3, <1>4, ChangedIsConfig
<1> QED BY <1>1, <1>5 DEF Replace, Latest

\* Requests that are gone fit their step; the others are as they were.
LEMMA FinishTypes ==
    ASSUME TypeInv, NEW S, Finish(S), Latest' = Latest
    PROVE  /\ LocalTypes'
           /\ \A p \in Process : StepFits(p)'
           /\ \A p \in Process \ S : pc'[p] = pc[p] /\ job'[p] = job[p]
           /\ \A p \in Process \cap S : pc'[p] = "idle"
<1>1. LocalTypes'
    BY DEF TypeInv, TypeOK, SharedTypes, LocalTypes, Finish, Steps, Latest
<1>2. /\ \A p \in Process \ S : pc'[p] = pc[p] /\ job'[p] = job[p]
      /\ \A p \in Process \cap S : pc'[p] = "idle" /\ job'[p] = NoJob
    BY DEF TypeInv, TypeOK, LocalTypes, Finish
<1>3. \A p \in Process : StepFits(p)'
    BY <1>2 DEF TypeInv, StepFits, Locked
<1> QED BY <1>1, <1>2, <1>3

\* What a request that asks leaves alone.
LEMMA AskEffects ==
    ASSUME TypeInv, NEW p \in Process, Asks(p)
    PROVE  /\ UNCHANGED <<history, lock, replica, authorizer, now>> /\ Latest' = Latest
           /\ used' \subseteq Token
           /\ refreshMu' \in [Replica -> Process \cup {Free}]
           /\ \A q \in Process \ {p} : pc'[q] = pc[q] /\ job'[q] = job[q]
           /\ pc[p] \notin Locked /\ pc'[p] \notin Locked
<1>1. UNCHANGED <<history, lock, replica, authorizer, now>>
    BY DEF Asks, Start, TryRefresh, ForceRefresh, LoadTeamConfigs, ReadAuthorizer,
           CheckActive, MarkAccessTokenUsed, Return, Connect, LoadFails, CheckFails,
           MarkFails, LockFails
<1>2. pc[p] # "idle" => job[p].on \in Replica /\ job[p].token \in Token
    BY DEF TypeInv, StepFits, Job
<1>3. used' \subseteq Token
    BY <1>2 DEF TypeInv, TypeOK, SharedTypes, Asks, Start, TryRefresh, ForceRefresh,
        LoadTeamConfigs, ReadAuthorizer, CheckActive, MarkAccessTokenUsed, Return, Connect,
        LoadFails, CheckFails, MarkFails, LockFails
<1>4. refreshMu' \in [Replica -> Process \cup {Free}]
    BY <1>2 DEF TypeInv, TypeOK, SharedTypes, Asks, Start, TryRefresh, ForceRefresh,
        LoadTeamConfigs, ReadAuthorizer, CheckActive, MarkAccessTokenUsed, Return, Connect,
        LoadFails, CheckFails, MarkFails, LockFails
<1>5. \A q \in Process \ {p} : pc'[q] = pc[q] /\ job'[q] = job[q]
    BY DEF TypeInv, TypeOK, LocalTypes, Finish, Asks, Start, TryRefresh, ForceRefresh,
        LoadTeamConfigs, ReadAuthorizer, CheckActive, MarkAccessTokenUsed, Return, Connect,
        LoadFails, CheckFails, MarkFails, LockFails
<1>6. pc[p] \notin Locked /\ pc'[p] \notin Locked
    BY DEF TypeInv, TypeOK, LocalTypes, Locked, Finish, Asks, Start, TryRefresh,
        ForceRefresh, LoadTeamConfigs, ReadAuthorizer, CheckActive, MarkAccessTokenUsed,
        Return, Connect, LoadFails, CheckFails, MarkFails, LockFails
<1> QED BY <1>1, <1>3, <1>4, <1>5, <1>6 DEF Latest

LEMMA AskTypes ==
    ASSUME TypeInv, NEW p \in Process, Asks(p)
    PROVE  TypeInv'
<1>1. SharedTypes' /\ Latest' = Latest /\ Latest \in Nat \ {0}
    BY AskEffects DEF TypeInv, TypeOK, SharedTypes, Latest
<1>2. /\ \A q \in Process : lock' = q => pc'[q] \in Locked
      /\ \A q \in Process : pc'[q] \in Locked => lock' = q
    BY AskEffects DEF TypeInv, TypeOK
<1>3. LocalTypes' /\ \A q \in Process : StepFits(q)'
    <2>1. CASE Finish({p})
        BY <1>1, <2>1, FinishTypes
    <2>2. CASE ~Finish({p})
        <3>1. pc' \in [Process -> Steps] /\ marks' \in [Process -> SUBSET Token]
            BY <2>2 DEF TypeInv, TypeOK, LocalTypes, Steps, Asks, Start, TryRefresh,
                ForceRefresh, LoadTeamConfigs, ReadAuthorizer, CheckActive,
                MarkAccessTokenUsed, Return, Connect, LoadFails, CheckFails, MarkFails,
                LockFails
        <3>2. job' \in [Process -> Job \cup {NoJob}]
            BY <1>1, <2>2, ConstantsAssumption DEF TypeInv, TypeOK, LocalTypes, Job, Asks,
                Start, TryRefresh, ForceRefresh, LoadTeamConfigs, ReadAuthorizer,
                CheckActive, MarkAccessTokenUsed, Return, Connect, LoadFails, CheckFails,
                MarkFails, LockFails
        <3>3. version' \in [Process -> 1 .. Latest']
            <4>1. pc[p] # "idle" => authorizer[job[p].on].version \in 1 .. Latest
                BY DEF TypeInv, TypeOK, SharedTypes, StepFits, Job
            <4> QED
                BY <1>1, <2>2, <4>1 DEF TypeInv, TypeOK, LocalTypes, Asks, Start,
                    TryRefresh, ForceRefresh, LoadTeamConfigs, ReadAuthorizer, CheckActive,
                    MarkAccessTokenUsed, Return, Connect, LoadFails, CheckFails, MarkFails,
                    LockFails
        <3>4. stamp' \in [Process -> Nat]
            BY <2>2 DEF TypeInv, TypeOK, SharedTypes, LocalTypes, Asks, Start, TryRefresh,
                ForceRefresh, LoadTeamConfigs, ReadAuthorizer, CheckActive,
                MarkAccessTokenUsed, Return, Connect, LoadFails, CheckFails, MarkFails,
                LockFails
        <3>5. \A q \in Process \ {p} : StepFits(q)'
            BY AskEffects DEF TypeInv, StepFits
        <3>6. pc'[p] # "idle" /\ job'[p] \in Job
            <4>1. CASE Start(p)
                BY <1>1, <4>1, ConstantsAssumption DEF TypeInv, TypeOK, LocalTypes, Start, Job
            <4>2. CASE ~Start(p)
                <5>1. pc[p] # "idle" /\ pc'[p] # "idle" /\ job'[p] = job[p]
                    BY <2>2, <4>2 DEF TypeInv, TypeOK, LocalTypes, StepFits, Asks,
                        TryRefresh, ForceRefresh, LoadTeamConfigs, ReadAuthorizer,
                        CheckActive, MarkAccessTokenUsed, Return, Connect, LoadFails,
                        CheckFails, MarkFails, LockFails
                <5> QED BY <5>1 DEF TypeInv, StepFits
            <4> QED BY <4>1, <4>2
        <3>7. StepFits(p)'
            BY <2>2, <3>6 DEF TypeInv, TypeOK, LocalTypes, StepFits, Job, AllOperations,
                Changes, Locked, Asks, Start, TryRefresh, ForceRefresh, LoadTeamConfigs,
                ReadAuthorizer, CheckActive, MarkAccessTokenUsed, Return, Connect,
                LoadFails, CheckFails, MarkFails, LockFails
        <3> QED BY <3>1, <3>2, <3>3, <3>4, <3>5, <3>7 DEF LocalTypes
    <2> QED BY <2>1, <2>2
<1> QED BY <1>1, <1>2, <1>3 DEF TypeInv, TypeOK

LEMMA SetTypes ==
    ASSUME TypeInv, NEW p \in Process, Sets(p)
    PROVE  TypeInv'
<1>1. Latest \in Nat \ {0} /\ Latest' = Latest
    BY DEF TypeInv, TypeOK, SharedTypes, Latest, Sets, SetAuthorizer, PublishAuthorizer
<1>2. job[p].on \in Replica /\ version[p] \in 1 .. Latest
    BY DEF TypeInv, TypeOK, LocalTypes, Sets, SetAuthorizer, PublishAuthorizer, StepFits, Job
<1>3. PICK at \in Nat :
          authorizer' = [authorizer EXCEPT ![job[p].on] =
                            [version |-> version[p], at |-> at, boot |-> FALSE]]
    BY DEF TypeInv, TypeOK, SharedTypes, LocalTypes, Sets, SetAuthorizer,
        PublishAuthorizer, RefreshTime
<1>4. [version |-> version[p], at |-> at, boot |-> FALSE] \in Snapshot
    BY <1>1, <1>2 DEF Snapshot
<1>5. /\ authorizer' \in [Replica -> Snapshot]
      /\ \A r \in Replica : authorizer'[r].version \in 1 .. Latest
    BY <1>2, <1>3, <1>4 DEF TypeInv, TypeOK, SharedTypes
<1>6. refreshMu' \in [Replica -> Process \cup {Free}]
    BY DEF TypeInv, TypeOK, SharedTypes, Sets, SetAuthorizer, PublishAuthorizer
<1>7. SharedTypes'
    BY <1>1, <1>5, <1>6 DEF TypeInv, TypeOK, SharedTypes, Sets, SetAuthorizer,
        PublishAuthorizer
<1>8. LocalTypes'
    BY <1>1 DEF TypeInv, TypeOK, LocalTypes, Sets, SetAuthorizer, PublishAuthorizer, Steps
<1>9. \A q \in Process :
          StepFits(q)' /\ (pc'[q] \in Locked => lock' = q) /\ (lock' = q => pc'[q] \in Locked)
    BY DEF TypeInv, TypeOK, LocalTypes, Sets, SetAuthorizer, PublishAuthorizer,
        StepFits, Locked, Changes
<1> QED BY <1>7, <1>8, <1>9 DEF TypeInv, TypeOK

LEMMA LockTypes ==
    ASSUME TypeInv, NEW p \in Process, Locks(p)
    PROVE  TypeInv'
<1>1. Latest \in Nat \ {0} /\ Latest' = Latest /\ Free \notin Process
    BY ConstantsAssumption DEF TypeInv, TypeOK, SharedTypes, Latest, Locks,
        LockAccessConfig, ReadConfigs, Unlock
<1>2. SharedTypes'
    BY <1>1 DEF TypeInv, TypeOK, SharedTypes, Locks, LockAccessConfig, ReadConfigs, Unlock
<1>3. CASE LockAccessConfig(p) \/ ReadConfigs(p)
    <2>1. LocalTypes'
        <3>1. version' \in [Process -> 1 .. Latest']
            BY <1>1, <1>3 DEF TypeInv, TypeOK, LocalTypes, LockAccessConfig, ReadConfigs
        <3>2. marks' \in [Process -> SUBSET Token]
            BY <1>3 DEF TypeInv, TypeOK, SharedTypes, LocalTypes, LockAccessConfig, ReadConfigs
        <3> QED
            BY <1>3, <3>1, <3>2 DEF TypeInv, TypeOK, LocalTypes, LockAccessConfig,
                ReadConfigs, Steps
    <2>2. \A q \in Process :
              StepFits(q)' /\ (pc'[q] \in Locked => lock' = q) /\ (lock' = q => pc'[q] \in Locked)
        BY <1>1, <1>3 DEF TypeInv, TypeOK, LocalTypes, LockAccessConfig, ReadConfigs,
            StepFits, Locked, LockFree, Changes
    <2> QED BY <1>2, <2>1, <2>2 DEF TypeInv, TypeOK
<1>4. CASE Unlock(p)
    <2>1. LocalTypes' /\ \A q \in Process : StepFits(q)'
        BY <1>1, <1>4, FinishTypes DEF Unlock
    <2>2. \A q \in Process : lock' # q /\ pc'[q] \notin Locked
        BY <1>1, <1>4, FinishTypes DEF Unlock, TypeInv, Locked
    <2> QED BY <1>2, <2>1, <2>2 DEF TypeInv, TypeOK
<1> QED BY <1>3, <1>4 DEF Locks

LEMMA CommitTypes ==
    ASSUME TypeInv, NEW p \in Process, Commits(p)
    PROVE  TypeInv'
<1>1. Latest \in Nat \ {0}
    BY DEF TypeInv, TypeOK, SharedTypes, Latest
<1>2. /\ history' \in Seq([tokens : Config, at : Nat]) /\ history' # <<>>
      /\ Latest' \in {Latest, Latest + 1}
      /\ ReplaceTeamConfigs(p) => Latest' = Latest + 1
    <2>1. CASE pc[p] = "commit" /\ Replace(p)
        BY <2>1, HistoryGrows
    <2>2. CASE ~(pc[p] = "commit" /\ Replace(p))
        BY <2>2 DEF TypeInv, TypeOK, SharedTypes, Commits, ReplaceTeamConfigs,
            ChangeFails, Latest
    <2> QED BY <2>1, <2>2
<1>3. used' \subseteq Token
    BY DEF TypeInv, TypeOK, SharedTypes, LocalTypes, Commits, ReplaceTeamConfigs,
        ChangeFails, Replace
<1>4. SharedTypes'
    BY <1>1, <1>2, <1>3 DEF TypeInv, TypeOK, SharedTypes, Commits, ReplaceTeamConfigs,
        ChangeFails
<1>5. LocalTypes'
    <2>1. version' \in [Process -> 1 .. Latest']
        <3>1. CASE ReplaceTeamConfigs(p)
            BY <1>1, <1>2, <3>1 DEF TypeInv, TypeOK, LocalTypes, ReplaceTeamConfigs
        <3>2. CASE ChangeFails(p)
            BY <1>1, <1>2, <3>2 DEF TypeInv, TypeOK, LocalTypes, ChangeFails
        <3> QED BY <3>1, <3>2 DEF Commits
    <2> QED
        BY <2>1 DEF TypeInv, TypeOK, LocalTypes, Commits, ReplaceTeamConfigs, ChangeFails,
            Steps
<1>6. \A q \in Process :
          StepFits(q)' /\ (pc'[q] \in Locked => lock' = q) /\ (lock' = q => pc'[q] \in Locked)
    BY DEF TypeInv, TypeOK, LocalTypes, Commits, ReplaceTeamConfigs, ChangeFails,
        StepFits, Locked
<1> QED BY <1>4, <1>5, <1>6 DEF TypeInv, TypeOK

LEMMA ReplicaTypes ==
    ASSUME TypeInv, NEW r \in Replica, Crash(r) \/ Starts(r)
    PROVE  TypeInv'
<1>1. Latest \in Nat \ {0} /\ Latest' = Latest /\ Free \notin Process
    BY ConstantsAssumption DEF TypeInv, TypeOK, SharedTypes, Latest, Crash, Starts,
        LoadAtStart, Serve
<1>2. CASE Crash(r)
    <2> DEFINE gone == {p \in Process : job[p].on = r}
    <2>1. Finish(gone) /\ lock' = LockAfter(gone)
        BY <1>2 DEF Crash
    <2>2. LocalTypes' /\ \A q \in Process : StepFits(q)'
        BY <1>1, <2>1, FinishTypes
    <2>3. SharedTypes'
        BY <1>1, <1>2 DEF Crash, LockAfter, TypeInv, TypeOK, SharedTypes
    <2>4. \A q \in Process : (pc'[q] \in Locked => lock' = q) /\ (lock' = q => pc'[q] \in Locked)
        BY <1>1, <2>1, FinishTypes DEF TypeInv, TypeOK, LockAfter, Locked
    <2> QED BY <2>2, <2>3, <2>4 DEF TypeInv, TypeOK
<1>3. CASE Starts(r)
    <2>1. /\ authorizer' \in [Replica -> Snapshot]
          /\ \A s \in Replica : authorizer'[s].version \in 1 .. Latest
        <3>1. CASE LoadAtStart(r)
            <4>1. [version |-> Latest, at |-> now, boot |-> TRUE] \in Snapshot
                BY <1>1 DEF Snapshot, TypeInv, TypeOK, SharedTypes
            <4> QED BY <1>1, <3>1, <4>1 DEF TypeInv, TypeOK, SharedTypes, LoadAtStart
        <3>2. CASE Serve(r)
            <4>1. /\ [authorizer[r] EXCEPT !.at = now] \in Snapshot
                  /\ [authorizer[r] EXCEPT !.at = now].version = authorizer[r].version
                BY DEF Snapshot, TypeInv, TypeOK, SharedTypes
            <4> QED BY <3>2, <4>1 DEF TypeInv, TypeOK, SharedTypes, Serve
        <3> QED BY <1>3, <3>1, <3>2 DEF Starts
    <2>2. SharedTypes'
        BY <1>1, <1>3, <2>1 DEF TypeInv, TypeOK, SharedTypes, Starts, LoadAtStart, Serve
    <2>3. UNCHANGED <<pc, local, lock>>
        BY <1>3 DEF Starts, LoadAtStart, Serve
    <2> QED BY <1>1, <2>2, <2>3 DEF TypeInv, TypeOK, LocalTypes, StepFits
<1> QED BY <1>2, <1>3

\* TypeInv holds at the start, and every step keeps it.
LEMMA TypeInvInductive ==
    /\ Init => TypeInv
    /\ TypeInv /\ [Next]_vars => TypeInv'
<1>1. ASSUME Init PROVE TypeInv
    <2>1. PICK c \in Config : history = <<[tokens |-> c, at |-> 0]>>
        BY <1>1 DEF Init
    <2>2. /\ history \in Seq([tokens : Config, at : Nat]) /\ history # <<>>
          /\ Latest = 1
        BY <2>1 DEF Latest
    <2> QED
        BY <1>1, <2>2, ConstantsAssumption DEF Init, TypeInv, TypeOK, SharedTypes,
            LocalTypes, Snapshot, Steps, StepFits, Locked
<1>2. ASSUME TypeInv, [Next]_vars PROVE TypeInv'
    <2>1. CASE UNCHANGED vars
        BY <1>2, <2>1 DEF vars, TypeInv, TypeOK, SharedTypes, LocalTypes, StepFits, Latest
    <2>2. CASE Tick
        BY <1>2, <2>2 DEF Tick, TypeInv, TypeOK, SharedTypes, LocalTypes, StepFits, Latest
    <2> QED
        BY <1>2, <2>1, <2>2, NextCases, AskTypes, SetTypes, LockTypes, CommitTypes,
            ReplicaTypes
<1> QED BY <1>1, <1>2

\* Every variable keeps its type under every fault.
THEOREM TypeCorrect == Spec => []TypeOK
<1>1. TypeInv => TypeOK
    BY DEF TypeInv
<1> QED BY <1>1, TypeInvInductive, PTL DEF Spec

-----------------------------------------------------------------------------
(* Frames                                                                  *)

Moves(p) == Asks(p) \/ Sets(p) \/ Locks(p) \/ Commits(p)

\* A request changes nothing of another one.
LEMMA OthersStay ==
    ASSUME TypeInv, NEW p \in Process, Moves(p), NEW q \in Process, q # p
    PROVE  /\ pc'[q] = pc[q] /\ job'[q] = job[q]
           /\ version'[q] = version[q] /\ stamp'[q] = stamp[q]
<1>1. CASE Asks(p)
    BY <1>1 DEF TypeInv, TypeOK, LocalTypes, Finish, Asks, Start, TryRefresh, ForceRefresh,
        LoadTeamConfigs, ReadAuthorizer, CheckActive, MarkAccessTokenUsed, Return, Connect,
        LoadFails, CheckFails, MarkFails, LockFails
<1>2. CASE Sets(p) \/ Locks(p) \/ Commits(p)
    BY <1>2 DEF TypeInv, TypeOK, LocalTypes, Finish, Sets, Locks, Commits, SetAuthorizer,
        PublishAuthorizer, LockAccessConfig, ReadConfigs, Unlock, ReplaceTeamConfigs,
        ChangeFails
<1> QED BY <1>1, <1>2 DEF Moves

\* Neither do a replica and the clock, except that they may end it.
LEMMA AllStay ==
    ASSUME TypeInv,
           \/ \E r \in Replica : Crash(r) \/ Starts(r)
           \/ Tick \/ UNCHANGED vars
    PROVE  /\ UNCHANGED history /\ Latest' = Latest
           /\ \A q \in Process :
                  \/ pc'[q] = "idle"
                  \/ /\ pc'[q] = pc[q] /\ job'[q] = job[q]
                     /\ version'[q] = version[q] /\ stamp'[q] = stamp[q]
BY DEF TypeInv, TypeOK, LocalTypes, Finish, Crash, Starts, LoadAtStart, Serve, Tick, vars,
    Latest

\* Next, by who moves.
LEMMA StepCases ==
    ASSUME [Next]_vars
    PROVE  \/ \E p \in Process : Moves(p)
           \/ \E r \in Replica : Crash(r) \/ Starts(r)
           \/ Tick \/ UNCHANGED vars
BY NextCases DEF Moves

-----------------------------------------------------------------------------
(* Changes                                                                 *)

LEMMA ChangeInvKept ==
    ASSUME TypeInv, ChangeInv, [Next]_vars
    PROVE  ChangeInv'
<1> SUFFICES ASSUME NEW q \in Process
             PROVE  /\ pc'[q] = "commit" =>
                           version'[q] = Latest' /\ MayChange(job'[q], Current')
                    /\ pc'[q] = "publish" => version'[q] = Latest'
    BY DEF ChangeInv
<1>1. ASSUME NEW p \in Process, Moves(p), UNCHANGED history
      PROVE  /\ pc'[q] = "commit" => version'[q] = Latest' /\ MayChange(job'[q], Current')
             /\ pc'[q] = "publish" => version'[q] = Latest'
    <2>1. Latest' = Latest /\ Current' = Current
        BY <1>1 DEF Latest, Current
    <2>2. CASE q # p
        BY <1>1, <2>1, <2>2, OthersStay DEF ChangeInv
    <2>3. CASE q = p /\ Asks(p)
        BY <2>3, AskEffects DEF Locked
    <2>4. CASE q = p /\ (Sets(p) \/ Locks(p))
        BY <2>1, <2>4 DEF TypeInv, TypeOK, LocalTypes, Finish, Sets, Locks, SetAuthorizer,
            PublishAuthorizer, LockAccessConfig, ReadConfigs, Unlock
    <2>5. CASE q = p /\ Commits(p)
        <3>1. Latest # Latest + 1
            BY DEF TypeInv, TypeOK, SharedTypes, Latest
        <3>2. ~ReplaceTeamConfigs(p)
            BY <2>1, <3>1, HistoryGrows DEF ReplaceTeamConfigs
        <3> QED
            BY <2>5, <3>2 DEF TypeInv, TypeOK, LocalTypes, Commits, ChangeFails
    <2> QED BY <1>1, <2>2, <2>3, <2>4, <2>5 DEF Moves
<1>2. ASSUME NEW p \in Process, Commits(p), pc[p] = "commit", Replace(p)
      PROVE  /\ pc'[q] = "commit" => version'[q] = Latest' /\ MayChange(job'[q], Current')
             /\ pc'[q] = "publish" => version'[q] = Latest'
    <2>1. Latest' = Latest + 1
        BY <1>2, HistoryGrows
    <2>2. CASE q # p
        BY <1>2, <2>2, OthersStay DEF Moves, TypeInv, Locked
    <2>3. CASE q = p
        BY <1>2, <2>1, <2>3 DEF TypeInv, TypeOK, LocalTypes, Commits, ReplaceTeamConfigs,
            ChangeFails
    <2> QED BY <2>2, <2>3
<1>3. ASSUME NEW p \in Process, Moves(p)
      PROVE  UNCHANGED history \/ (Commits(p) /\ pc[p] = "commit" /\ Replace(p))
    BY <1>3, AskEffects DEF Moves, Sets, Locks, SetAuthorizer, PublishAuthorizer,
        LockAccessConfig, ReadConfigs, Unlock, Commits, ReplaceTeamConfigs, ChangeFails
<1>4. CASE \/ \E r \in Replica : Crash(r) \/ Starts(r)
           \/ Tick \/ UNCHANGED vars
    BY <1>4, AllStay DEF ChangeInv, Current
<1> QED BY <1>1, <1>2, <1>3, <1>4, StepCases

\* Only a change under the lock writes the configuration.
LEMMA HistoryChanges ==
    ASSUME TypeInv, [Next]_vars
    PROVE  \/ UNCHANGED history /\ Latest' = Latest
           \/ \E p \in Process : Commits(p) /\ pc[p] = "commit" /\ Replace(p)
<1>1. ASSUME NEW p \in Process, Moves(p)
      PROVE  UNCHANGED history \/ (Commits(p) /\ pc[p] = "commit" /\ Replace(p))
    BY <1>1, AskEffects DEF Moves, Sets, Locks, SetAuthorizer, PublishAuthorizer,
        LockAccessConfig, ReadConfigs, Unlock, Commits, ReplaceTeamConfigs, ChangeFails
<1>2. UNCHANGED history => Latest' = Latest
    BY DEF Latest
<1> QED BY <1>1, <1>2, StepCases, AllStay

\* Administrators on several replicas lose no change of one another.
THEOREM NoUpdateIsLost == Spec => NoLostUpdate
<1>1. TypeInv /\ ChangeInv /\ [Next]_vars
        => (history' # history
            => \E p \in Process :
                   /\ job[p].op \in Changes /\ MayChange(job[p], Current)
                   /\ history' = Append(history,
                          [tokens |-> Changed(job[p], Current), at |-> now]))
    <2> SUFFICES ASSUME TypeInv, ChangeInv, [Next]_vars, history' # history
                 PROVE  \E p \in Process :
                            /\ job[p].op \in Changes /\ MayChange(job[p], Current)
                            /\ history' = Append(history,
                                   [tokens |-> Changed(job[p], Current), at |-> now])
        OBVIOUS
    <2>1. PICK p \in Process : pc[p] = "commit" /\ Replace(p)
        BY HistoryChanges
    <2>2. version[p] = Latest /\ MayChange(job[p], Current) /\ job[p].op \in Changes
        BY <2>1 DEF ChangeInv, TypeInv, StepFits, Locked
    <2> WITNESS p \in Process
    <2> QED BY <2>1, <2>2 DEF Replace, Current
<1>2. Init => ChangeInv
    BY DEF Init, ChangeInv
<1>3. NoLostUpdate <=> [][history' # history
        => \E p \in Process :
               /\ job[p].op \in Changes /\ MayChange(job[p], Current)
               /\ history' = Append(history, [tokens |-> Changed(job[p], Current), at |-> now])]_vars
    BY DEF NoLostUpdate
<1> QED BY <1>1, <1>2, <1>3, TypeInvInductive, ChangeInvKept, PTL DEF Spec

-----------------------------------------------------------------------------
(* Refreshes                                                               *)

LEMMA RefreshInvKept ==
    ASSUME TypeInv, ChangeInv, RefreshInv, [Next]_vars
    PROVE  RefreshInv'
<1>1. Latest \in Nat \ {0} /\ Latest' \in Nat /\ Latest <= Latest'
    <2>1. Latest \in Nat \ {0}
        BY DEF TypeInv, TypeOK, SharedTypes, Latest
    <2>2. Latest' \in {Latest, Latest + 1}
        BY HistoryChanges, HistoryGrows
    <2> QED BY <2>1, <2>2
<1>2. \A p \in Process :
          /\ version[p] \in 1 .. Latest
          /\ pc[p] # "idle" => /\ job[p] \in Job /\ job[p].on \in Replica
                               /\ job[p].began \in 1 .. Latest
                               /\ authorizer[job[p].on].version \in 1 .. Latest
    BY DEF TypeInv, TypeOK, SharedTypes, LocalTypes, StepFits, Job, RefreshInv
<1>3. ASSUME NEW p \in Process, Moves(p) PROVE RefreshInv'
    <2>1. \A q \in Process : pc'[q] # "idle" => job'[q].began \in 1 .. Latest'
        <3>1. pc'[p] # "idle" =>
                  \/ job'[p] = job[p] /\ pc[p] # "idle"
                  \/ job'[p].began = Latest
            BY <1>3 DEF TypeInv, TypeOK, LocalTypes, Finish, Moves, Sets, Locks, Commits,
                SetAuthorizer, PublishAuthorizer, LockAccessConfig, ReadConfigs, Unlock,
                ReplaceTeamConfigs, ChangeFails, Asks, Start, TryRefresh, ForceRefresh,
                LoadTeamConfigs, ReadAuthorizer, CheckActive, MarkAccessTokenUsed, Return,
                Connect, LoadFails, CheckFails, MarkFails, LockFails
        <3> QED BY <1>1, <1>2, <1>3, <3>1, OthersStay
    <2>2. \A q \in Process : pc'[q] \in {"load", "set"} => refreshMu'[job'[q].on] = q
        <3>1. CASE TryRefresh(p) \/ ForceRefresh(p)
            <4>1. /\ pc[p] = "refresh" /\ job' = job
                  /\ \/ /\ refreshMu[job[p].on] = Free
                        /\ refreshMu' = [refreshMu EXCEPT ![job[p].on] = p]
                     \/ refreshMu' = refreshMu /\ pc'[p] \notin {"load", "set"}
                BY <3>1 DEF TryRefresh, ForceRefresh, MuFree, TypeInv, TypeOK, LocalTypes
            <4>2. job[p].on \in Replica /\ refreshMu \in [Replica -> Process \cup {Free}]
                BY <1>2, <4>1 DEF TypeInv, TypeOK, SharedTypes
            <4>3. pc'[p] \in {"load", "set"} => refreshMu'[job'[p].on] = p
                BY <4>1, <4>2
            <4>4. ASSUME NEW q \in Process, q # p, pc'[q] \in {"load", "set"}
                  PROVE  refreshMu'[job'[q].on] = q
                <5>1. refreshMu[job[q].on] = q /\ job[q].on \in Replica
                    BY <1>2, <1>3, <4>4, OthersStay DEF RefreshInv
                <5> QED BY <4>1, <4>2, <5>1, ConstantsAssumption
            <4> QED BY <4>3, <4>4
        <3>2. CASE LoadFails(p) \/ SetAuthorizer(p)
            BY <1>2, <1>3, <3>2, OthersStay DEF RefreshInv, TypeInv, TypeOK,
                SharedTypes, LocalTypes, LoadFails, SetAuthorizer, Finish
        <3>3. CASE ~(TryRefresh(p) \/ ForceRefresh(p) \/ LoadFails(p) \/ SetAuthorizer(p))
            <4>1. UNCHANGED refreshMu
                BY <1>3, <3>3 DEF Moves, Sets, Locks, Commits, SetAuthorizer,
                    PublishAuthorizer, LockAccessConfig, ReadConfigs, Unlock,
                    ReplaceTeamConfigs, ChangeFails, Asks, Start, TryRefresh, ForceRefresh,
                    LoadTeamConfigs, ReadAuthorizer, CheckActive, MarkAccessTokenUsed,
                    Return, Connect, LoadFails, CheckFails, MarkFails, LockFails
            <4>2. pc'[p] \in {"load", "set"} => pc[p] = "load" /\ job'[p] = job[p]
                BY <1>3, <3>3 DEF TypeInv, TypeOK, LocalTypes, Finish, Moves, Sets, Locks,
                    Commits, SetAuthorizer, PublishAuthorizer, LockAccessConfig,
                    ReadConfigs, Unlock, ReplaceTeamConfigs, ChangeFails, Asks, Start,
                    TryRefresh, ForceRefresh, LoadTeamConfigs, ReadAuthorizer, CheckActive,
                    MarkAccessTokenUsed, Return, Connect, LoadFails, CheckFails, MarkFails,
                    LockFails
            <4> QED BY <1>3, <4>1, <4>2, OthersStay DEF RefreshInv
        <3> QED BY <3>1, <3>2, <3>3
    <2>3. pc'[p] = "set" => version'[p] = Latest /\ pc[p] = "load" /\ job'[p] = job[p]
        BY <1>3 DEF TypeInv, TypeOK, LocalTypes, Finish, Moves, Sets, Locks, Commits,
            SetAuthorizer, PublishAuthorizer, LockAccessConfig, ReadConfigs, Unlock,
            ReplaceTeamConfigs, ChangeFails, Asks, Start, TryRefresh, ForceRefresh,
            LoadTeamConfigs, ReadAuthorizer, CheckActive, MarkAccessTokenUsed, Return,
            Connect, LoadFails, CheckFails, MarkFails, LockFails
    <2>4. \A q \in Process : pc'[q] = "set" => version'[q] >= job'[q].began
        BY <1>2, <1>3, <2>3, OthersStay DEF RefreshInv
    <2>5. ASSUME NEW q \in Process, pc'[q] = "snapshot", job'[q].op # "bearer"
          PROVE  /\ authorizer'[job'[q].on].version >= job'[q].began
                 /\ \A s \in Process : pc'[s] = "set" /\ job'[s].on = job'[q].on
                        => version'[s] >= job'[q].began
        <3>1. \/ pc[q] = "snapshot" /\ job'[q] = job[q]
              \/ q = p /\ SetAuthorizer(p) /\ job'[q] = job[q]
            BY <1>3, <2>5, OthersStay DEF TypeInv, TypeOK, LocalTypes, Finish, Moves, Sets,
                Locks, Commits, SetAuthorizer, PublishAuthorizer, LockAccessConfig,
                ReadConfigs, Unlock, ReplaceTeamConfigs, ChangeFails, Asks, Start,
                TryRefresh, ForceRefresh, LoadTeamConfigs, ReadAuthorizer, CheckActive,
                MarkAccessTokenUsed, Return, Connect, LoadFails, CheckFails, MarkFails,
                LockFails
        <3>2. CASE q # p
            <4>1. pc[q] = "snapshot" /\ job'[q] = job[q]
                BY <3>1, <3>2
            <4>2. authorizer'[job[q].on].version >= job[q].began
                <5>1. CASE SetAuthorizer(p)
                    BY <1>2, <2>5, <4>1, <5>1 DEF RefreshInv, SetAuthorizer, TypeInv,
                        TypeOK, SharedTypes
                <5>2. CASE PublishAuthorizer(p)
                    BY <1>2, <2>5, <4>1, <5>2 DEF RefreshInv, ChangeInv, PublishAuthorizer,
                        TypeInv, TypeOK, SharedTypes
                <5>3. CASE Asks(p) \/ Locks(p) \/ Commits(p)
                    BY <2>5, <4>1, <5>3, AskEffects DEF RefreshInv, Locks, Commits,
                        LockAccessConfig, ReadConfigs, Unlock, ReplaceTeamConfigs, ChangeFails
                <5> QED BY <1>3, <5>1, <5>2, <5>3 DEF Moves, Sets
            <4>3. \A s \in Process : pc'[s] = "set" /\ job'[s].on = job[q].on
                        => version'[s] >= job[q].began
                BY <1>2, <1>3, <2>3, <2>5, <4>1, OthersStay DEF RefreshInv
            <4> QED BY <4>1, <4>2, <4>3
        <3>3. CASE q = p /\ SetAuthorizer(p)
            <4>1. job'[p] = job[p] /\ pc[p] = "set"
                BY <3>3 DEF SetAuthorizer
            <4>2. authorizer'[job[p].on].version = version[p]
                BY <1>2, <3>3, <4>1 DEF SetAuthorizer, TypeInv, TypeOK, SharedTypes
            <4>3. \A s \in Process : pc'[s] = "set" => s # p /\ pc[s] = "set" /\ job'[s] = job[s]
                BY <1>3, <2>3, <4>1, OthersStay
            <4>4. \A s \in Process : pc'[s] = "set" => job'[s].on # job'[p].on
                BY <4>1, <4>3 DEF RefreshInv
            <4> QED BY <3>3, <4>1, <4>2, <4>4 DEF RefreshInv
        <3>4. CASE q = p /\ ~SetAuthorizer(p)
            <4>1. pc[p] = "snapshot" /\ pc'[p] = "snapshot"
                BY <2>5, <3>1, <3>4
            <4> QED
                BY <1>3, <3>4, <4>1 DEF TypeInv, TypeOK, LocalTypes, Finish, Moves, Sets,
                    Locks, Commits, SetAuthorizer, PublishAuthorizer, LockAccessConfig,
                    ReadConfigs, Unlock, ReplaceTeamConfigs, ChangeFails, Asks, Start,
                    TryRefresh, ForceRefresh, LoadTeamConfigs, ReadAuthorizer, CheckActive,
                    MarkAccessTokenUsed, Return, Connect, LoadFails, CheckFails, MarkFails,
                    LockFails
        <3> QED BY <3>2, <3>3, <3>4
    <2> QED BY <2>1, <2>2, <2>4, <2>5 DEF RefreshInv
<1>4. CASE \/ \E r \in Replica : Crash(r) \/ Starts(r)
           \/ Tick \/ UNCHANGED vars
    <2>1. \A q \in Process : pc'[q] # "idle" =>
              /\ pc'[q] = pc[q] /\ job'[q] = job[q] /\ version'[q] = version[q]
              /\ refreshMu'[job[q].on] = refreshMu[job[q].on]
              /\ authorizer'[job[q].on].version \in {authorizer[job[q].on].version, Latest}
        <3>1. ASSUME NEW r \in Replica, Crash(r) \/ Starts(r), NEW q \in Process, pc'[q] # "idle"
              PROVE  /\ refreshMu'[job[q].on] = refreshMu[job[q].on]
                     /\ authorizer'[job[q].on].version \in {authorizer[job[q].on].version, Latest}
            <4>1. CASE Crash(r)
                BY <3>1, <4>1 DEF Crash, Finish, TypeInv, TypeOK, SharedTypes
            <4>2. CASE Starts(r)
                <5>1. refreshMu' = refreshMu /\ pc' = pc /\ authorizer \in [Replica -> Snapshot]
                    BY <4>2 DEF Starts, LoadAtStart, Serve, TypeInv, TypeOK, SharedTypes
                <5>2. CASE LoadAtStart(r)
                    BY <1>2, <3>1, <5>1, <5>2 DEF LoadAtStart
                <5>3. CASE Serve(r)
                    BY <1>2, <3>1, <5>1, <5>3 DEF Serve, Snapshot
                <5> QED BY <4>2, <5>2, <5>3 DEF Starts
            <4> QED BY <3>1, <4>1, <4>2
        <3>2. CASE Tick \/ UNCHANGED vars
            BY <3>2 DEF Tick, vars
        <3> QED BY <1>4, <3>1, <3>2, AllStay
    <2> QED BY <1>1, <1>2, <1>4, <2>1, AllStay DEF RefreshInv
<1> QED BY <1>3, <1>4, StepCases

LEMMA ManagementKept ==
    ASSUME TypeInv, RefreshInv, ManagementIsCurrent, [Next]_vars
    PROVE  ManagementIsCurrent'
<1> SUFFICES ASSUME NEW q \in Process, pc'[q] \in {"mark", "granted"}, job'[q].op = "manage"
             PROVE  version'[q] >= job'[q].began
    BY DEF ManagementIsCurrent
<1>1. ASSUME NEW p \in Process, Moves(p) PROVE version'[q] >= job'[q].began
    <2>1. CASE q # p
        BY <1>1, <2>1, OthersStay DEF ManagementIsCurrent
    <2>2. CASE q = p
        <3>1. /\ job'[p] = job[p]
              /\ \/ ReadAuthorizer(p) /\ pc[p] = "snapshot"
                    /\ version'[p] = authorizer[job[p].on].version
                 \/ pc[p] = "mark" /\ version'[p] = version[p]
            BY <1>1, <2>2 DEF TypeInv, TypeOK, LocalTypes, StepFits, Finish, Locked, Moves,
                Sets, Locks, Commits, SetAuthorizer, PublishAuthorizer, LockAccessConfig,
                ReadConfigs, Unlock, ReplaceTeamConfigs, ChangeFails, Asks, Start,
                TryRefresh, ForceRefresh, LoadTeamConfigs, ReadAuthorizer, CheckActive,
                MarkAccessTokenUsed, Return, Connect, LoadFails, CheckFails, MarkFails,
                LockFails
        <3> QED BY <2>2, <3>1 DEF RefreshInv, ManagementIsCurrent
    <2> QED BY <2>1, <2>2
<1>2. CASE \/ \E r \in Replica : Crash(r) \/ Starts(r)
           \/ Tick \/ UNCHANGED vars
    BY <1>2, AllStay DEF ManagementIsCurrent
<1> QED BY <1>1, <1>2, StepCases

\* A management request is judged by a configuration in force during it.
THEOREM ManagementStaysCurrent == Spec => []ManagementIsCurrent
<1>1. Init => ChangeInv /\ RefreshInv /\ ManagementIsCurrent
    BY DEF Init, ChangeInv, RefreshInv, ManagementIsCurrent
<1> QED
    BY <1>1, TypeInvInductive, ChangeInvKept, RefreshInvKept, ManagementKept, PTL DEF Spec

-----------------------------------------------------------------------------
(* Tokens                                                                  *)

LEMMA ActiveInvKept ==
    ASSUME TypeInv, RefreshInv, RefreshInv', ActiveInv, [Next]_vars
    PROVE  ActiveInv'
<1> SUFFICES ASSUME NEW q \in Process, pc'[q] \in {"mark", "granted"}, job'[q].op = "bearer"
             PROVE  \E v \in job'[q].began .. Latest' :
                        history'[v].tokens[job'[q].token] = "active"
    BY DEF ActiveInv
<1>1. Latest \in Nat \ {0} /\ Latest' \in Nat /\ Latest <= Latest'
      /\ \A v \in 1 .. Latest : history'[v] = history[v]
    <2>1. Latest \in Nat \ {0}
        BY DEF TypeInv, TypeOK, SharedTypes, Latest
    <2>2. Latest' \in {Latest, Latest + 1} /\ \A v \in 1 .. Latest : history'[v] = history[v]
        BY HistoryChanges, HistoryGrows
    <2> QED BY <2>1, <2>2
<1>2. \E v \in job'[q].began .. Latest : history[v].tokens[job'[q].token] = "active"
    <2>1. ASSUME NEW p \in Process, Moves(p)
          PROVE  \E v \in job'[q].began .. Latest : history[v].tokens[job'[q].token] = "active"
        <3>1. CASE q # p
            BY <2>1, <3>1, OthersStay DEF ActiveInv
        <3>2. CASE q = p
            <4>1. /\ job'[p] = job[p]
                  /\ pc[p] = "mark" \/ (pc[p] = "check" /\ IsTokenActive(job[p].token))
                BY <2>1, <3>2 DEF TypeInv, TypeOK, LocalTypes, StepFits, Finish, Locked,
                    Moves, Sets, Locks, Commits, SetAuthorizer, PublishAuthorizer,
                    LockAccessConfig, ReadConfigs, Unlock, ReplaceTeamConfigs, ChangeFails,
                    Asks, Start, TryRefresh, ForceRefresh, LoadTeamConfigs, ReadAuthorizer,
                    CheckActive, MarkAccessTokenUsed, Return, Connect, LoadFails,
                    CheckFails, MarkFails, LockFails
            <4>2. CASE pc[p] = "mark"
                BY <3>2, <4>1, <4>2 DEF ActiveInv
            <4>3. CASE pc[p] = "check" /\ IsTokenActive(job[p].token)
                <5>1. job[p].began \in 1 .. Latest
                    BY <4>3 DEF RefreshInv
                <5> QED BY <1>1, <3>2, <4>1, <4>3, <5>1 DEF IsTokenActive, Current
            <4> QED BY <4>1, <4>2, <4>3
        <3> QED BY <3>1, <3>2
    <2>2. CASE \/ \E r \in Replica : Crash(r) \/ Starts(r)
               \/ Tick \/ UNCHANGED vars
        BY <2>2, AllStay DEF ActiveInv
    <2> QED BY <2>1, <2>2, StepCases
<1>3. job'[q].began \in 1 .. Latest'
    BY DEF RefreshInv
<1> QED BY <1>1, <1>2, <1>3

\* A bearer token is accepted only if it was active during the request.
THEOREM RevocationTakesEffect == Spec => []RevocationIsImmediate
<1>1. Init => ChangeInv /\ RefreshInv /\ ActiveInv
    BY DEF Init, ChangeInv, RefreshInv, ActiveInv
<1>2. ActiveInv => RevocationIsImmediate
    BY DEF ActiveInv, RevocationIsImmediate
<1> QED
    BY <1>1, <1>2, TypeInvInductive, ChangeInvKept, RefreshInvKept, ActiveInvKept, PTL
    DEF Spec

-----------------------------------------------------------------------------
(* Freshness                                                               *)

\* How long configuration v was in force, seen from the next state.
UntilNext(v) == IF v = Latest' THEN now' ELSE history'[v + 1].at

\* Time does not run back, and only Tick changes it.
LEMMA TimeGoesOn ==
    ASSUME TypeInv, [Next]_vars
    PROVE  now \in Nat /\ now' \in Nat /\ now <= now'
<1>1. now \in Nat
    BY DEF TypeInv, TypeOK, SharedTypes
<1>2. CASE \E p \in Process : Moves(p)
    <2>1. now' = now
        BY <1>2 DEF Moves, Sets, Locks, Commits, SetAuthorizer, PublishAuthorizer,
            LockAccessConfig, ReadConfigs, Unlock, ReplaceTeamConfigs, ChangeFails, Asks,
            Start, TryRefresh, ForceRefresh, LoadTeamConfigs, ReadAuthorizer, CheckActive,
            MarkAccessTokenUsed, Return, Connect, LoadFails, CheckFails, MarkFails, LockFails
    <2> QED BY <1>1, <2>1
<1>3. CASE \E r \in Replica : Crash(r) \/ Starts(r)
    <2>1. now' = now
        BY <1>3 DEF Crash, Starts, LoadAtStart, Serve
    <2> QED BY <1>1, <2>1
<1>4. CASE Tick
    BY <1>1, <1>4 DEF Tick
<1>5. CASE UNCHANGED vars
    BY <1>1, <1>5 DEF vars
<1> QED BY <1>2, <1>3, <1>4, <1>5, StepCases

\* A configuration that was in force at a time still was.
LEMMA InForceStays ==
    ASSUME TypeInv, FreshInv, [Next]_vars
    PROVE  /\ \A v \in 1 .. Latest' : history'[v].at <= now'
           /\ \A v \in 1 .. Latest : /\ InForceUntil(v) \in Nat /\ UntilNext(v) \in Nat
                                     /\ InForceUntil(v) <= now
                                     /\ UntilNext(v) >= InForceUntil(v)
           /\ InForceUntil(Latest) = now
           /\ UntilNext(Latest') = now'
<1>1. /\ Latest \in Nat \ {0}
      /\ \A v \in 1 .. Latest : history[v].at \in Nat
    <2>1. Latest \in Nat \ {0}
        BY DEF TypeInv, TypeOK, SharedTypes, Latest
    <2>2. ASSUME NEW v \in 1 .. Latest PROVE history[v].at \in Nat
        <3>1. history[v] \in [tokens : Config, at : Nat]
            BY <2>2, ElementOfSeq DEF TypeInv, TypeOK, SharedTypes, Latest
        <3> QED BY <3>1
    <2> QED BY <2>1, <2>2
<1>2. now \in Nat /\ now' \in Nat /\ now <= now'
    BY TimeGoesOn
<1>3. \A v \in 1 .. Latest : InForceUntil(v) \in Nat /\ InForceUntil(v) <= now
    BY <1>1, <1>2 DEF InForceUntil, FreshInv
<1>4. InForceUntil(Latest) = now /\ UntilNext(Latest') = now'
    BY DEF InForceUntil, UntilNext
<1>5. CASE UNCHANGED history /\ Latest' = Latest
    <2>1. \A v \in 1 .. Latest' : history'[v].at <= now'
        BY <1>1, <1>2, <1>5 DEF FreshInv
    <2>2. \A v \in 1 .. Latest : UntilNext(v) \in Nat /\ UntilNext(v) >= InForceUntil(v)
        BY <1>1, <1>2, <1>5 DEF InForceUntil, UntilNext
    <2> QED BY <1>3, <1>4, <2>1, <2>2
<1>6. ASSUME NEW p \in Process, Commits(p), pc[p] = "commit", Replace(p)
      PROVE  /\ \A v \in 1 .. Latest' : history'[v].at <= now'
             /\ \A v \in 1 .. Latest : UntilNext(v) \in Nat /\ UntilNext(v) >= InForceUntil(v)
    <2>1. history \in Seq([tokens : Config, at : Nat])
        BY DEF TypeInv, TypeOK, SharedTypes
    <2>2. /\ Latest' = Latest + 1
          /\ \A v \in 1 .. Latest : history'[v] = history[v]
          /\ history'[Latest + 1].at = now
        BY <1>6, <2>1 DEF Replace, Latest
    <2>3. now' = now
        BY <1>6 DEF Commits, ReplaceTeamConfigs, ChangeFails
    <2>4. \A v \in 1 .. Latest' : history'[v].at <= now'
        BY <1>1, <1>2, <2>2, <2>3 DEF FreshInv
    <2>5. \A v \in 1 .. Latest : UntilNext(v) \in Nat /\ UntilNext(v) >= InForceUntil(v)
        BY <1>1, <1>2, <2>2, <2>3 DEF InForceUntil, UntilNext
    <2> QED BY <2>4, <2>5
<1> QED BY <1>3, <1>4, <1>5, <1>6, HistoryChanges

\* Only a request at work replaces a snapshot that is not of the start.
LEMMA StartInvKept ==
    ASSUME TypeInv, StartInv, [Next]_vars
    PROVE  StartInv'
<1>1. ASSUME NEW p \in Process, Moves(p)
      PROVE  StartInv'
    <2>1. replica' = replica
        BY <1>1 DEF Moves, Sets, Locks, Commits, SetAuthorizer, PublishAuthorizer,
            LockAccessConfig, ReadConfigs, Unlock, ReplaceTeamConfigs, ChangeFails, Asks,
            Start, TryRefresh, ForceRefresh, LoadTeamConfigs, ReadAuthorizer, CheckActive,
            MarkAccessTokenUsed, Return, Connect, LoadFails, CheckFails, MarkFails, LockFails
    <2>2. /\ pc'[p] # "idle" => replica[job'[p].on] = "up"
          /\ \A r \in Replica : authorizer'[r] # authorizer[r] => replica[r] = "up"
        BY <1>1 DEF StartInv, TypeInv, TypeOK, SharedTypes, LocalTypes, Finish, Moves, Sets,
            Locks, Commits, SetAuthorizer, PublishAuthorizer, LockAccessConfig, ReadConfigs,
            Unlock, ReplaceTeamConfigs, ChangeFails, Asks, Start, TryRefresh, ForceRefresh,
            LoadTeamConfigs, ReadAuthorizer, CheckActive, MarkAccessTokenUsed, Return,
            Connect, LoadFails, CheckFails, MarkFails, LockFails
    <2> QED BY <1>1, <2>1, <2>2, OthersStay DEF StartInv
<1>2. ASSUME NEW r \in Replica, Crash(r) \/ Starts(r)
      PROVE  StartInv'
    <2>1. ASSUME NEW q \in Process, pc'[q] # "idle"
          PROVE  replica'[job'[q].on] = "up"
        <3>1. /\ pc[q] # "idle" /\ job'[q] = job[q] /\ job[q].on \in Replica
              /\ replica[job[q].on] = "up"
            BY <1>2, <2>1, AllStay DEF StartInv, TypeInv, StepFits, Job
        <3>2. CASE Crash(r)
            <4>1. job[q].on # r
                BY <2>1, <3>2 DEF Crash, Finish, TypeInv, TypeOK, LocalTypes
            <4> QED BY <3>1, <3>2, <4>1 DEF Crash, TypeInv, TypeOK, SharedTypes
        <3>3. CASE Starts(r)
            BY <3>1, <3>3 DEF Starts, LoadAtStart, Serve, TypeInv, TypeOK, SharedTypes
        <3> QED BY <1>2, <3>2, <3>3
    <2>2. \A s \in Replica : replica'[s] = "starting" => authorizer'[s].boot
        BY <1>2 DEF Crash, Starts, LoadAtStart, Serve, StartInv, TypeInv, TypeOK, SharedTypes,
            Snapshot
    <2> QED BY <2>1, <2>2 DEF StartInv
<1>3. CASE Tick \/ UNCHANGED vars
    BY <1>3 DEF Tick, vars, StartInv
<1> QED BY <1>1, <1>2, <1>3, StepCases

\* The snapshots of the next state, by what a request does to them.
LEMMA SnapshotsStayFresh ==
    ASSUME TypeInv, ChangeInv, StartInv, FreshInv, [Next]_vars,
           NEW r \in Replica, ~authorizer'[r].boot
    PROVE  UntilNext(authorizer'[r].version) >= authorizer'[r].at
<1>1. now \in Nat /\ now' \in Nat /\ now <= now'
    BY TimeGoesOn
<1>2. \A v \in 1 .. Latest : /\ InForceUntil(v) \in Nat /\ UntilNext(v) \in Nat
                             /\ InForceUntil(v) <= now
                             /\ UntilNext(v) >= InForceUntil(v)
    BY InForceStays
<1>3. InForceUntil(Latest) = now /\ Latest \in 1 .. Latest
    BY InForceStays DEF TypeInv, TypeOK, SharedTypes, Latest
<1>4. authorizer[r].version \in 1 .. Latest /\ authorizer[r].at \in Nat
    BY DEF TypeInv, TypeOK, SharedTypes, Snapshot
<1>5. CASE authorizer'[r] = authorizer[r]
    BY <1>2, <1>4, <1>5 DEF FreshInv
<1>6. ASSUME NEW p \in Process, SetAuthorizer(p), r = job[p].on
      PROVE  UntilNext(authorizer'[r].version) >= authorizer'[r].at
    <2>1. authorizer'[r].version = version[p] /\ authorizer'[r].at = stamp[p]
        BY <1>6 DEF SetAuthorizer, RefreshTime, TypeInv, TypeOK, SharedTypes
    <2>2. InForceUntil(version[p]) >= stamp[p] /\ version[p] \in 1 .. Latest /\ stamp[p] \in Nat
        BY <1>6 DEF SetAuthorizer, FreshInv, TypeInv, TypeOK, LocalTypes
    <2> QED BY <1>2, <2>1, <2>2
<1>7. ASSUME NEW p \in Process, PublishAuthorizer(p), r = job[p].on
      PROVE  UntilNext(authorizer'[r].version) >= authorizer'[r].at
    <2>1. authorizer'[r].version = Latest /\ authorizer'[r].at = now
        BY <1>7 DEF PublishAuthorizer, ChangeInv, TypeInv, TypeOK, SharedTypes
    <2> QED BY <1>1, <1>2, <1>3, <2>1
<1>8. ASSUME NEW p \in Process, Moves(p), authorizer'[r] # authorizer[r]
      PROVE  (SetAuthorizer(p) \/ PublishAuthorizer(p)) /\ r = job[p].on
    BY <1>8, AskEffects DEF TypeInv, TypeOK, SharedTypes, Moves, Sets, Locks, Commits,
        SetAuthorizer, PublishAuthorizer, LockAccessConfig, ReadConfigs, Unlock,
        ReplaceTeamConfigs, ChangeFails
<1>9. ASSUME \/ \E s \in Replica : Crash(s) \/ Starts(s)
             \/ Tick \/ UNCHANGED vars
      PROVE  authorizer'[r] = authorizer[r]
    <2>1. ASSUME NEW s \in Replica, Crash(s) \/ LoadAtStart(s) \/ Serve(s)
          PROVE  authorizer'[r] = authorizer[r]
        <3>1. authorizer \in [Replica -> Snapshot]
            BY DEF TypeInv, TypeOK, SharedTypes
        <3>2. CASE s # r
            BY <2>1, <3>1, <3>2 DEF Crash, LoadAtStart, Serve
        <3>3. CASE s = r /\ Crash(s)
            BY <3>3 DEF Crash
        <3>4. CASE s = r /\ LoadAtStart(s)
            BY <3>1, <3>4 DEF LoadAtStart
        <3>5. CASE s = r /\ Serve(s)
            <4>1. authorizer[r].boot
                BY <3>5 DEF Serve, StartInv
            <4>2. authorizer'[r] = [authorizer[r] EXCEPT !.at = now]
                BY <3>1, <3>5 DEF Serve
            <4>3. authorizer[r] \in Snapshot
                BY <3>1
            <4> QED BY <4>1, <4>2, <4>3 DEF Snapshot
        <3> QED BY <2>1, <3>2, <3>3, <3>4, <3>5
    <2>2. CASE Tick \/ UNCHANGED vars
        BY <2>2 DEF Tick, vars
    <2> QED BY <1>9, <2>1, <2>2 DEF Starts
<1> QED BY <1>5, <1>6, <1>7, <1>8, <1>9, StepCases

\* What a request is about to set is as fresh as its stamp.
LEMMA RefreshesStayFresh ==
    ASSUME TypeInv, FreshInv, [Next]_vars, NEW q \in Process
    PROVE  /\ pc'[q] \in {"refresh", "load", "set"} => stamp'[q] <= now'
           /\ pc'[q] = "set" => UntilNext(version'[q]) >= stamp'[q]
<1>1. now \in Nat /\ now' \in Nat /\ now <= now'
    BY TimeGoesOn
<1>2. \A v \in 1 .. Latest : /\ InForceUntil(v) \in Nat /\ UntilNext(v) \in Nat
                             /\ InForceUntil(v) <= now
                             /\ UntilNext(v) >= InForceUntil(v)
    BY InForceStays
<1>3. InForceUntil(Latest) = now /\ Latest \in 1 .. Latest
    BY InForceStays DEF TypeInv, TypeOK, SharedTypes, Latest
<1>4. version[q] \in 1 .. Latest /\ stamp[q] \in Nat
    BY DEF TypeInv, TypeOK, LocalTypes
<1>5. CASE \/ pc'[q] = "idle"
           \/ pc'[q] = pc[q] /\ version'[q] = version[q] /\ stamp'[q] = stamp[q]
    BY <1>1, <1>2, <1>4, <1>5 DEF FreshInv
<1>6. ASSUME Moves(q)
      PROVE  /\ pc'[q] \in {"refresh", "load", "set"} => stamp'[q] <= now'
             /\ pc'[q] = "set" => UntilNext(version'[q]) >= stamp'[q]
    <2>1. pc'[q] \in {"refresh", "load", "set"} =>
              \/ stamp'[q] = now
              \/ stamp'[q] = stamp[q] /\ pc[q] \in {"refresh", "load", "set"}
        BY <1>6 DEF TypeInv, TypeOK, LocalTypes, Finish, Moves, Sets, Locks, Commits,
            SetAuthorizer, PublishAuthorizer, LockAccessConfig, ReadConfigs, Unlock,
            ReplaceTeamConfigs, ChangeFails, Asks, Start, TryRefresh, ForceRefresh,
            LoadTeamConfigs, ReadAuthorizer, CheckActive, MarkAccessTokenUsed, Return,
            Connect, LoadFails, CheckFails, MarkFails, LockFails
    <2>2. pc'[q] = "set" => version'[q] = Latest /\ stamp'[q] = stamp[q] /\ pc[q] = "load"
        BY <1>6 DEF TypeInv, TypeOK, LocalTypes, Finish, Moves, Sets, Locks, Commits,
            SetAuthorizer, PublishAuthorizer, LockAccessConfig, ReadConfigs, Unlock,
            ReplaceTeamConfigs, ChangeFails, Asks, Start, TryRefresh, ForceRefresh,
            LoadTeamConfigs, ReadAuthorizer, CheckActive, MarkAccessTokenUsed, Return,
            Connect, LoadFails, CheckFails, MarkFails, LockFails
    <2>3. pc'[q] \in {"refresh", "load", "set"} => stamp'[q] <= now'
        BY <1>1, <1>4, <2>1 DEF FreshInv
    <2>4. pc'[q] = "set" => UntilNext(version'[q]) >= stamp'[q]
        BY <1>1, <1>2, <1>3, <1>4, <2>2 DEF FreshInv
    <2> QED BY <2>3, <2>4
<1>7. ASSUME NEW p \in Process, Moves(p), p # q
      PROVE  pc'[q] = pc[q] /\ version'[q] = version[q] /\ stamp'[q] = stamp[q]
    BY <1>7, OthersStay
<1>8. ASSUME \/ \E r \in Replica : Crash(r) \/ Starts(r)
             \/ Tick \/ UNCHANGED vars
      PROVE  \/ pc'[q] = "idle"
             \/ pc'[q] = pc[q] /\ version'[q] = version[q] /\ stamp'[q] = stamp[q]
    BY <1>8, AllStay
<1> QED BY <1>5, <1>6, <1>7, <1>8, StepCases

LEMMA FreshInvKept ==
    ASSUME TypeInv, ChangeInv, StartInv, FreshInv, [Next]_vars
    PROVE  FreshInv'
<1>1. \A v \in 1 .. Latest' : history'[v].at <= now'
    BY InForceStays
<1>2. \A r \in Replica : ~authorizer'[r].boot
          => UntilNext(authorizer'[r].version) >= authorizer'[r].at
    BY SnapshotsStayFresh
<1>3. \A q \in Process :
          /\ pc'[q] \in {"refresh", "load", "set"} => stamp'[q] <= now'
          /\ pc'[q] = "set" => UntilNext(version'[q]) >= stamp'[q]
    BY RefreshesStayFresh
<1> QED BY <1>1, <1>2, <1>3 DEF FreshInv, InForceUntil, UntilNext

\* No bearer request is judged by a configuration that was replaced long ago.
THEOREM StalenessStaysBounded == Spec => StalenessIsBounded
<1>1. Init => ChangeInv /\ StartInv /\ FreshInv
    BY DEF Init, ChangeInv, StartInv, FreshInv, Latest
<1>2. TypeInv /\ FreshInv /\ [Next]_vars
        => \A p \in Process :
               pc[p] = "snapshot" /\ pc'[p] = "check" /\ ~authorizer[job[p].on].boot
                   => InForceUntil(version'[p]) >= now - MaxStale
    <2> SUFFICES ASSUME TypeInv, FreshInv, [Next]_vars, NEW p \in Process,
                        pc[p] = "snapshot", pc'[p] = "check", ~authorizer[job[p].on].boot
                 PROVE  InForceUntil(version'[p]) >= now - MaxStale
        OBVIOUS
    <2>1. ReadAuthorizer(p)
        <3>1. ASSUME NEW q \in Process, Moves(q) PROVE q = p
            BY <3>1, OthersStay
        <3>2. Moves(p)
            BY <3>1, AllStay, StepCases
        <3> QED
            BY <3>2 DEF Finish, Moves, Sets, Locks, Commits, SetAuthorizer, PublishAuthorizer,
            LockAccessConfig, ReadConfigs, Unlock, ReplaceTeamConfigs, ChangeFails, Asks,
            Start, TryRefresh, ForceRefresh, LoadTeamConfigs, ReadAuthorizer, CheckActive,
            MarkAccessTokenUsed, Return, Connect, LoadFails, CheckFails, MarkFails, LockFails
    <2> DEFINE r == job[p].on
    <2>2. r \in Replica
        BY DEF TypeInv, StepFits, Job
    <2>3. version'[p] = authorizer[r].version /\ now - authorizer[r].at <= MaxStale
        BY <2>1, <2>2, ConstantsAssumption
        DEF ReadAuthorizer, Finish, TypeInv, TypeOK, SharedTypes, LocalTypes, Snapshot, Changes
    <2>4. InForceUntil(authorizer[r].version) >= authorizer[r].at
        BY <2>2 DEF FreshInv
    <2>5. InForceUntil(authorizer[r].version) \in Nat
        BY <2>2, InForceStays DEF TypeInv, TypeOK, SharedTypes
    <2> QED
        BY <2>2, <2>3, <2>4, <2>5, TimeGoesOn, ConstantsAssumption
        DEF TypeInv, TypeOK, SharedTypes, Snapshot
<1> QED
    BY <1>1, <1>2, TypeInvInductive, ChangeInvKept, StartInvKept, FreshInvKept, PTL
    DEF Spec, StalenessIsBounded
=============================================================================
