---------------------------- MODULE BackgroundJobs ----------------------------
(* One background job of the server (src/internal/app/app.go) in every replica: *)
(* a worker goroutine that wakes up, takes the job's lease in the shared        *)
(* database, runs the job under a context with a timeout, and gives the lease   *)
(* back when the application is closed.  The replicas share the lease row only. *)
(* Time is discrete: Tick takes one unit off every clock.                       *)
EXTENDS Integers

CONSTANTS
    Replicas,      \* server processes; a restarted one is another replica (random holder)
    NoHolder,      \* the lease row does not exist
    Kinds,         \* which of the jobs below are explored
    RunTimeout,       \* the timeout of the context a run works under
    Slack,         \* how long a call goes on after its context is done
    JobInterval,      \* delay after a run that succeeded
    RetryDelays,   \* delays after a run that did not (30s with jitter)
    CloseTimeout,  \* how long Close waits for the workers
    MaxJobFaults      \* bound: crashes and database or job errors

ASSUME TimeAssumption ==
    /\ RunTimeout \in Nat /\ Slack \in Nat /\ Slack < RunTimeout
    /\ JobInterval \in Nat /\ CloseTimeout \in Nat /\ MaxJobFaults \in Nat
    /\ RetryDelays \in SUBSET Nat /\ RetryDelays # {}
    /\ NoHolder \notin Replicas
    /\ Kinds \subseteq {"retention", "deletion", "refresh"}

VARIABLES
    job,      \* the job this behaviour is about: never changes
    task,        \* what the worker of a replica is doing
    clock,     \* "waiting": time left on its timer; otherwise time since its last call began
    closeLeft, \* -1 until Close is called, then the time Close still waits
    storeOpen, \* the replica's database pool is open
    leaseHolder, leaseLeft,  \* the row of app_leases
    late,      \* replicas whose lease statement is still on its way to the database
    faults

jobsVars == <<job, task, clock, closeLeft, storeOpen, leaseHolder, leaseLeft, late, faults>>
worker == <<task, clock>>
lease  == <<leaseHolder, leaseLeft>>

\* retention: startRetentionCleanup; deletion: startArtifactDeletionCleanup;
\* refresh: startUpstreamRefresh.  All of them ask for twice the run's timeout.
\* (Mutant: once.)
OnceTimeout == RunTimeout
LeaseTime == 2 * RunTimeout
Longest   == RunTimeout + Slack
Busy      == {"acquiring", "granted", "cleaning"}

Cancelled(r) == closeLeft[r] # -1

\* The refresh asks for its lease outside the context it then runs under.
OutsideRun(r) == job = "refresh" /\ task[r] \in {"acquiring", "granted"}
ContextDone(r) == Cancelled(r) \/ (clock[r] >= RunTimeout /\ ~OutsideRun(r))

\* time.Ticker drops the ticks of a busy worker: the next one may come at any time
Delays(succeeded) ==
    IF job # "retention" THEN 0..JobInterval
    ELSE IF succeeded THEN {JobInterval}
    ELSE {IF d < JobInterval THEN d ELSE JobInterval : d \in RetryDelays}

FirstDelays == CASE job = "retention" -> {0}
                 [] job = "deletion"  -> {0}
                 [] job = "refresh"   -> {JobInterval}

Goto(r, where, time) == task' = [task EXCEPT ![r] = where] /\ clock' = [clock EXCEPT ![r] = time]

WaitAgain(r, succeeded) == \E d \in Delays(succeeded) : Goto(r, "waiting", d)

Fault == faults < MaxJobFaults /\ faults' = faults + 1

\* the call ends because its context is done; outlasting the timeout is a fault
Interrupted(r) ==
    /\ ContextDone(r)
    /\ \/ Fault
       \/ (Cancelled(r) \/ faults = MaxJobFaults) /\ UNCHANGED faults
-------------------------------------------------------------------------------
JobsInit ==
    /\ job \in Kinds
    /\ task = [r \in Replicas |-> "waiting"]
    /\ clock \in [Replicas -> FirstDelays]
    /\ closeLeft = [r \in Replicas |-> -1]
    /\ storeOpen = [r \in Replicas |-> TRUE]
    /\ leaseHolder = NoHolder /\ leaseLeft = 0
    /\ late = {} /\ faults = 0

\* The timer fires.  select may take it even when the application was cancelled.
WakeUp(r) ==
    /\ task[r] = "waiting" /\ clock[r] = 0
    /\ Goto(r, "acquiring", 0)
    /\ UNCHANGED <<job, closeLeft, storeOpen, lease, late, faults>>

\* AcquireLease: insert ... on conflict do update where expired or already ours.
CanTake(r) == leaseHolder \in {NoHolder, r} \/ leaseLeft = 0

Take(r) == leaseHolder' = r /\ leaseLeft' = LeaseTime

AcquireLease(r) ==
    /\ task[r] = "acquiring" /\ ~ContextDone(r)
    /\ \/ CanTake(r) /\ Take(r) /\ Goto(r, "granted", clock[r])
       \/ ~CanTake(r) /\ WaitAgain(r, FALSE) /\ UNCHANGED lease
    /\ UNCHANGED <<job, closeLeft, storeOpen, late, faults>>

\* The call returns an error; the statement may reach the database all the same.
AcquireLeaseFails(r) ==
    /\ task[r] = "acquiring"
    /\ \/ Interrupted(r) /\ UNCHANGED late
       \/ Fault /\ late' \in {late, late \cup {r}}
    /\ WaitAgain(r, FALSE)
    /\ UNCHANGED <<job, closeLeft, storeOpen, lease>>

LateAcquire(r) ==
    /\ r \in late /\ late' = late \ {r}
    /\ \/ CanTake(r) /\ Take(r)
       \/ UNCHANGED lease
    /\ UNCHANGED <<job, worker, closeLeft, storeOpen, faults>>

\* The reply arrives; the refresh starts its context now.
StartRun(r) ==
    /\ task[r] = "granted"
    /\ Goto(r, "cleaning", IF job = "refresh" THEN 0 ELSE clock[r])
    /\ UNCHANGED <<job, closeLeft, storeOpen, lease, late, faults>>

\* The context was done before the reply arrived: the grant is not seen.
ReplyLost(r) ==
    /\ task[r] = "granted" /\ Interrupted(r)
    /\ WaitAgain(r, FALSE)
    /\ UNCHANGED <<job, closeLeft, storeOpen, lease, late>>

FinishRun(r) ==
    /\ task[r] = "cleaning"
    /\ \/ WaitAgain(r, TRUE) /\ UNCHANGED faults
       \/ WaitAgain(r, FALSE) /\ (Interrupted(r) \/ Fault)
    /\ UNCHANGED <<job, closeLeft, storeOpen, lease, late>>

LeaveLoop(r) ==
    /\ task[r] = "waiting" /\ Cancelled(r)
    /\ Goto(r, "releasing", 0)
    /\ UNCHANGED <<job, closeLeft, storeOpen, lease, late, faults>>

\* ReleaseLease deletes the row only while this holder has it.  Its context is
\* a fresh one, so cancelling the application does not stop it.  (Mutant: the
\* row is deleted by its name alone.)
IsAnyHolder(r) == TRUE
IsHolder(r) == leaseHolder = r

ReleaseLease(r) ==
    /\ task[r] = "releasing"
    /\ IF IsHolder(r) THEN leaseHolder' = NoHolder /\ leaseLeft' = 0 ELSE UNCHANGED lease
    /\ Goto(r, "done", 0)
    /\ UNCHANGED <<job, closeLeft, storeOpen, late, faults>>

ReleaseFails(r) ==
    /\ task[r] = "releasing" /\ Fault
    /\ Goto(r, "done", 0)
    /\ UNCHANGED <<job, closeLeft, storeOpen, lease, late>>

\* SIGTERM: the server calls Close, which cancels the workers' context.
Close(r) ==
    /\ task[r] # "exited" /\ ~Cancelled(r)
    /\ closeLeft' = [closeLeft EXCEPT ![r] = CloseTimeout]
    /\ UNCHANGED <<job, worker, storeOpen, lease, late, faults>>

\* wg.Wait returns, the pool is closed, Close returns nil and the process ends.
\* (Mutant: the pool is closed without waiting.)
NotAwaited(r) == TRUE
WorkersStopped(r) == task[r] = "done"

CloseStore(r) ==
    /\ Cancelled(r) /\ WorkersStopped(r) /\ storeOpen[r]
    /\ storeOpen' = [storeOpen EXCEPT ![r] = FALSE]
    /\ UNCHANGED <<job, worker, closeLeft, lease, late, faults>>

Exit(r) ==
    /\ task[r] # "exited" /\ Cancelled(r)
    /\ ~storeOpen[r] \/ closeLeft[r] = 0    \* closed, or Close gave up waiting
    /\ Goto(r, "exited", 0)
    /\ UNCHANGED <<job, closeLeft, storeOpen, lease, late, faults>>

Crash(r) ==
    /\ task[r] # "exited" /\ Fault
    /\ Goto(r, "exited", 0)
    /\ UNCHANGED <<job, closeLeft, storeOpen, lease, late>>

\* A run ends within Slack of its context: every call it makes takes that context.
\* A call that outlasts the context is a fault too: none comes once the bound is used up.
Patience(r) == IF faults < MaxJobFaults THEN Longest ELSE RunTimeout - 1
MayWait(r) == task[r] \in Busy /\ ~OutsideRun(r) => clock[r] < Patience(r)

Advance(r) ==
    IF task[r] = "waiting" THEN (IF clock[r] > 0 THEN clock[r] - 1 ELSE 0)
    ELSE IF task[r] \in Busy /\ clock[r] < Longest THEN clock[r] + 1
    ELSE clock[r]

JobsTick ==
    /\ \A r \in Replicas : MayWait(r)
    /\ clock' = [r \in Replicas |-> Advance(r)]
    /\ leaseLeft' = IF leaseLeft > 0 THEN leaseLeft - 1 ELSE 0
    /\ closeLeft' = [r \in Replicas |-> IF closeLeft[r] > 0 THEN closeLeft[r] - 1 ELSE closeLeft[r]]
    /\ UNCHANGED <<job, task, storeOpen, leaseHolder, late, faults>>

Worker(r) == WakeUp(r) \/ AcquireLease(r) \/ AcquireLeaseFails(r) \/ StartRun(r) \/ ReplyLost(r)
             \/ FinishRun(r) \/ LeaveLoop(r) \/ ReleaseLease(r) \/ ReleaseFails(r)
Closing(r) == CloseStore(r) \/ Exit(r)

JobsNext == JobsTick \/ \E r \in Replicas : Worker(r) \/ Closing(r) \/ LateAcquire(r) \/ Close(r) \/ Crash(r)

\* Goroutines are scheduled and clocks advance.  Nothing obliges a signal, a
\* crash or a late statement to come.
JobsFairness == WF_jobsVars(JobsTick) /\ \A r \in Replicas : WF_jobsVars(Worker(r)) /\ WF_jobsVars(Closing(r))

JobsSpec == JobsInit /\ [][JobsNext]_jobsVars /\ JobsFairness
-------------------------------------------------------------------------------
JobsTypeOK ==
    /\ job \in Kinds
    /\ task \in [Replicas -> Busy \cup {"waiting", "releasing", "done", "exited"}]
    /\ clock \in [Replicas -> Nat]
    /\ closeLeft \in [Replicas -> -1..CloseTimeout]
    /\ storeOpen \in [Replicas -> BOOLEAN]
    /\ leaseHolder \in Replicas \cup {NoHolder} /\ leaseLeft \in 0..LeaseTime
    /\ late \subseteq Replicas /\ faults \in 0..MaxJobFaults

\* app.go:523 and 560: two replicas never run the same cleanup at once, because
\* the run's context ends well before the lease taken under it does.  The
\* upstream refresh gives no such promise: its context starts when the reply does.
OneCleaner ==
    job # "refresh" =>
        \A r, s \in Replicas : task[r] = "cleaning" /\ task[s] = "cleaning" => r = s

\* app.go:343: a lease that has not expired is lost only by its holder giving it
\* back, never by another replica's shutdown or late statement.
LeaseOnlyGivenBack ==
    [][leaseHolder # NoHolder /\ leaseLeft > 0 /\ leaseHolder' # leaseHolder => task[leaseHolder] = "releasing"]_jobsVars

\* app.go:310-342: the pool is closed only after the worker stopped using it.
StoreOutlivesWorkers == \A r \in Replicas : ~storeOpen[r] => task[r] \in {"done", "exited"}

\* The job goes on: while some replica stays up, a run begins again and again,
\* whichever replicas crash or leave with the lease.
WorkGoesOn == (<>[](\A r \in Replicas : Cancelled(r) \/ task[r] = "exited"))
              \/ []<>(\E r \in Replicas : task[r] = "cleaning")
===============================================================================
