------------------------------- MODULE MCWorkers -------------------------------
\* Four components whose actors wait for one another: the background jobs, the
\* SQLite module lock, the refresh pool and the opening of the database.  They
\* share no state, so a behaviour is one of them, chosen by Init and named by
\* running; the others stand still.
EXTENDS BackgroundJobs, ModuleLocks, RefreshPool, SchemaMigration

VARIABLE running

vars == <<running, jobsVars, locksVars, poolVars, schemaVars>>

\* tokens of two teams, with one secret
TokensOfTwoTeams == {[team |-> t, secret |-> "a"] : t \in 1..2}

Init ==
    /\ running \in {"jobs", "locks", "pool", "schema"}
    /\ JobsInit  /\ (running # "jobs" => job = "retention")
    /\ LocksInit
    /\ PoolInit  /\ (running # "pool" => order = CHOOSE o \in SetToSeqs(Modules) : TRUE)
    /\ SchemaInit
    /\ running # "schema" => dialect = "sqlite" /\ ~colliding /\ pepper /\ schema = NewSchema

Next ==
    \/ running = "jobs"  /\ JobsNext  /\ UNCHANGED <<running, locksVars, poolVars, schemaVars>>
    \/ running = "locks" /\ LocksNext /\ UNCHANGED <<running, jobsVars, poolVars, schemaVars>>
    \/ running = "pool"  /\ PoolNext  /\ UNCHANGED <<running, jobsVars, locksVars, schemaVars>>
    \/ running = "schema" /\ SchemaNext /\ UNCHANGED <<running, jobsVars, locksVars, poolVars>>

\* the fairness of the component that runs
Fairness ==
    /\ WF_jobsVars(running = "jobs" /\ JobsTick)
    /\ \A r \in Replicas : /\ WF_jobsVars(running = "jobs" /\ Worker(r))
                           /\ WF_jobsVars(running = "jobs" /\ Closing(r))
    /\ \A c \in Callers : /\ WF_locksVars(running = "locks" /\ Select(c))
                          /\ WF_locksVars(running = "locks" /\ Unlock(c))
                          /\ WF_locksVars(running = "locks" /\ ReleaseReference(c))
    /\ WF_poolVars(running = "pool" /\ StartCycle)
    /\ WF_poolVars(running = "pool" /\ FeederStops)
    /\ WF_poolVars(running = "pool" /\ CloseResults)
    /\ WF_poolVars(running = "pool" /\ Collect)
    /\ WF_poolVars(running = "pool" /\ ReturnCycle)
    /\ WF_poolVars(running = "pool" /\ \E w \in Workers : HandOver(w))
    /\ \A w \in Workers : /\ WF_poolVars(running = "pool" /\ Attempt(w))
                          /\ WF_poolVars(running = "pool" /\ SendResult(w))
                          /\ WF_poolVars(running = "pool" /\ WorkerStops(w))
    /\ \A r \in Servers : /\ WF_schemaVars(running = "schema" /\ opening[r] # "lock" /\ OpenStep(r))
                          /\ SF_schemaVars(running = "schema" /\ LockSchema(r))

Spec == Init /\ [][Next]_vars /\ Fairness

TypeOK == JobsTypeOK /\ LocksTypeOK /\ PoolTypeOK /\ SchemaTypeOK

\* module_service.go:1327 and 1330: no module is refreshed twice in a cycle, and
\* a cycle that returned left no worker and no result behind.
CyclesAreWhole == NothingLeftBehind /\ OneAttemptEach

\* app.go:516, sqlite.go:371, module_service.go:1338 and 1352, postgres.go:111:
\* whichever component runs goes on: some replica begins the job's run again and
\* again, a caller of the lock is served or gives up, a refresh cycle returns and
\* every module has its turn, and an opening of the database ends, although others
\* fail or die with its lock.
EverybodyGoesOn ==
    /\ running = "jobs"  => WorkGoesOn
    /\ running = "locks" => WaitEnds
    /\ running = "pool"  => CycleReturns /\ EveryModuleTried
    /\ running = "schema" => OpenEnds
===============================================================================
