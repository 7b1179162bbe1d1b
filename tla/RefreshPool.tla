------------------------------ MODULE RefreshPool ------------------------------
(* RefreshCachedUpstreamModules (src/internal/service/module_service.go): the   *)
(* modules refreshed longest ago are handed over an unbuffered channel to a few *)
(* workers, whose results a collector reads from a buffered one until the       *)
(* workers have stopped; and the order in which the next cycles will find them  *)
(* (ListUpstreamModules, MarkUpstreamModuleRefreshAttempt).                     *)
EXTENDS Integers, SequencesExt, FiniteSets

CONSTANTS
    Modules, Workers,
    BatchLimit,        \* modules taken in a cycle
    MaxMishaps          \* bound: marks the database refuses, and contexts done at once

ASSUME PoolAssumption ==
    /\ IsFiniteSet(Modules) /\ Modules # {}     \* with none a cycle has nothing to do
    /\ IsFiniteSet(Workers) /\ Workers # {}
    /\ BatchLimit \in Nat \ {0} /\ MaxMishaps \in Nat

VARIABLES
    order,             \* the modules by the time of their last attempt, oldest first
    cycle,             \* "idle", "running"
    interrupted,       \* the cycle's context is done: timeout or shutdown
    toFeed, fed,       \* what the feeder still has to hand over; it closed jobs
    team,              \* the workers started in this cycle
    stage, refreshing,        \* of a worker: "stopped", "receiving", "syncing", "sending"; its module
    results, resultsClosed,   \* the results channel, and whether it is closed
    batch, attempted, failed,  \* the modules of this cycle, and what the collector counted
    outcome,           \* what the cycle returned: "none", "nil", "error"
    mishaps

poolVars == <<order, cycle, interrupted, toFeed, fed, team, stage, refreshing, results, resultsClosed,
          batch, attempted, failed, outcome, mishaps>>
feeder    == <<toFeed, fed>>
crew      == <<team, stage, refreshing>>
collector == <<batch, attempted, failed, outcome>>

\* (Mutant: the ones refreshed last.)
NewestFirst(n) == SubSeq(order, IF n < Len(order) THEN Len(order) - n + 1 ELSE 1, Len(order))
OldestFirst(n) == SubSeq(order, 1, IF n < Len(order) THEN n ELSE Len(order))

\* min(max(concurrency, 1), len(modules))
WorkerCount(n) == IF Cardinality(Workers) < n THEN Cardinality(Workers) ELSE n
-------------------------------------------------------------------------------
PoolInit ==
    /\ order \in SetToSeqs(Modules)
    /\ cycle = "idle" /\ interrupted = FALSE
    /\ toFeed = <<>> /\ fed = TRUE /\ team = {}
    /\ stage = [w \in Workers |-> "stopped"] /\ refreshing \in [Workers -> {order[1]}]
    /\ results = <<>> /\ resultsClosed = TRUE
    /\ batch = {} /\ attempted = {} /\ failed = {} /\ outcome = "none"
    /\ mishaps = 0

StartCycle ==
    /\ cycle = "idle"
    /\ cycle' = "running" /\ interrupted' = FALSE /\ outcome' = "none"
    /\ toFeed' = OldestFirst(BatchLimit) /\ fed' = FALSE
    /\ \E W \in SUBSET Workers :
          /\ Cardinality(W) = WorkerCount(Len(OldestFirst(BatchLimit)))
          /\ team' = W
          /\ stage' = [w \in Workers |-> IF w \in W THEN "receiving" ELSE "stopped"]
    /\ results' = <<>> /\ resultsClosed' = FALSE
    /\ batch' = ToSet(OldestFirst(BatchLimit)) /\ attempted' = {} /\ failed' = {}
    /\ UNCHANGED <<order, refreshing, mishaps>>

Mishap == mishaps < MaxMishaps /\ mishaps' = mishaps + 1

Interrupt ==
    /\ cycle = "running" /\ ~interrupted /\ interrupted' = TRUE
    /\ IF Len(toFeed) = Cardinality(batch) THEN Mishap ELSE UNCHANGED mishaps
    /\ UNCHANGED <<order, cycle, feeder, crew, results, resultsClosed, collector>>

\* The unbuffered send and a worker's receive happen together.
Taken    == Tail(toFeed)

HandOver(w) ==
    /\ ~fed /\ toFeed # <<>> /\ stage[w] = "receiving"
    /\ refreshing' = [refreshing EXCEPT ![w] = Head(toFeed)] /\ stage' = [stage EXCEPT ![w] = "syncing"]
    /\ toFeed' = Taken
    /\ UNCHANGED <<order, cycle, interrupted, fed, team, results, resultsClosed, collector, mishaps>>

\* close(jobs), after the last module or when the context is done
FeederStops ==
    /\ ~fed /\ (toFeed = <<>> \/ interrupted)
    /\ fed' = TRUE
    /\ UNCHANGED <<order, cycle, interrupted, toFeed, team, stage, refreshing, results, resultsClosed, collector, mishaps>>

\* The attempt ends, well or not, and is noted under a context of its own: also
\* a module that failed, or was interrupted, goes to the end of the order.
Noted(m) == LET i == CHOOSE i \in DOMAIN order : order[i] = m IN Append(RemoveAt(order, i), m)

Attempt(w) ==
    /\ stage[w] = "syncing"
    /\ \E ok \in BOOLEAN :
          \/ /\ order' = Noted(refreshing[w]) /\ UNCHANGED mishaps
             /\ failed' = IF ok THEN failed ELSE failed \cup {refreshing[w]}
          \/ /\ Mishap
             /\ failed' = failed \cup {refreshing[w]} /\ UNCHANGED order
    /\ stage' = [stage EXCEPT ![w] = "sending"]
    /\ UNCHANGED <<cycle, interrupted, feeder, team, refreshing, results, resultsClosed, batch, attempted, outcome>>

\* The buffer has room for one result of each worker.
SendResult(w) ==
    /\ stage[w] = "sending" /\ Len(results) < Cardinality(team)
    /\ results' = Append(results, refreshing[w]) /\ stage' = [stage EXCEPT ![w] = "receiving"]
    /\ UNCHANGED <<order, cycle, interrupted, feeder, team, refreshing, resultsClosed, collector, mishaps>>

WorkerStops(w) ==
    /\ stage[w] = "receiving" /\ fed
    /\ stage' = [stage EXCEPT ![w] = "stopped"]
    /\ UNCHANGED <<order, cycle, interrupted, feeder, team, refreshing, results, resultsClosed, collector, mishaps>>

\* wg.Wait returned.  (Mutant: the feeder's end is enough.)
TeamFed  == fed
TeamDone == \A w \in team : stage[w] = "stopped"

CloseResults ==
    /\ ~resultsClosed /\ TeamDone
    /\ resultsClosed' = TRUE
    /\ UNCHANGED <<order, cycle, interrupted, feeder, crew, results, collector, mishaps>>

Collect ==
    /\ cycle = "running" /\ results # <<>>
    /\ attempted' = attempted \cup {Head(results)} /\ results' = Tail(results)
    /\ UNCHANGED <<order, cycle, interrupted, feeder, crew, resultsClosed, batch, failed, outcome, mishaps>>

Complete == attempted = batch /\ failed = {}

ReturnCycle ==
    /\ cycle = "running" /\ resultsClosed /\ results = <<>>
    /\ outcome' = IF Complete THEN "nil" ELSE "error"
    /\ cycle' = "idle"
    /\ UNCHANGED <<order, interrupted, feeder, crew, results, resultsClosed,
                   batch, attempted, failed, mishaps>>

PoolNext ==
    \/ StartCycle \/ Interrupt \/ FeederStops \/ CloseResults \/ Collect \/ ReturnCycle
    \/ \E w \in Workers : HandOver(w) \/ Attempt(w) \/ SendResult(w) \/ WorkerStops(w)

\* Goroutines are scheduled and the job comes round again.
PoolFairness ==
    /\ WF_poolVars(StartCycle) /\ WF_poolVars(FeederStops) /\ WF_poolVars(CloseResults)
    /\ WF_poolVars(Collect) /\ WF_poolVars(ReturnCycle)
    /\ WF_poolVars(\E w \in Workers : HandOver(w))
    /\ \A w \in Workers : WF_poolVars(Attempt(w)) /\ WF_poolVars(SendResult(w)) /\ WF_poolVars(WorkerStops(w))

PoolSpec == PoolInit /\ [][PoolNext]_poolVars /\ PoolFairness
-------------------------------------------------------------------------------
PoolTypeOK ==
    /\ ToSet(order) = Modules /\ Len(order) = Cardinality(Modules)
    /\ cycle \in {"idle", "running"} /\ interrupted \in BOOLEAN /\ fed \in BOOLEAN /\ resultsClosed \in BOOLEAN
    /\ stage \in [Workers -> {"stopped", "receiving", "syncing", "sending"}] /\ refreshing \in [Workers -> Modules]
    /\ Len(results) <= Cardinality(Workers)
    /\ batch \subseteq Modules /\ attempted \subseteq batch /\ failed \subseteq batch
    /\ outcome \in {"none", "nil", "error"} /\ mishaps \in 0..MaxMishaps

\* module_service.go:1330: once the cycle has returned nobody works for it any
\* more, no result was left behind, and nil means every module was refreshed.
NothingLeftBehind ==
    cycle = "idle" =>
        /\ \A w \in Workers : stage[w] = "stopped"
        /\ fed /\ resultsClosed /\ results = <<>>
        /\ outcome = "nil" => toFeed = <<>> /\ attempted = batch

\* module_service.go:1327: a module is never refreshed by two workers at once,
\* nor twice in a cycle.
OneAttemptEach ==
    \A w, v \in Workers :
        /\ stage[w] \in {"syncing", "sending"} => refreshing[w] \notin attempted \cup ToSet(toFeed) \cup ToSet(results)
        /\ stage[w] \in {"syncing", "sending"} /\ stage[v] \in {"syncing", "sending"} /\ w # v => refreshing[w] # refreshing[v]

\* A cycle ends, cancelled or not: no worker is left sending to a collector
\* that stopped reading.
CycleReturns == cycle = "running" ~> cycle = "idle"

\* module_service.go:1338: however many modules there are and whichever fail,
\* each is tried again and again, because an attempt counts even when it failed.
EveryModuleTried == \A m \in Modules : []<>(\E w \in Workers : stage[w] = "syncing" /\ refreshing[w] = m)
===============================================================================
