# Specifications of puppet-forge

TLA+ models of the private Puppet Forge in `src/`, model-checked with TLC, and
theorems about them checked with TLAPS. Paths below are relative to
`src/internal` unless they start with `docs/`.

## 1. The system and its parts

puppet-forge is a Go service. Several replicas share one SQL database
(PostgreSQL; SQLite for a single replica) and one object store (S3 or GCS).
They serve the Puppet Forge API and a management UI, publish local modules, and
act as a caching proxy for an upstream Forge.

| Component | State it keeps | Operations | Interacts with | What makes it correct |
|---|---|---|---|---|
| Module service (`service/module_service.go`) | none of its own; rows in SQL, archives in the object store | publish, replace, delete release or module, index, restore and hydrate upstream releases | module lock, SQL store, object store, outbox | a row never names a missing object; replies are true; bytes are immutable; `latest_version` is right |
| Artifact-deletion worker (`service/module_service.go:557`) | `artifact_deletions` (outbox) | list due, recheck under the lock, delete, complete, defer | publish (cancels a deletion), module lock | every superseded object is eventually deleted, never a live one |
| Reconciliation (`service/reconcile.go`) | none | list rows, list objects, report, repair orphans | publish in flight | a repair never deletes what a publish just stored |
| PostgreSQL store (`store/postgres.go`) | all tables, advisory locks | transactions, `LockModule`, leases | everything | atomic row/outbox/tombstone changes |
| SQLite store (`store/sqlite.go`) | the same tables, a map of module semaphores | the same | everything | a semaphore is shared by all its waiters and dropped by the last |
| Object storage (`storage/`) | objects | create-only put, get, idempotent delete, list | publish, cache, worker | immutable keys |
| Upstream artifact cache (`proxy/forge_proxy.go`, `service/upstream_cache.go`) | cached objects, `app_leases`, in-process flights | load, integrity check and repair, prune, checksum | object store, upstream Forge, rows | one fetch per cold object; nothing referenced is pruned |
| Upstream refresh pool (`service/module_service.go:1286`) | worker pool, results channel | refresh the indexed modules | upstream, index | terminates, reports each module once |
| Usage throttle (`service/module_service.go:696`, `throttle/expiry_set.go`) | an expiry set each | mark a release, a consumer used | `release_usage`, `release_consumers`; module delete, retention | one write per interval until the set is full, no failed one lost for long |
| Response cache (`proxy/cache.go`) | LRU with byte budget | get, put, expire | upstream metadata | accounting, no stale answer past its TTL |
| Background jobs (`app/app.go`) | `app_leases`, goroutines | acquire, renew, run, release, shut down | all services | one replica runs a job; shutdown ends |
| Access configuration (`store/access.go`, `auth/`, `httpapi/router_manage_*`) | teams, spaces, tokens; cached authorizer | read, change under lock, reload | sessions, every request | no lost update; revocation takes effect |
| Sessions, OIDC (`webauth/oidc.go`, `httpapi/manage_sessions.go`) | `management_sessions`, login states | begin and finish login, renew, revoke | access configuration | a login state is used once |
| Rate limits (`httpapi/rate_limiter.go`, `store/postgres.go:506`) | windows, buckets | allow | every request | no more than the limit per window |
| Version order (`domain/version.go`, `store/version.go`) | pure | compare, latest, page | catalog, publish | a total preorder; pages cover the list |
| Archive inspection (`service/module_service.go:1506`) | pure | read metadata from a tarball | publish | bounded by its limits (not modelled) |
| Schema set-up (`store/postgres.go:111`, `store/sqlite.go`) | the schema and its version | create, migrate, refuse a newer one | every start of a replica | a served schema is whole; nothing is lost by a migration |
| HTTP authorization (`httpapi/router_manage_*`, `auth/auth.go`) | - | judge a request, change teams, spaces, tokens, releases | access configuration | nobody gives or takes more than he has |
| Other HTTP handling, configuration, metrics, outbound proxy, readiness, command | - | parsing, formatting, wiring | - | not modelled (section 6) |

What is hard in this code is the ordering of calls to stores that fail on their
own: SQL, the object store and the upstream are separate, a call that fails may
have been applied or may be applied later, replicas stop anywhere, the module
lock lives in a database session that can end under its holder, and several
checks are made before the lock or the transaction that relies on them. The
list of these places, each with its line, is "hazards" in `PROJECT.json`.

## 2. Modules

| Module | What it is |
|---|---|
| `ArtifactLifecycle` | The module service's release operations, the deletion worker and the repair, with their failures |
| `ReleaseCatalog` | What those promise together: a catalog of rows over stored bytes |
| `UpstreamArtifactCache` | The cached artifact of one upstream release: load, check, repair, record, prune, under the artifact lease |
| `AccessConfig` | The access configuration: changes under its lock, each replica's authorizer, the check of access tokens |
| `AccessPolicy` | The rights a configuration gives, and the requests that use them |
| `SchemaMigration` | Opening the database: schema creation and migration in both dialects |
| `VersionOrder` | The comparison of versions and the key SQL sorts by, as operators |
| `CatalogPages` | The catalogue read page by page while it changes |
| `BackgroundJobs` | A job of every replica, its application lease, and shutdown |
| `ModuleLocks` | The module lock of the SQLite store |
| `ModuleLockPromise` | What a module lock promises |
| `RefreshPool` | A cycle of the upstream refresh: feeder, workers, collector |
| `UsageThrottle` | The expiry set in front of the usage rows |
| `RequestLimits` | The fixed-window rate limits, in memory and in SQL |
| `ResponseCache` | The cache of upstream JSON responses |
| `Sessions` | Management sessions, the login by token and by the identity provider |
| `ArtifactLifecycleProofs`, `UpstreamArtifactCacheProofs`, `AccessConfigProofs`, `VersionOrderProofs` | The theorems about those modules |
| `VersionsProofs` | The theorems about `CatalogPages`, and about the composition `MCVersions` |
| `RequestTablesProofs` | The theorems about `UsageThrottle`, `RequestLimits` and `ResponseCache` |
| `RequestRightsProofs` | The theorems about `Sessions` and `AccessPolicy` |
| `WorkersProofs` | The theorems about `RefreshPool`, `SchemaMigration`, `ModuleLocks` and `BackgroundJobs` |
| `MCArtifactLifecycle`, `MCUpstreamArtifactCache`, `MCAccessConfig` | Instances of one module for TLC |
| `MCVersions`, `MCRequests`, `MCWorkers` | Instances of several modules, of which `running` chooses one |

A module whose name starts with `MC` combines components only where they share no
state. `running` is chosen by `Init` and never changes; the other components stay in
one initial state, so the state space is the sum of theirs, not the product, and what
is checked is each component alone.

### ArtifactLifecycle

A request or a job is a process `p`; `pc[p]` names the next call that its
handler makes. One SQL transaction, one call to the object store, or taking or
releasing the lock, is one step; every other step of any process may come in
between. One module identity `owner/name` is modelled: the lock, the rows and
the object paths all carry that identity, so modules do not interact.

| In the model | In the code |
|---|---|
| `releases[v]` | the `releases` row: none, an upstream row, or the SHA-256 of a local one. `storage_path` is a function of the version and the hash (`module_service.go:205`), so a path is the pair `<<v, c>>` |
| `moduleRow`, `latest` | the `modules` row and its `latest_version` |
| `fk[p]` | whether the module ID that `p` got from `UpsertModule` still is a row: an insert with a dangling ID fails |
| `queue` | `artifact_deletions` |
| `tombstones` | `deleted_releases` |
| `used` | versions with a `release_usage` mark newer than `ACTIVE_RELEASE_TTL` |
| `objects`, `stragglers` | the object store, and deletes it may still apply after the caller gave up |
| `inDoubt` | a transaction whose COMMIT was sent, whose client has given up and which PostgreSQL has not decided; it holds its row locks |
| `lock` | the advisory lock of the module |
| `job[p]`, `scan[p]`, `batch[p]`, `answer[p]` | the request, the loops' remaining items, the result |
| `committed`, `usedAtLock` | history for the properties only |

The actions follow the handlers: `StartPublish`, `LockModule`, `GetRelease`,
`VerifyRegistered`, `Upload`, `VerifyUpload`, `UpsertModule`, `CreateRelease`,
`ConfirmRelease`, `RemoveUncommitted`, `RemoveEmptyModule` and `Unlock` are
`publish` and its compensation; `GetModule`, `ListReleases`, `CheckActive` and
`Delete` are the delete handlers, with and without the policy; `IndexNext` and
`IndexCreate` are `IndexUpstreamModule`, and `IndexCreate` is also the
restore on demand; `RereadRelease` and `RewriteRelease` are the hydration;
`ListArtifactDeletions`, `NextItem`, `Recheck`, `RemoveSucceeds`, `RemoveFails`
and `CompleteArtifactDeletion` are the worker; `ListArtifactReleases` and
`ListObjects` start the repair, which shares the recheck and the delete.

Failures are enabled by the constant `Faults`:

| Fault | Meaning |
|---|---|
| `lockError` | waiting for the lock ends with an error or a cancellation |
| `sqlError` | an SQL call fails; a write may have been applied |
| `storageError` | an object-store call fails; it may have been applied |
| `crash` | a replica stops at any step; its session and lock go with it |
| `lateCommit` | a COMMIT reported as failed is decided later |
| `lateDelete` | an object delete reported as failed is applied later |
| `lockLoss` | the session of the lock ends while its holder goes on |

Abstractions: a transaction is one atomic step. `createRelease` and `DeleteRelease`
(`store/postgres.go:1605`) find the greatest version by a plain SELECT under READ
COMMITTED and write `latest_version` in a later statement; the module lock keeps other
transactions from coming in between, but a lost lock or a COMMIT decided late does not,
and can leave `latest_version` stale. So nothing is claimed of it under these two faults.
`CatalogPages` takes a creation or a deletion as one step for the same reason. Usage marks
do not expire during a call (`activeSince` is fixed when it starts); `DeferArtifactDeletion` changes only the time of the
next attempt, and the worker may list any subset of the queue; an index visits
each listed version once, in any order; checksum back-filling is not in this
module. Versions are natural numbers in their semver order, contents are model
values.

### ReleaseCatalog

Rows over stored bytes, changed by atomic `Store`, `Register`, `Index`,
`Withdraw` and `Collect`. `ArtifactLifecycle!CatalogSpec` instantiates it with
the rows and the objects; the run `lifecycle` checks that every step of the
handlers, failing ones included, is one of those or a stutter.

### UpstreamArtifactCache

An actor is a task (a request of a client, or the pruner) or the flight of a
replica: `singleflight` keeps at most one call per object path and replica, and
the requests of that replica wait for it. A task and the flight it waits for are
separate actors because the flight survives its requests
(`context.WithoutCancel`).

| In the model | In the code |
|---|---|
| `row` | the upstream `releases` row: its checksum (MD5, SHA-256 and size as one), and whether `storage_path` is the cached object |
| `object`, `old` | the cached object, and whether it is older than the retention of the cache |
| `upstream` | the bytes that the upstream serves for the file |
| `lease` | the row of `app_leases` for the object: its holder until it expires |
| `leased`, `canceled` | the actors that run a renewal goroutine, and those whose lease context it canceled |
| `job`, `retried`, `bytes`, `outcome` | what an actor works on, its second attempt, what it read, what it returns after the deferred release |

`StartEnsure`, `CheckRecorded`, `Materialize`, `Digest`, `Record` and `Return`
are `EnsureReleaseChecksums` and `calculateReleaseChecksums`; `StartDownload` is
`handleArtifactRequest`; `CheckCached`, `Busy`, `Poll`, `Recheck`, `Fetch`,
`Upload` and `CheckPresent` are `loadArtifact`; `Verify`, `Remove`, `Confirm` and
`Discard` are `EnsureArtifactIntegrity`; `StartPrune`, `CheckReference` and
`Prune` are `PruneUpstreamArtifactCache`. Note that `EnsureArtifactIntegrity` uses
the flight key of a plain load, so it may join a load that checks nothing.

| Fault | Meaning |
|---|---|
| `callError` | a call fails or times out, its write applied or not; a client goes away |
| `renewal` | a renewal fails, and cancels the work of the holder |
| `crash` | a replica stops; its lease stays until it expires |
| `pause` | a holder stands still until its lease has expired, and goes on |
| `corruption` | the cache starts with bytes that nobody fetched |
| `upstreamDiffers` | the checksum in the upstream's metadata is not that of its file |

Abstractions: renewals come at a third of the duration, so without `pause` a
lease does not expire while its holder renews it; the module lock around
`UpdateReleaseChecksums` is the atomicity of `Record`; the wait for a lease has a
timeout, so it may end at any time (`WaitEnds`); the cleanup job has a lease of
its own, so one pruner runs; objects do not grow old during a flight (minutes
against days); calls that a canceled holder has sent are applied at once or never.

### AccessConfig

A process is a request: a `bearer` request (`requireReadAccess` and its like), a
`manage` request (`managePrincipal`), or a change, which is a `manage` request that
goes on under the lock. It picks its replica when it starts. A step is one SQL call,
or one use of the replica's mutex or authorizer.

| In the model | In the code |
|---|---|
| `history` | the contents of `access_teams` and its tables, one entry per commit of `ReplaceTeamConfigs`, with the time of the commit; the last one is in SQL |
| `used` | the tokens whose row has a `last_used_at` |
| `lock` | the advisory lock `puppet-forge/access-config` |
| `authorizer[r]` | `Router.authorizer` and `authorizerRefreshed`: the configuration it was built from, by its index, and the time it carries |
| `refreshMu[r]` | `authorizerRefreshMu` |
| `version[p]`, `marks[p]` | what the request got from `LoadTeamConfigs`, or the snapshot that judges it |
| `stamp[p]` | the `now` of `refreshAuthorizer` |

`TryRefresh`, `ForceRefresh`, `LoadTeamConfigs` and `SetAuthorizer` are
`refreshAuthorizer`; `ReadAuthorizer` is the rest of `currentAuthorizer` or of
`managePrincipal`; `CheckActive` is `requireActiveAccessToken` and
`MarkAccessTokenUsed` is `recordAccessTokenUsed`; `Connect`, `LockAccessConfig`,
`ReadConfigs`, `ReplaceTeamConfigs`, `PublishAuthorizer` and `Unlock` are the four
handlers that change the configuration. `LoadAtStart` and `Serve` are the two
places of the start, in `app.NewContext` and `NewRouter`. Faults: `sqlError` (a call
fails; a COMMIT may have been applied) and `crash` (a replica stops, and the lock
goes with its session).

Abstractions: a configuration is the status of its tokens; the other changes
(teams, spaces, OIDC mappings) take the same path with other content. The authors of
changes are administrators in every configuration. The throttle before the use
mark lets it through or not. Tokens do not expire by time, and revoked ones are not
purged (`PurgeAccessTokenHistory` takes no lock, so a change may write purged rows
back until the next purge; they authorize nothing). `StalenessIsBounded` exempts the
snapshot of the start, which is stamped when the router is built, not when it was
loaded. The lock's session does
not end under its holder. Time passes in ticks, and the two constants of the router
(2 s, 30 s) are parameters.

### AccessPolicy

An author is a request of a person or a token holder. `Judge` takes its principal from
the configuration (`newAuthorizer`, and the union of a person's principals); then the
request waits for the lock, others change the configuration, and it carries out its
change, by the rights it had: the handlers read them once (`rights[q]`). The changes
are the handlers of `router_manage_access.go` (`SaveTeam`, `DeleteTeam`,
`SaveGlobalAdmins`, `AssignSpace`, `UnassignSpace`, `CreateTeamToken`,
`RevokeTeamToken`) and those that publish, replace, delete or import. Each is one step,
because the lock around it is the matter of `AccessConfig`. A team's own space carries
the team's name, as in the code. Spelling of names, and which of the four kinds a claim
is, make no difference here; mappings that no form shows are `members`.

### SchemaMigration

A process opens the database as one of two releases of the program (`supports`). In
PostgreSQL each statement or transaction of `ensureOperationalTables` is a step under
the advisory lock `schemaLock`; in SQLite everything is one transaction (`MigrateSQLite`).
A statement fails with or without effect, a process dies anywhere; the database is then
opened again. The schema is what tells its states apart: which columns, constraints and
indexes it has, which rows have an order key (`ordered`, filled in by batches) and a
canonical slug, whether tokens are still in plain text, the version. `colliding` and
`pepper` are the data and the setting on which a migration is refused. A server that
serves writes rows meanwhile (`ServerWrites`). Releases of the program before
the version number existed are among `OldSchemas`.

### VersionOrder and CatalogPages

`VersionLess` is `domain.CompareVersions` and `OrderKey` the text of
`releaseVersionOrder`, with texts as sequences of character codes: the two orders have
to agree, and they disagree easily (`rc.2` and `rc.10`, `rc-1`, build metadata, texts
that are no version). A length field of the key (ten digits) is one number.
`ParsedVersion` is what may come: three numbers and identifiers over the characters of
semantic versions, or any other text, of any length. `CatalogPages`
walks along the `next` links of `/v3/releases` and `/v3/modules`: `Count`,
`ListReleasesPage` or `ListModulesPage`, then `ListReleasesForModules` or
`GetStoredRelease`, each a statement of its own, between creations, replacements and
deletions. `OrderedRows` and `OrderedModules` are SQL's ORDER BY: at place `i` is the row
with `i - 1` rows before it. `walk` holds the client's place, what it got, and what it lived through
(`created`, `deleted`, `moved`, `torn`), which the property needs to say what a change
excuses.

### BackgroundJobs

One job (`job`: retention, artifact deletion or upstream refresh, which differ in where
the context starts and in their delays) runs in every replica. `task[r]` is what the
goroutine does: `WakeUp`, `AcquireLease`, `StartRun`, `FinishRun`, `LeaveLoop`,
`ReleaseLease`; `Close`, `CloseStore` and `Exit` are `App.Close`. `leaseHolder` and
`leaseLeft` are the row of `app_leases`; time is discrete and every clock is a time
left, or a time since the last call began, so it needs no bound. A statement whose caller
gave up may reach the database later (`late`). A call goes on for at most `Slack` after its
context is done; `MayWait` says how long a goroutine may stay at a step, which is what
a context promises. A restarted replica has another holder name and counts as another replica.
What a job does is not part of this module.

### ModuleLocks and ModuleLockPromise

Callers of one module. `Enter` finds or makes the map's entry and counts the reference,
under `moduleLocksMu`; `Select` takes the token from the channel or joins its line;
`StopWaiting` is a cancelled context; `Unlock` gives the token back, to the first in the
line; `ReleaseReference` drops the entry with its last reference. Entries are
objects, made anew when the map has none. `ModuleLockPromise` is what a lock
is: acquire, release, pass. Its instance has the callers in `"holding"` for its holders.

### RefreshPool

`StartCycle` lists the modules whose attempt is oldest; `HandOver` is the unbuffered
channel to the workers; `Attempt` refreshes, then marks the attempt, well or not; `SendResult` puts the
result in the buffered channel; `CloseResults` is the goroutine behind `WaitGroup.Wait`;
`Collect` reads until the channel is closed; `Interrupt` is the end of the context.
`order` carries the attempts on to later cycles. What a refresh does to the rows is
`IndexNext` of `ArtifactLifecycle`.

### UsageThrottle, RequestLimits, ResponseCache

All three are tables in memory with a capacity, whose callers read the clock before
they get the mutex. In `UsageThrottle` a download is `Record`ed in the expiry set with
the time it read, then writes its row (`WriteRow`, `WriteRowFails`), and a failure is
forgotten (`Forget`). `MarkReleaseUsed` and `MarkReleaseConsumerUsed` have a set and a
table each; `table` is the one that a behaviour is about. Their statements differ:
`release_usage` takes the time of the database, `release_consumers` the greatest time
that a request has read. Of a row only its last time is kept; one clock serves the replica
and the database, and a statement takes effect at the time it writes. Rows are deleted by
age (`PruneRows`) and, those of `release_usage`, with their module (`DeleteUsage`,
`store/postgres.go:1520`), which no expiry set is told; `swept` is a history of it that no
step reads. `RequestLimits` has the in-memory limiter (`Allow`, with its
eviction) and the shared rows (`Consume`, `Purge`), one or the other in a
behaviour; `admitted` counts what was let in during the last window. In `ResponseCache` a
handler's `Hit`, `Miss`, `DeleteExpired`, `GetStale`, `Fetched` or `FetchFails`, `Store`
and `Evict` are separate sections under the cache's lock; an entry keeps the age its
response already had, because the client is told it. Eviction order is by any
choice among the entries that are not fresher (`Survivors`).

### Sessions

One browser with overlapping requests. `jar` holds its cookies; a request carries those of its
start (`visit[v].jar`), and an answer that arrives late overwrites newer ones. The
handlers are `login` (`CreateOIDCState`), `callback` (`ConsumeOIDCState`,
`CreateOIDCSession`), `tokenLogin`, `view`, `submit` and both logouts;
`EnsureManageCSRFToken` and `RequireManageCSRF` are the secret of a form. `Expire` and
`RevokeToken` are the environment's. Identity provider, signatures and
cookie encoding are external: a code or a token is accepted or not.

## 3. Runs

Two processes and two archives are enough for each race listed under hazards:
every one is between one handler and one other actor, over the object of one
version and at most the object that supersedes it. Actions of the environment
(marks, purges, undecided transactions, straggling deletes) add to the two
processes. Processes and archives are interchangeable, so the safety runs use
their symmetry. Two versions are used where the greatest one matters. The clock of
`AccessConfig` is bounded by `MaxTime`; every other variable is finite by itself
(each token is created and revoked once, which bounds `history`).

| Run | What it asks | Bounds |
|---|---|---|
| `lifecycle` | types, `NoDanglingRelease`, `SupersededArtifactStaysQueued`, `AcknowledgedReleaseIsStored`, `CompensationLeavesNothing`, `HydrationKeepsRows` and the catalog, with every operation and every final failure | 1 version, 2 archives |
| `versions` | `LatestIsGreatest`, the delete policy, tombstones; whole walks through the pages; one fetch in spite of errors | 2 versions, 1 archive, crashes; 6 versions of 2 modules, pages of 1 and 2, 3 changes; 2 replicas, 2 tasks, 1 content, call errors |
| `late_faults` | `OnlyReplacementChangesBytes`, with a lost lock and a late commit | 1 version, 2 archives; publish, restore, delete |
| `live` | `QueueDrains`, `EveryCallFinishes`; nothing is forgotten although a delete is applied late (`NothingForgottenThoughLate`) | 1 version, 1 archive, SQL and storage errors, late deletes |
| `cache_mismatch` | checksums, stored bytes and pruning | 2 replicas, 2 tasks, 2 contents; corruption, differing metadata, failed renewals, crashes |
| `cache_live` | `EveryActorReturns` | 1 replica, 1 task, 2 contents; every fault |
| `access` | `NoLostUpdate`, `RevocationIsImmediate`, `ManagementIsCurrent`, `StalenessIsBounded` | 2 replicas, 2 requests, 2 tokens, 2 instants; bearer, manage, revoke; SQL errors |
| `access_live` | `EveryRequestReturns` | 1 replica, 2 changes, 1 connection in each pool; SQL errors, crashes |
| `requests` | `PassedOverOnlyIfNoted`, `TwiceTheLimit`, `TablesBounded`, `AnswersInTime`, `StateOpensOneSession`, `OnlyLiveSessionsAct`, `NobodyReachesBeyond` | 2 concurrent requests at each table |
| `workers` | `OneCleaner`, `LeaseOnlyGivenBack`, `StoreOutlivesWorkers`, `CyclesAreWhole`, the lock's promise, `SchemaIsWhole`, `NeverDowngraded`, and that everybody goes on | 2 replicas, 1 fault; 3 callers, 2 entries; 3 modules, 2 workers, batches of 2, 1 mishap; 2 openings, 2 rows in batches of 1, 2 legacy tokens, 1 fault |
| `find_*` | see section 5 | |

In the cache, two replicas make two flights, and with two tasks every pair of
operations meets: a request with a request, or with the pruner. `OneFetch` needs
metadata that matches its file, so the run that checks it has one content (`versions`, as
`OneFetchDespiteErrors`): a load that waits for the lease goes on without one when the object appears (`forge_proxy.go:926`), and if the
holder then finds that the object does not match its release and deletes it, that load
fetches while the next holder may fetch too. `docs/SCHEMA.md:683` promises one fetch
without that exception.
`RecordedBytesAreStored` and `PruneSparesReferenced` rest on the lease, so a holder
that outlives it is left out of their run; `cache_live` has it. There a single task is
enough: a call error takes a client away from its flight, so the task that it starts next
meets the flight, as a request of another client would.

The tables of `requests` are at their limits with the fewest entries at which an
eviction has a choice (capacity 1 for two keys, 2 entries or 3 bytes for three keys of
up to 4 bytes). The limiter's window is 3 and a request may take 1 from the clock to its
count, so two requests can be counted in the wrong order across a reset. Two sessions and
one login state make a login that replaces another, and two callbacks for one state.
Two teams, an extra space and two claims make somebody who is judged in one team
while another administrator gives that team away. In `workers`, three callers are the
fewest with one that enters an entry while another leaves it and a third waits; three
modules in batches of two let a module be left out of a cycle. A job's delays are 1,
after success and failure, so two replicas fall into step and out of it. The database is
opened with `CurrentVersion` 7 and by its next release; two rows in batches of one make
the loop over rows without a key go round, and die in between.

The faults `lateCommit`, `lateDelete` and `lockLoss` break `NoDanglingRelease`
(one of them in section 5), so the runs that check it leave them out; what holds in spite of
them is in `late_faults` and `live`.

Fairness (`FairSpec`, run `live`). A handler in progress goes on (`WF` on its
steps). `pg_advisory_lock` serves its waiters in the order of their arrival, so a
waiter that keeps waiting gets the lock (`SF` on `LockModule`). The cleanup job
runs periodically on a replica that holds its lease (`app/app.go:541`) and lists
due rows by their next attempt, so each row is listed again and again, and SQL
and storage do not fail at every attempt (`SF` on listing an item and on each of
its three calls succeeding). Nobody has to start a request, and no failure has to
stop.

Fairness of the cache (run `cache_live`): tasks and flights in progress go on, a
canceled holder's calls fail (`WF`), and a wait for the lease ends with the lease
or with the timeout (`SF`: the lease may be taken and released meanwhile). Nothing
is assumed of calls succeeding.

Access. Two requests are a change and whoever it races with: another change, a
refresh, a bearer request. `MaxStale` is 0 and `MaxTime` 1, so a snapshot can be both
fresh and too old; with `RefreshTTL` 1 a bearer request may refresh or skip it. In
`access_live`, pools of one connection make the second change wait. Its fairness: a
request that can go on again and again goes on (`SF`), because `sync.Mutex`,
`pg_advisory_lock` and `pgxpool` serve their waiters in turn; no call has to succeed.

Fairness of `workers`: an opening of the database goes on (`WF`), and gets the advisory
lock it keeps waiting for (`SF`, a queue); goroutines are scheduled and time
passes (`WF` on the steps of a job's goroutine, of `Close` and of the clock), nothing
obliges a crash, a signal or a late statement to come; a caller of the lock that
can go on does, and the line of a Go channel is in the model, so `WF` is enough; feeder,
workers and collector go on, since each refresh has a timeout, and a next cycle starts.
`EverybodyGoesOn` is the conjunction of what the components promise: `WorkGoesOn`,
`WaitEnds`, `CycleReturns`, `EveryModuleTried` and `OpenEnds`.

## 4. Theorems

`ArtifactLifecycleProofs` proves, for every finite set of versions and every set
of processes and archives:

| Theorem | Statement | Assumes |
|---|---|---|
| `TypeCorrect` | `Spec => []TypeOK` | - |
| `LatestIsRight` | `Spec => []LatestIsGreatest` | the lock holds |
| `BytesAreImmutable` | `Spec => OnlyReplacementChangesBytes` | only with hydrations: the lock holds |
| `NoArtifactIsForgotten` | `Spec => []SupersededArtifactStaysQueued` | the lock holds |
| `CompensationIsComplete` | `Spec => []CompensationLeavesNothing` | the lock holds |
| `LateDeletesForgetNothing` | `Spec => []NothingForgottenThoughLate` | the lock holds |
| `MutualExclusion` | `Spec => []OneWriter` | the lock holds |
| `HydrationIsHarmless` | `Spec => HydrationKeepsRows` | the lock holds |
| `UnforcedDeletesAreSafe` | `Spec => UnforcedDeleteSparesLatestAndUsed` | the lock holds |
| `TombstonesStand` | `Spec => DeletedUpstreamStaysDeleted` | the lock holds |
| `NoReleaseDangles` | `Spec => []NoDanglingRelease` | failures are final |
| `PublishOutcomeIsTrue` | `Spec => []AcknowledgedReleaseIsStored` | failures are final |
| `HandlersImplementCatalog` | `Spec => CatalogSpec` | failures are final |

"The lock holds" is `LockHolds`: `Faults` has neither `lateCommit` nor `lockLoss`.
"Failures are final" is `FailuresAreFinal`: nor has it `lateDelete`. `find_late_commit`
shows that this is needed.

The argument has four layers.

- `TypeInv` adds to the types that a process is at a step of its own operation and its
  job has the fields that step reads (`JobFits`): `CommitRelease(job[p])` has a type only
  if the job names a version and an archive. `TypeInvInductive` holds under every fault.
- `RowsInv` is what every transaction leaves behind, taken as one step:
  `latest_version` is the greatest version that has a row, a module ID that a process
  holds is a row, and so is the one that a COMMIT in doubt names. It gives
  `LatestIsRight`; the last two parts say that a create, decided at once or later,
  finds the module row whose `latest_version` it sets. The proof needs no more of the lock
  than the atomic step does; that the code's transaction is such a step needs it, and so the
  theorem assumes it.
- `ArtifactInv` is the inductive invariant of the serialized system: the lock is held by
  exactly the process at a step under it (`LockInv`), and that process's earlier calls
  have established what its later ones need (`StepInv`): from the moment a publish found
  no row until it writes one the path has no row; a worker about to delete found no row; a
  worker about to complete leaves no unreferenced object. Since the lock excludes others,
  steps of processes outside disturb none of it. `NoDanglingRelease` alone is not
  inductive: a worker at `remove` would delete the object of a row. An object delete that
  lands late breaks what a publish knows of its upload, not that each committed object
  is named by a row or queued (`CommittedIsQueued`); so the invariant says what is in the
  store only if `DeletesAreFinal`.
- `CheckInv` says that what a check under the lock found still holds at the transaction it
  guards: the policy of a delete, with `scan` as what it has not looked at yet, and the
  tombstone of a version to index. It gives `UnforcedDeletesAreSafe` and
  `TombstonesStand`; a version that a download marks after the lock was taken is not
  excluded, as section 5 says.

The `Suffices` lemmas reduce a step to what it changes; there is one lemma per group of
handlers. `BytesAreImmutable` uses only types: `createRelease` is create-only unless it
replaces, so the lock is not needed; a hydration overwrites, and needs it.
`HandlersImplementCatalog` maps rows and objects to the catalog: the initial states agree,
and each step of a handler, failing ones included, is `Store`, `Register`, `Index`,
`Withdraw`, `Collect` or a stutter.

`UpstreamArtifactCacheProofs` proves, for all sets of replicas, tasks and contents
and every placement of tasks on replicas:

| Theorem | Statement | Assumes |
|---|---|---|
| `TypeCorrect` | `Spec => []TypeOK` | - |
| `KnownChecksumsStay` | `Spec => KnownChecksumsAreKept` | - |
| `RecordedBytesStored` | `Spec => RecordedBytesAreStored` | `NoPause` |
| `PruneIsHarmless` | `Spec => PruneSparesReferenced` | `NoPause` |
| `FetchedOnce` | `Spec => []OneFetch` | `NoPause`, `FilesMatch` |

`TypeInv` says that an actor is at a step of its own operation and that what it is
about to record agrees with the checksum of its snapshot; with `SameArtifact` that
gives the second theorem without the lease. `LeaseInv` says that every actor that
works on the object holds the lease, except a load, and that what a holder has read
stays true until it acts on it; it needs `NoPause`, that no holder outlives its
lease. A load without the lease is harmless to it because a create-only upload
changes nothing while there is an object. `FetchInv` is about that load. Where the cache
and the metadata hold what the upstream serves (`FilesMatch`), no repair removes the object
that it saw, and the pruner is only after an old one, which no object becomes while a flight
is under way. So whoever fetches holds the lease, and `OneFetch` follows for every
placement of tasks and all other faults; the run `versions` has it as `OneFetchDespiteErrors`.

`AccessConfigProofs` proves, for all sets of replicas, requests and tokens, every
pool size, refresh interval and retention, and every fault of the module:

| Theorem | Statement | Invariants it rests on |
|---|---|---|
| `TypeCorrect` | `Spec => []TypeOK` | `TypeInv` |
| `NoUpdateIsLost` | `Spec => NoLostUpdate` | `ChangeInv` |
| `ManagementStaysCurrent` | `Spec => []ManagementIsCurrent` | `ChangeInv`, `RefreshInv` |
| `RevocationTakesEffect` | `Spec => []RevocationIsImmediate` | `RefreshInv`, `ActiveInv` |
| `StalenessStaysBounded` | `Spec => StalenessIsBounded` | `ChangeInv`, `StartInv`, `FreshInv` |

`TypeInv` says that the request at a step under the lock is the one that holds it. So
nobody commits between the read and the write of a change, and what it has read is the
latest configuration (`ChangeInv`). A refresh sets what it loaded although a change
may have published since; `RefreshInv` says why no management request is judged by a
configuration older than itself: it has waited for the mutex, so every refresh still
under way on its replica began to load after it began. `FreshInv` says that a snapshot was in
force at the time it carries, because that is the time before its load.

`WorkersProofs` proves of the SQLite module lock, for every finite set of callers and every
set of entries, and of the background jobs, for every set of replicas, every interval,
timeout, slack below the timeout, shutdown deadline and number of faults:

| Theorem | Statement |
|---|---|
| `LocksTypeCorrect` | `LocksSpec \/ Spec => []LocksTypeOK` |
| `OneLock` | `LocksSpec \/ Spec => [](MutualExclusion /\ EntryShared)` |
| `PromiseIsKept` | `LocksSpec \/ Spec => LockKeepsPromise`: the SQLite lock implements `ModuleLockPromise` |
| `JobsTypeCorrect` | `JobsSpec \/ Spec => []JobsTypeOK` |
| `OneCleanerAtATime` | `JobsSpec \/ Spec => []OneCleaner` |
| `StoreIsClosedLast` | `JobsSpec \/ Spec => []StoreOutlivesWorkers` |
| `LeasesAreGivenBack` | `JobsSpec \/ Spec => LeaseOnlyGivenBack` |

They hold of the component alone (`LocksSpec`, `JobsSpec`) and of the composition that the
run `workers` checks (`Spec` of `MCWorkers`), each of whose steps is a step of one component
or leaves it alone.

`LocksInv` has four parts. `Shared`: whoever is past `Enter` has the map's entry in
hand, and an entry's references are as many as the callers that have it. `OneToken`:
the token is in the channel exactly when nobody holds the lock. `Lined`: only waiting
callers stand in the line, each once. Mutual exclusion needs all of them: were the
entry dropped while somebody waits, the next caller would make a second token. Counting
references uses the library's facts about cardinality, hence the finite callers.
The lock that `ArtifactLifecycle` assumes (`MutualExclusion` there) is the one
promised here.

`OneCleaner` is not inductive: that another replica cannot take the lease of a running
cleanup depends on time. `CallsEnd` says that a call ends within the timeout and the
slack; `Leased`, that whoever runs has the row, and that the time left on it and the
time since its acquisition began make up the whole lease. As a lease is twice the
timeout and the slack is less than it, the lease is never over while a cleanup runs.
The upstream refresh starts its context only with the reply, and neither fact holds of it.

It also proves, for every finite nonempty set of modules and workers and every batch
limit, and for every set of processes and rows, batch size and number of faults:

| Theorem | Statement | Invariant it rests on |
|---|---|---|
| `CyclesLeaveNothing` | `Spec => []CyclesAreWhole` | `PoolInv` |
| `ServersHaveWholeSchemas` | `Spec => []SchemaIsWhole` | `SchemaInv` |
| `VersionsNeverFall` | `Spec => NeverDowngraded` | `SchemaInv` |

`PoolInv`: a module of the cycle is in one place, with the feeder, a worker, the
results, or attempted (`EachOnce`), and the parts of the pool stop in order: feeder, workers,
the channel of the results, the collector (`StopsInOrder`). `SchemaInv` says which parts of the
migration are behind a process at each of its steps, so that they hold of the schema, whatever
others have done since (`Reached`): every part only improves a schema (`Migrated`), servers that
write rows give them their keys, and only who has the lock migrates (`OneMigrates`). That the
version never falls needs the last: the check for a newer version comes before the writes.

`RequestTablesProofs` proves, for every set of requests, clients, keys and sizes, every
limit, window, interval and capacity:

| Theorem | Statement | Invariant it rests on |
|---|---|---|
| `FailedWritesAreRetried` | `Spec => []PassedOverOnlyIfNoted` | `ThrottleInv` |
| `LimitHolds` | `Spec => []TwiceTheLimit` | `LimitsInv` |
| `MemoryIsBounded` | `Spec => []TablesBounded` | all three |
| `AgesAreTrue` | `Spec => []AnswersInTime` | `CacheInv` |

`PassedOverOnlyIfNoted` names the two things that take a row from under its key: its age, and
for `release_usage` a delete of the module. The second one means that the downloads of a version
published again within the interval are passed over without a row, until the key expires.
`Noted` says of a recorded key that a request is writing its row or about to forget it, or
the row was written within the interval, unless one of the two has taken it; a request that read the clock early
may record late, so the times of both are in it. `TwoWindows` says what a bucket tells of the
admissions behind it: no more than its count are from its window, and no more than the limit
from before. `TwiceTheLimit` alone does not say which of the
admissions leave the history when time passes. The bounds need that a full
table has an entry to evict, the first in the order of its heap (`HeapHasTop`, from the
well-foundedness of finite subsets). `BytesKept` counts the bytes of the cache as a set
(`Contents`), so that what an eviction, a replacement or an expiry takes away is a difference
of cardinalities; a handler over the limits is on its way to evict (`WithinLimits`).

`RequestRightsProofs` proves, for every set of requests, sessions, login states, teams,
spaces, claims and initial configurations:

| Theorem | Statement | Invariants it rests on |
|---|---|---|
| `LoginsOpenOneSession` | `Spec => []StateOpensOneSession` | `SessionTypes`, `OneLogin` |
| `ChangesNeedLiveSessions` | `Spec => []OnlyLiveSessionsAct` | `SessionTypes`, `CookieInv` |
| `NobodyGainsBeyond` | `Spec => NobodyReachesBeyond` | `PolicyTypes` |

`OneLogin` ties a consumed state to the one request that exchanges its code, or to the one session
it opened. `CookieInv` says that cookies name sessions that were made, that a
browser without overlapping logins has the cookies of one kind of session, and what a
request that has passed a check knows of its session (`Judged`). `NobodyGainsBeyond` follows
change by change. `SameBut` says that a new configuration differs in a set of teams only,
`OwnTeamsOnly` that then everybody's rights differ in what those teams give; the
assumptions on the constants are that configurations are well formed (`AreConfigs`) and
that no team has the reserved name of the global administrators (`auth.go:314`).

`VersionOrderProofs` proves, for versions of any length:

| Theorem | Statement |
|---|---|
| `KeysSortVersions` | `VersionLess(v, w) <=> TextLess(OrderKey(v), OrderKey(w))`, and keys are equal exactly when neither version is less |
| `VersionsAreOrdered` | `VersionLess` is irreflexive and transitive, also through equivalent versions |

Two texts diverge (`Diverge`) when both go on and differ there, so that nothing that follows
matters. The keys of two numbers, and of two identifiers, are the same or diverge the way the
two compare: a number begins with its length, and the `!` behind an identifier is below all its
characters. So the keys of two prereleases, put together, compare as the first identifiers in
which they differ, or as their lengths. `FlattenSeq` puts any number of texts together; the
library's induction over it is out of reach (an operator parameter), so `Gathers` says what
its partial results are, and what holds of all of them is proved by the smallest counterexample
(`Smallest`, from the well-foundedness of the natural numbers).

`VersionsProofs` proves, for all modules, versions, walks and numbers of changes:

| Theorem | Statement |
|---|---|
| `CatalogInvariant` | `CatalogPagesSpec => []CatalogInv` |
| `WalksBringAll` | `CatalogPagesSpec \/ VersionsSpec => []WalksAreWhole` |
| `ImplementsComponents` | `VersionsSpec => Spec /\ CatalogPagesSpec` |
| `ImplementsArtifactCache` | `VersionsSpec => Artifact!Spec` |
| `OneColdFetch` | `VersionsSpec => []OneFetchDespiteErrors` |

`WalksAreWhole` speaks of a walk that has ended; `CatalogInv` of one under way. Its parts:
the types (`RowTypes`, `WalkTypes`); that `latest_version` is the greatest of a module's
versions (`LatestStands`); and what the pages read so far are. A row's place is the number
of rows before it (`RowPlace`). A creation only raises places and a deletion only lowers
them, so `ReleasesInv` has a part for each: without deletions, what stayed is in what the
walk got or at a place not below the offset, so nothing is missed; without creations, what
it got and still stands is at a place below the offset, so nothing comes twice; and without
either, the `i`-th row got is at place `i - 1`. `ModulesInv` says the same of the modules
brought and those of the page at hand, while nothing moves, and that a latest version read
from a row is found again unless a release was deleted. That each place has one
row is `PlacesAreTaken`: counting what goes before is an injection of a finite set into as many
numbers, so it is a surjection. The order is strict because of `KeysSortVersions`, and
because identifiers differ; that the latest version leads follows from
`VersionsAreOrdered`. The constants are assumed as in the code (`CatalogAssumption`): a page
has a positive limit, and releases of different modules have different identifiers. For a
walk of the composition, the rows, the artifact and the handlers of a module are each
implemented as specified. `OneColdFetch` is `FetchedOnce` for its two replicas and faults.

Only model-checked: liveness (`EveryActorReturns`, `QueueDrains`, `EveryCallFinishes`,
`EveryRequestReturns`, `EverybodyGoesOn`), which is out of the prover's reach together with
`ENABLED`. Every other property of a passing run is stated by a theorem. The two `find_*` runs
are violations.

## 5. Where the documents promise more

Two runs end in a violation of what the documents say; each is a behaviour of
the code under a failure or an ordinary race.

- `find_late_commit`: `docs/ARCHITECTURE.md:74` keeps the object when the commit
  status cannot be verified. A confirming read that finds no row counts as
  verified, but the transaction may still be running; its row is then committed
  without its object. The other two faults that are left out of `lifecycle` end the
  same way when they are given to this configuration with the worker's operation:
  a storage delete that timed out is applied after the path was published again
  (`docs/ARCHITECTURE.md:129`), or the session of the lock ends under the worker
  (`docs/SCHEMA.md:475`).
- `find_last_use`: `docs/SCHEMA.md:638` says that SQL rejects stale movement of the
  time of a token's last use. `MarkAccessTokenUsed` does, but a change writes back the
  times it has read: a use recorded between its read and its commit is undone.

Two more are stated without a run: one fetch (section 3), and
`docs/DEPLOYMENT.md:97`, that deletion protects active versions. A download that marks
the version between the check and the transaction is not seen; what does hold is
`UnforcedDeleteSparesLatestAndUsed`: a version in use when the delete took the lock is spared.

## 6. Not modelled, and what is left

Not modelled:

- Archive inspection, request parsing, pages and response formats, and configuration:
  sequential code over one input, without state that outlives it. Their limits are
  ordinary cases for unit tests.
- The readiness probe, metrics and traces, the outbound proxy and the command: nothing
  that the modelled components read depends on them.
- The release and access transactions of the SQLite store are modelled from the
  PostgreSQL store. They differ in that SQLite admits one writer at a time.
- The mutation audit: its row is written in the transaction of its change.
- Of the object-store drivers, signing, multipart uploads and paging of listings.
- Of the reconciliation, the report of missing and corrupt artifacts and its limits.

Left to do, the most important first:

1. The order of the deletion queue (`next_attempt_at`) and the limits of the
   reconciliation's report.
2. The SQLite transactions as a model of their own, for the one-writer rule.
