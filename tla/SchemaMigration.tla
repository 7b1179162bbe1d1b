---------------------------- MODULE SchemaMigration ----------------------------
(* How a process opens the database and brings its schema up to date:           *)
(* ensureOperationalTables of PostgreSQL (src/internal/store/postgres.go), one  *)
(* statement or transaction after the other under an advisory lock, and         *)
(* NewSQLiteStore (src/internal/store/sqlite.go), in one transaction.  Any       *)
(* statement may fail, with or without effect, and a process may die anywhere.  *)
(* The advisory lock belongs to the session that runs the statements, so none   *)
(* is run without it.                                                           *)
EXTENDS Integers, FiniteSets

CONSTANTS
    Servers, NoServer,    \* processes that open the database, now and then again
    ReleaseRows, LegacyTokens, \* rows; tokens, records of a team and a secret
    OIDCMappings,
    CurrentVersion,       \* of this program; the next release has one more
    BatchSize,            \* rows whose order key is filled in at a time
    MaxOpenFaults         \* bound on failures and crashes

ASSUME SchemaAssumption ==
    /\ NoServer \notin Servers /\ CurrentVersion \in Nat /\ BatchSize \in Nat \ {0}
    /\ MaxOpenFaults \in Nat

VARIABLES
    dialect,         \* "postgres" or "sqlite"; never changes
    schema,          \* the database
    colliding,       \* two of its rows have one canonical slug; never changes
    pepper,          \* the deployment has the key to hash tokens; never changes
    schemaLock,      \* the session that has the advisory lock
    opening,         \* of a process: its step
    supports,        \* the version it knows
    unkeyed,         \* the rows it read to give them their order keys
    held, granted,   \* history: the tokens and mappings there are
    openFaults

openVars == <<opening, supports, unkeyed>>
schemaVars == <<dialect, schema, colliding, pepper, schemaLock, openVars, held, granted, openFaults>>

OpenSteps == {"down", "lock", "create", "check", "read", "backfill", "slugs", "constraints", "tokens",
          "mappings", "indexes", "version", "unlock", "giveUp", "migrate", "serving"}
-------------------------------------------------------------------------------
\* The parts of the migration, as what each makes of the schema.

\* Columns that came later, with their defaults.
HasColumn(s, column)  == column \in s.columns
WithColumn(s, column) == IF HasColumn(s, column) THEN s ELSE [s EXCEPT !.columns = @ \cup {column}]
WithReleaseMD5(s)      == WithColumn(s, "md5")
WithUpstreamRefresh(s) == WithColumn(s, "upstream_refreshed_at")
WithColumns(s) ==
    WithColumn(WithColumn(WithUpstreamRefresh(WithReleaseMD5(s)), "email_verified"), "version_order")

\* An order key is never empty, so a row that has one is not read again.
WithOrderKey(s, row) == [s EXCEPT !.ordered = @ \cup {row}]
WithOrderKeys(s)     == [s EXCEPT !.ordered = s.rows]

Unordered(s) == s.rows \ s.ordered

\* Unique indexes on the slugs refuse two rows with one slug.
CanSlug(s)    == ~colliding \/ Cardinality(s.rows) < 2
WithSlugs(s)  == [s EXCEPT !.slugged = s.rows]

WithConstraints(s) == [s EXCEPT !.checked = TRUE]

\* Hashes are unique, and there is no hash without the pepper.
CanHash(s) ==
    \/ ~s.legacy \/ s.tokens = {}
    \/ pepper /\ \A t, u \in s.tokens : t.secret = u.secret => t = u
WithHashedTokens(s) == [s EXCEPT !.legacy = FALSE]

\* insert ... on conflict do nothing, into a table with a primary key
WithKeyedMappings(s) ==
    [s EXCEPT !.keyed = TRUE,
              !.mappings = IF s.keyed THEN @ ELSE [m \in OIDCMappings |-> IF @[m] > 0 THEN 1 ELSE 0]]

WithIndexes(s) == [s EXCEPT !.indexed = TRUE]

WithVersion(r, s) == [s EXCEPT !.version = supports[r]]

IsNewer(r) == schema.version > supports[r]
-------------------------------------------------------------------------------
LaterColumns == {"md5", "upstream_refreshed_at", "email_verified", "version_order"}

NewSchema ==
    [version |-> 0, columns |-> LaterColumns, rows |-> {}, ordered |-> {}, slugged |-> {}, checked |-> TRUE,
     legacy |-> FALSE, tokens |-> {}, keyed |-> TRUE, mappings |-> [m \in OIDCMappings |-> 0],
     indexed |-> FALSE]

\* what releases before the schema had a version left behind
OldSchemas ==
    [version : {0}, columns : {{}}, rows : {ReleaseRows}, ordered : {{}}, slugged : {{}}, checked : {FALSE},
     legacy : BOOLEAN, tokens : SUBSET LegacyTokens, keyed : {FALSE}, mappings : {[m \in OIDCMappings |-> 2]},
     indexed : {FALSE}]

SchemaInit ==
    /\ dialect \in {"postgres", "sqlite"} /\ colliding \in BOOLEAN /\ pepper \in BOOLEAN
    /\ schema \in {NewSchema} \cup OldSchemas
    /\ schemaLock = NoServer
    /\ opening = [r \in Servers |-> "down"] /\ unkeyed = [r \in Servers |-> {}]
    /\ supports = [r \in Servers |-> CurrentVersion]
    /\ held = schema.tokens /\ granted = {m \in OIDCMappings : schema.mappings[m] > 0}
    /\ openFaults = 0

\* A process starts.  SQLite has one at a time.
Open(r) ==
    /\ opening[r] = "down"
    /\ dialect = "sqlite" => \A q \in Servers : opening[q] = "down"
    /\ \E v \in {CurrentVersion, CurrentVersion + 1} : supports' = [supports EXCEPT ![r] = v]
    /\ opening' = [opening EXCEPT ![r] = IF dialect = "postgres" THEN "lock" ELSE "create"]
    /\ UNCHANGED <<dialect, schema, colliding, pepper, schemaLock, unkeyed, held, granted, openFaults>>

\* (Mutant: the lock is not waited for.)
NotWaitedFor   == TRUE
SchemaUnlocked == schemaLock = NoServer

LockSchema(r) ==
    /\ opening[r] = "lock" /\ SchemaUnlocked
    /\ schemaLock' = r /\ opening' = [opening EXCEPT ![r] = "create"]
    /\ UNCHANGED <<dialect, schema, colliding, pepper, supports, unkeyed, held, granted, openFaults>>

\* what a process knows goes with it
Goes(r, step) ==
    /\ opening' = [opening EXCEPT ![r] = step]
    /\ supports' = [supports EXCEPT ![r] = IF step = "down" THEN CurrentVersion ELSE @]
GoesTo(r, step) == Goes(r, step) /\ UNCHANGED <<dialect, colliding, pepper, schemaLock, held, granted>>

GivesUp(r) == GoesTo(r, IF dialect = "postgres" THEN "giveUp" ELSE "down")
OpenFault  == openFaults < MaxOpenFaults /\ openFaults' = openFaults + 1

\* A statement or transaction makes the schema what after is, when it can; it may
\* fail, and then it had its effect or had none.
Migrates(r, at, can, after, then) ==
    /\ opening[r] = at
    /\ \/ can  /\ schema' = after /\ GoesTo(r, then) /\ UNCHANGED openFaults
       \/ ~can /\ GivesUp(r) /\ UNCHANGED <<schema, openFaults>>
       \/ OpenFault /\ GivesUp(r) /\ schema' \in {schema} \cup (IF can THEN {after} ELSE {})
    /\ UNCHANGED unkeyed

\* Tables are created when there are none; PostgreSQL adds the later columns with
\* them, also before it knows whether the schema is newer.
CreateTables(r) ==
    /\ dialect = "postgres" /\ Migrates(r, "create", TRUE, WithColumns(schema), "check")

CreateSQLiteTables(r) == dialect = "sqlite" /\ Migrates(r, "create", TRUE, schema, "check")

RejectNewerSchema(r) ==
    Migrates(r, "check", ~IsNewer(r), schema, IF dialect = "postgres" THEN "read" ELSE "migrate")

ReadUnordered(r) ==
    /\ opening[r] = "read"
    /\ \/ Unordered(schema) = {} /\ GoesTo(r, "slugs") /\ UNCHANGED <<unkeyed, openFaults>>
       \/ /\ Unordered(schema) # {}
          /\ \E S \in SUBSET Unordered(schema) :
                /\ Cardinality(S) <= BatchSize
                /\ S # Unordered(schema) => Cardinality(S) = BatchSize
                /\ unkeyed' = [unkeyed EXCEPT ![r] = S]
          /\ GoesTo(r, "backfill") /\ UNCHANGED openFaults
       \/ OpenFault /\ GivesUp(r) /\ UNCHANGED unkeyed
    /\ UNCHANGED schema

\* After a batch it is seen whether there is another.  (Mutant: there is one.)
OneBatch  == "slugs"
NextBatch == "read"

BackfillRow(r) ==
    /\ opening[r] = "backfill"
    /\ \E row \in unkeyed[r] :
          \/ /\ schema' = WithOrderKey(schema, row)
             /\ unkeyed' = [unkeyed EXCEPT ![r] = @ \ {row}]
             /\ GoesTo(r, IF unkeyed[r] = {row} THEN NextBatch ELSE "backfill") /\ UNCHANGED openFaults
          \/ /\ OpenFault /\ GivesUp(r) /\ unkeyed' = [unkeyed EXCEPT ![r] = {}]
             /\ schema' \in {schema, WithOrderKey(schema, row)}

MigrateCanonicalSlugs(r)  == Migrates(r, "slugs", CanSlug(schema), WithSlugs(schema), "constraints")
MigrateDataConstraints(r) == Migrates(r, "constraints", TRUE, WithConstraints(schema), "tokens")
MigrateAccessTokens(r)    == Migrates(r, "tokens", CanHash(schema), WithHashedTokens(schema), "mappings")
MigrateOIDCMappings(r)    == Migrates(r, "mappings", TRUE, WithKeyedMappings(schema), "indexes")
CreateIndexes(r) ==
    Migrates(r, "indexes", TRUE, WithIndexes(schema), IF dialect = "postgres" THEN "version" ELSE "serving")
SetVersion(r)    == Migrates(r, "version", TRUE, WithVersion(r, schema), "unlock")

\* migrateSQLiteSchema: everything but the indexes in one transaction.
MigratedSQLite(r) ==
    WithVersion(r, WithKeyedMappings(WithHashedTokens(WithConstraints(
        WithSlugs(WithOrderKeys(WithColumns(schema)))))))

MigrateSQLite(r) ==
    Migrates(r, "migrate", CanSlug(schema) /\ CanHash(schema), MigratedSQLite(r), "indexes")

\* The deferred unlock, on every way out; when it fails the session is closed,
\* which frees the lock, and the store is not opened.
UnlockSchema(r) ==
    /\ opening[r] \in {"unlock", "giveUp"}
    /\ schemaLock' = NoServer
    /\ \/ Goes(r, IF opening[r] = "unlock" THEN "serving" ELSE "down") /\ UNCHANGED openFaults
       \/ OpenFault /\ Goes(r, "down")
    /\ UNCHANGED <<dialect, schema, colliding, pepper, unkeyed, held, granted>>

\* A process ends or dies; the server frees its session's lock.
CloseOrCrash(r) ==
    /\ opening[r] # "down"
    /\ IF opening[r] = "serving" THEN UNCHANGED openFaults ELSE OpenFault
    /\ Goes(r, "down") /\ unkeyed' = [unkeyed EXCEPT ![r] = {}]
    /\ schemaLock' = IF schemaLock = r THEN NoServer ELSE schemaLock
    /\ UNCHANGED <<dialect, schema, colliding, pepper, held, granted>>

\* Who serves creates releases, with key and slug, and tokens, hashed.
ServerWrites(r) ==
    /\ opening[r] = "serving"
    /\ \/ \E row \in ReleaseRows \ schema.rows :
             /\ CanSlug([schema EXCEPT !.rows = @ \cup {row}])
             /\ schema' = [schema EXCEPT !.rows = @ \cup {row}, !.ordered = @ \cup {row}, !.slugged = @ \cup {row}]
             /\ UNCHANGED held
       \/ \E t \in LegacyTokens \ schema.tokens :
             /\ pepper /\ \A u \in schema.tokens : u.secret # t.secret
             /\ schema' = [schema EXCEPT !.tokens = @ \cup {t}] /\ held' = held \cup {t}
    /\ UNCHANGED <<dialect, colliding, pepper, schemaLock, openVars, granted, openFaults>>

OpenStep(r) ==
    \/ LockSchema(r) \/ CreateTables(r) \/ CreateSQLiteTables(r) \/ RejectNewerSchema(r)
    \/ ReadUnordered(r) \/ BackfillRow(r) \/ MigrateCanonicalSlugs(r) \/ MigrateDataConstraints(r)
    \/ MigrateAccessTokens(r) \/ MigrateOIDCMappings(r) \/ CreateIndexes(r) \/ SetVersion(r)
    \/ MigrateSQLite(r) \/ UnlockSchema(r)

SchemaNext == \E r \in Servers : Open(r) \/ OpenStep(r) \/ CloseOrCrash(r) \/ ServerWrites(r)

\* A process goes on; the server grants the advisory lock in the order of the
\* requests, so a session that waits gets it.
SchemaFairness ==
    \A r \in Servers : WF_schemaVars(OpenStep(r) /\ opening[r] # "lock") /\ SF_schemaVars(LockSchema(r))

SchemaSpec == SchemaInit /\ [][SchemaNext]_schemaVars /\ SchemaFairness
-------------------------------------------------------------------------------
SchemaTypeOK ==
    /\ opening \in [Servers -> OpenSteps] /\ schemaLock \in Servers \cup {NoServer}
    /\ schema.ordered \subseteq schema.rows /\ schema.slugged \subseteq schema.rows
    /\ \A r \in Servers : unkeyed[r] # {} => opening[r] = "backfill"

\* postgres.go:433-503: who serves has every row's order key and slug, the
\* constraints, hashed tokens and keyed mappings, whatever openings failed or died
\* before or go on now; and no opening, finished or not, loses a token or mapping.
SchemaIsWhole ==
    /\ (\E r \in Servers : opening[r] = "serving") =>
          /\ schema.columns = LaterColumns /\ schema.checked /\ schema.indexed
          /\ Unordered(schema) = {} /\ schema.slugged = schema.rows
          /\ ~schema.legacy /\ schema.keyed /\ \A m \in OIDCMappings : schema.mappings[m] < 2
    /\ schema.tokens = held
    /\ {m \in OIDCMappings : schema.mappings[m] > 0} = granted

\* docs/SCHEMA.md:618: the version never falls, whichever releases of the program
\* start one beside the other, and none begins to serve a version it does not know.
NeverDowngraded ==
    [][/\ schema'.version >= schema.version
       /\ \A r \in Servers : opening[r] # "serving" /\ opening'[r] = "serving"
                               => schema'.version = supports[r]]_schemaVars

\* An opening ends, in service or with an error: the loop over the rows ends and
\* the lock comes free.
OpenEnds == \A r \in Servers : opening[r] # "down" ~> opening[r] \in {"down", "serving"}
===============================================================================
