----------------------------- MODULE CatalogPages -----------------------------
(* The catalogue of all modules as clients read it page by page (/v3/modules    *)
(* and /v3/releases), while releases are published and deleted.  A page takes   *)
(* several SQL statements, one after the other and without a transaction around *)
(* them; a client follows the "next" links from the first page to the last.     *)
EXTENDS VersionOrder, FiniteSets

CONSTANTS
    Catalogued,    \* modules, numbered in the order of their names
    Versions,      \* a sequence of versions; a version is its place in it
    Offered,       \* of a module: the versions that it may have
    Walks,         \* the walks that a client may take
    MaxWrites      \* bound on the changes

NoVersion == 0
Walk == [kind : {"releases", "modules"}, of : SUBSET Catalogued, first : SUBSET Catalogued, limit : Nat \ {0}]

ASSUME CatalogAssumption ==
    /\ Catalogued \subseteq Nat /\ Walks \subseteq Walk /\ MaxWrites \in Nat
    /\ Versions \in Seq(ParsedVersion)
    /\ \A m, n \in Catalogued : /\ Offered[m] \subseteq DOMAIN Versions
                                /\ m # n => Offered[m] \cap Offered[n] = {}

VARIABLES
    rows,          \* of releases: module, version and creation time
    newest,        \* of a module: its latest_version
    touched,       \* of a module: its updated_at
    walk,          \* the client's way through the pages, and the page in the making
    clock, writes

catalogVars == <<rows, newest, touched, walk, clock, writes>>
-------------------------------------------------------------------------------
(* Changes: each is one transaction *)

\* The comparisons of all versions
Less  == {p \in (DOMAIN Versions) \X (DOMAIN Versions) : VersionLess(Versions[p[1]], Versions[p[2]])}
KeyOf == [v \in DOMAIN Versions |-> OrderKey(Versions[v])]
KeyLess == {p \in (DOMAIN Versions) \X (DOMAIN Versions) : TextLess(KeyOf[p[1]], KeyOf[p[2]])}

\* What a walk under way has lived through is remembered for its result.
NoWalk == [kind |-> "none", phase |-> "idle", of |-> {}, first |-> {}, limit |-> 1, offset |-> 0,
           total |-> 0, page |-> <<>>, listed |-> {}, got |-> <<>>,
           stays |-> {}, created |-> FALSE, deleted |-> FALSE, moved |-> FALSE, torn |-> FALSE]
Disturbed(w) == IF walk = NoWalk THEN NoWalk ELSE w

RowsOf(m) == {r \in rows : r.module = m}
Touch(m, now) ==
    /\ writes < MaxWrites /\ writes' = writes + 1
    /\ now \in {clock, clock + 1} /\ clock' = now
    /\ touched' = [touched EXCEPT ![m] = now]

\* latestVersionWithCandidate
LatestOf(current, v) == IF current = NoVersion \/ <<current, v>> \in Less THEN v ELSE current

InsertRow(m, v, now) ==
    /\ \A r \in RowsOf(m) : r.version # v
    /\ rows' = rows \cup {[module |-> m, version |-> v, created |-> now]}
    /\ newest' = [newest EXCEPT ![m] = LatestOf(@, v)]
    /\ walk' = Disturbed([walk EXCEPT !.created = TRUE, !.moved = TRUE, !.torn = TRUE])
    /\ Touch(m, now)

\* ON CONFLICT DO UPDATE: identity and creation time stay.
ReplaceRow(r, now) ==
    /\ newest' = [newest EXCEPT ![r.module] = LatestOf(@, r.version)]
    /\ walk' = Disturbed([walk EXCEPT !.moved = TRUE])
    /\ Touch(r.module, now)
    /\ UNCHANGED rows

\* The latest version is found again among the rows left, in any order of them;
\* the module goes with its last release.
Recomputed(left) ==
    IF left = {} THEN {NoVersion}
    ELSE {v \in {r.version : r \in left} : \A r \in left : <<v, r.version>> \notin Less}

DeleteRow(r, now) ==
    /\ rows' = rows \ {r}
    /\ \E v \in Recomputed(RowsOf(r.module) \ {r}) : newest' = [newest EXCEPT ![r.module] = v]
    /\ walk' = Disturbed([walk EXCEPT !.deleted = TRUE, !.moved = TRUE, !.stays = @ \ {r}])
    /\ Touch(r.module, now)
-------------------------------------------------------------------------------
(* Reads *)

\* order by version_order desc, created_at desc, id.  Identifiers are drawn at
\* random; here a release has the number of its version, whenever it is created.
RowBefore(r, s) ==
    \/ <<s.version, r.version>> \in KeyLess
    \/ KeyOf[r.version] = KeyOf[s.version] /\ r.created > s.created
    \/ KeyOf[r.version] = KeyOf[s.version] /\ r.created = s.created /\ r.version < s.version

\* order by the priority of owners, updated_at desc, owner, name
ModuleBefore(m, n) ==
    LET rank(x) == IF x \in walk.first THEN 0 ELSE 1
    IN  \/ rank(m) < rank(n)
        \/ rank(m) = rank(n) /\ touched[m] > touched[n]
        \/ rank(m) = rank(n) /\ touched[m] = touched[n] /\ m < n

SelectedRows    == {r \in rows : r.module \in walk.of}
SelectedModules == {m \in walk.of : RowsOf(m) # {}}
RowsBefore(r)    == {s \in SelectedRows : RowBefore(s, r)}
ModulesBefore(m) == {n \in SelectedModules : ModuleBefore(n, m)}
OrderedRows ==
    [i \in 1..Cardinality(SelectedRows) |->
        CHOOSE r \in SelectedRows : Cardinality(RowsBefore(r)) = i - 1]
OrderedModules ==
    [i \in 1..Cardinality(SelectedModules) |->
        CHOOSE m \in SelectedModules : Cardinality(ModulesBefore(m)) = i - 1]
Least(m, n) == IF m < n THEN m ELSE n
Page(s) == SubSeq(s, walk.offset + 1, Least(walk.offset + walk.limit, Len(s)))

StartWalk(w) ==
    /\ walk = NoWalk
    /\ walk' = [NoWalk EXCEPT !.kind = w.kind, !.phase = "count", !.of = w.of, !.first = w.first,
                              !.limit = w.limit, !.stays = {r \in rows : r.module \in w.of}]

Count ==
    /\ walk.phase = "count"
    /\ walk' = [walk EXCEPT !.phase = "page", !.torn = FALSE,
                    !.total = Cardinality(IF walk.kind = "releases" THEN SelectedRows ELSE SelectedModules)]

\* v3PaginationResponse: there is a next page, or the walk is at its end.
Answered(w) ==
    IF w.offset + w.limit < w.total
    THEN [w EXCEPT !.phase = "count", !.offset = @ + w.limit, !.page = <<>>, !.listed = {}]
    ELSE [w EXCEPT !.phase = "done", !.page = <<>>, !.listed = {}]

ListReleasesPage ==
    /\ walk.phase = "page" /\ walk.kind = "releases"
    /\ walk' = Answered([walk EXCEPT !.got = @ \o Page(OrderedRows)])

\* The rows of modules come with their latest_version.
ListModulesPage ==
    /\ walk.phase = "page" /\ walk.kind = "modules"
    /\ LET page == Page(OrderedModules) IN
       walk' = [walk EXCEPT !.phase = "versions",
                    !.page = [i \in DOMAIN page |-> [module |-> page[i], latest |-> newest[page[i]]]]]

ListReleasesForModules ==
    /\ walk.phase = "versions"
    /\ LET next == [walk EXCEPT !.phase = "current",
                        !.listed = {r \in rows : \E i \in DOMAIN walk.page : walk.page[i].module = r.module}]
       IN  walk' = IF walk.page = <<>> THEN Answered(next) ELSE next

\* The latest version of one module after the other; the request fails with the
\* first that is not there any more.
GetStoredRelease ==
    /\ walk.phase = "current"
    /\ LET m    == Head(walk.page)
           item == [module |-> m.module, current |-> m.latest,
                    releases |-> {r.version : r \in {s \in walk.listed : s.module = m.module}}]
           next == [walk EXCEPT !.page = Tail(@), !.got = Append(@, item)]
       IN  walk' = IF \A r \in RowsOf(m.module) : r.version # m.latest
                   THEN [walk EXCEPT !.phase = "failed", !.page = <<>>, !.listed = {}]
                   ELSE IF next.page = <<>> THEN Answered(next) ELSE next

EndWalk == walk.phase \in {"done", "failed"} /\ walk' = NoWalk
-------------------------------------------------------------------------------
CatalogInit ==
    /\ rows = {} /\ newest = [m \in Catalogued |-> NoVersion] /\ touched = [m \in Catalogued |-> 0]
    /\ walk = NoWalk /\ clock = 0 /\ writes = 0

ReadStep ==
    \/ \E w \in Walks : StartWalk(w)
    \/ Count \/ ListReleasesPage \/ ListModulesPage \/ ListReleasesForModules
    \/ GetStoredRelease \/ EndWalk

CatalogNext ==
    \/ ReadStep /\ UNCHANGED <<rows, newest, touched, clock, writes>>
    \/ \E now \in {clock, clock + 1} :
          \/ \E m \in Catalogued : \E v \in Offered[m] : InsertRow(m, v, now)
          \/ \E r \in rows : ReplaceRow(r, now) \/ DeleteRow(r, now)

CatalogPagesSpec == CatalogInit /\ [][CatalogNext]_catalogVars
-------------------------------------------------------------------------------
Members(s)    == {s[i] : i \in DOMAIN s}
NoRepeats(s)  == \A i, j \in DOMAIN s : s[i] = s[j] => i = j
GreatestOf(v, S) == v \in S /\ \A w \in S : <<v, w>> \notin Less

\* All that a walk through the releases brings: what stayed is there although
\* releases were published before the last count, nothing is there twice although
\* others were deleted, and undisturbed it has each module's latest version first.
ReleasesAreWhole ==
    LET modules == {r.module : r \in Members(walk.got)}
        Leads(m) == LET i == CHOOSE i \in DOMAIN walk.got :
                             walk.got[i].module = m /\ \A j \in 1..(i - 1) : walk.got[j].module # m
                    IN  Equivalent(Versions[walk.got[i].version], Versions[newest[m]])
    IN  /\ ~walk.deleted /\ ~walk.torn => walk.stays \subseteq Members(walk.got)
        /\ ~walk.created => NoRepeats(walk.got)
        /\ ~walk.created /\ ~walk.deleted =>
              /\ \A i, j \in DOMAIN walk.got : i < j => <<walk.got[i].version, walk.got[j].version>> \notin Less
              /\ \A m \in modules : Leads(m)

ModulesAreWhole == ~walk.moved =>
    /\ Members(walk.got) =
          {[module |-> m, current |-> newest[m], releases |-> {r.version : r \in RowsOf(m)}] : m \in SelectedModules}
    /\ NoRepeats(walk.got)
    /\ \A item \in Members(walk.got) : GreatestOf(item.current, item.releases)

\* release_pagination.go:69 and postgres.go:1295: count and page are statements of
\* their own, and SQL sorts by a key what the program compares as versions.  A walk
\* along the "next" links misses and repeats nothing that its disturbances do not
\* explain, in the order of versions, with the module's latest version leading.
WalksAreWhole ==
    /\ walk.phase = "done" => IF walk.kind = "releases" THEN ReleasesAreWhole ELSE ModulesAreWhole
    /\ walk.phase = "failed" => walk.deleted
===============================================================================
