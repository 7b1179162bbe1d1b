------------------------- MODULE VersionsProofs -------------------------
(***************************************************************************)
(* A walk through the pages of a catalogue brings what it should           *)
(* (WalksBringAll).  The pages read so far are what comes first in SQL's   *)
(* order, as far as the changes meanwhile allow (CatalogInv).  Next to a   *)
(* module's handlers and an upstream artifact it is implemented as         *)
(* specified, and so are they.                                             *)
(***************************************************************************)
EXTENDS MCVersions, VersionOrderProofs, FiniteSetTheorems, TLAPS

-----------------------------------------------------------------------------
(* The catalogue: the inductive invariant                                  *)

CatalogRow == [module : Catalogued, version : DOMAIN Versions, created : Nat]
Listed     == [module : Catalogued, latest : Nat]
Brought    == CatalogRow \cup [module : Catalogued, current : Nat, releases : SUBSET Nat]
WalkState ==
    [kind : {"none", "releases", "modules"},
     phase : {"idle", "count", "page", "versions", "current", "done", "failed"},
     of : SUBSET Catalogued, first : SUBSET Catalogued,
     limit : Nat \ {0}, offset : Nat, total : Nat,
     page : Seq(Listed), listed : SUBSET CatalogRow, got : Seq(Brought), stays : SUBSET CatalogRow,
     created : BOOLEAN, deleted : BOOLEAN, moved : BOOLEAN, torn : BOOLEAN]

RowTypes ==
    /\ rows \subseteq CatalogRow /\ IsFiniteSet(rows)
    /\ touched \in [Catalogued -> Nat] /\ clock \in Nat
    /\ newest \in [Catalogued -> Nat]
    /\ \A r \in rows : r.version \in Offered[r.module]
    /\ \A r, s \in rows : r.version = s.version => r = s

WalkTypes ==
    /\ walk \in WalkState
    /\ walk = NoWalk <=> walk.phase = "idle"
    /\ walk.kind = "none" <=> walk.phase = "idle"
    /\ walk.kind = "releases" => walk.phase \in {"count", "page", "done"}
    /\ walk.phase \notin {"versions", "current"} => walk.page = <<>>
    /\ walk.phase = "current" => walk.page # <<>>

\* The latest version of a module is one of its versions, and none is greater.
LatestStands == \A m \in Catalogued :
    IF RowsOf(m) = {} THEN newest[m] = NoVersion
    ELSE GreatestOf(newest[m], {r.version : r \in RowsOf(m)})

\* How many releases or modules go before one in SQL's order.
RowPlace(r)    == Cardinality(RowsBefore(r))
ModulePlace(m) == Cardinality(ModulesBefore(m))

\* Of the pages that a walk through the releases has read.  What stayed and is not
\* there yet comes behind them; what is there comes before what follows, or is gone.
ReleasesInv == walk.kind = "releases" =>
    /\ walk.stays \subseteq SelectedRows
    /\ ~walk.deleted /\ walk.phase # "done" =>
          \A r \in walk.stays : r \in Members(walk.got) \/ RowPlace(r) >= walk.offset
    /\ ~walk.deleted /\ ~walk.torn =>
          /\ walk.phase = "page" => walk.total = Cardinality(SelectedRows)
          /\ walk.phase = "done" => walk.stays \subseteq Members(walk.got)
    /\ ~walk.created =>
          /\ NoRepeats(walk.got) /\ ~walk.torn
          /\ walk.phase # "done" =>
                \A r \in Members(walk.got) : r \in SelectedRows => RowPlace(r) < walk.offset
    /\ ~walk.created /\ ~walk.deleted =>
          /\ \A i \in DOMAIN walk.got : walk.got[i] \in SelectedRows /\ RowPlace(walk.got[i]) = i - 1
          /\ Len(walk.got) = IF walk.phase = "done" THEN Cardinality(SelectedRows)
                             ELSE Least(walk.offset, Cardinality(SelectedRows))

\* How many modules a walk has brought, or is about to bring with the page at hand.
Goal == LET n == Cardinality(SelectedModules)
        IN  CASE walk.phase \in {"count", "page"}       -> Least(walk.offset, n)
              [] walk.phase \in {"versions", "current"} -> Least(walk.offset + walk.limit, n)
              [] OTHER                                  -> n

\* The i-th module brought is the one with that many before it, as it stands.
ModuleBrought(i) == LET m == walk.got[i].module IN
    /\ m \in SelectedModules /\ ModulePlace(m) = i - 1
    /\ walk.got[i] = [module |-> m, current |-> newest[m], releases |-> {r.version : r \in RowsOf(m)}]

\* The i-th module of the page at hand follows those brought.
ModuleAwaited(i) == LET m == walk.page[i].module IN
    /\ m \in SelectedModules /\ ModulePlace(m) = Len(walk.got) + i - 1
    /\ walk.page[i].latest = newest[m]

\* While nothing moves, a walk through the modules brings them in their order.
ModulesInv == walk.kind = "modules" =>
    /\ ~walk.moved =>
          /\ walk.phase \in {"page", "versions", "current"} => walk.total = Cardinality(SelectedModules)
          /\ walk.phase = "current" =>
                \A i \in DOMAIN walk.page : RowsOf(walk.page[i].module) \subseteq walk.listed
          /\ walk.listed \subseteq rows
          /\ walk.phase # "failed" => Len(walk.got) + Len(walk.page) = Goal
          /\ \A i \in DOMAIN walk.got : ModuleBrought(i)
          /\ \A i \in DOMAIN walk.page : ModuleAwaited(i)
    /\ ~walk.deleted => \A i \in DOMAIN walk.page :
          \E r \in RowsOf(walk.page[i].module) : r.version = walk.page[i].latest
    /\ walk.phase = "failed" => walk.deleted

CatalogInv == RowTypes /\ WalkTypes /\ LatestStands /\ ReleasesInv /\ ModulesInv

-----------------------------------------------------------------------------
(* The orders in which SQL sorts                                           *)

\* How many elements of S go before x.
PlaceIn(x, S, R) == Cardinality({y \in S : <<y, x>> \in R})

\* In a finite set under a strict total order, every place has its element.
LEMMA PlacesAreTaken ==
    ASSUME NEW S, IsFiniteSet(S), NEW R,
           \A x \in S : ~ (<<x, x>> \in R),
           \A x, y, z \in S : <<x, y>> \in R /\ <<y, z>> \in R => <<x, z>> \in R,
           \A x, y \in S : x = y \/ <<x, y>> \in R \/ <<y, x>> \in R
    PROVE  /\ Cardinality(S) \in Nat
           /\ \A x \in S : PlaceIn(x, S, R) \in 0..(Cardinality(S) - 1)
           /\ \A x, y \in S : (<<x, y>> \in R <=> PlaceIn(x, S, R) < PlaceIn(y, S, R))
                              /\ (PlaceIn(x, S, R) = PlaceIn(y, S, R) => x = y)
           /\ \A i \in 1..Cardinality(S) : \E x \in S : PlaceIn(x, S, R) = i - 1
<1> DEFINE place == [x \in S |-> PlaceIn(x, S, R)]
<1> DEFINE before(x) == {y \in S : <<y, x>> \in R}
           n == Cardinality(S)
<1>1. n \in Nat
    BY FS_CardinalityType
<1>2. ASSUME NEW x \in S PROVE IsFiniteSet(before(x)) /\ Cardinality(before(x)) \in 0..(n - 1)
    <2>1. before(x) \in SUBSET S /\ before(x) # S
        OBVIOUS
    <2>2. IsFiniteSet(before(x)) /\ Cardinality(before(x)) <= n /\ Cardinality(before(x)) # n
        BY <2>1, FS_Subset
    <2>3. Cardinality(before(x)) \in Nat
        BY <2>2, FS_CardinalityType
    <2> HIDE DEF before, n
    <2> QED BY <1>1, <2>2, <2>3
<1>3. \A x \in S : place[x] = Cardinality(before(x)) /\ place[x] = PlaceIn(x, S, R)
    BY DEF PlaceIn
<1>4. ASSUME NEW x \in S, NEW y \in S, <<x, y>> \in R PROVE place[x] < place[y]
    <2>1. before(x) \in SUBSET before(y) /\ x \in before(y) /\ x \notin before(x)
        BY <1>4
    <2> HIDE DEF before, n
    <2>2. IsFiniteSet(before(y)) /\ Cardinality(before(y)) \in Nat /\ Cardinality(before(x)) \in Nat
        BY <1>1, <1>2
    <2>3. Cardinality(before(x)) <= Cardinality(before(y)) /\ Cardinality(before(x)) # Cardinality(before(y))
        BY <2>1, <2>2, FS_Subset
    <2> QED BY <1>3, <2>2, <2>3
<1>5. \A x \in S : place[x] \in 0..(n - 1)
    BY <1>2, <1>3
<1> HIDE DEF n, place
<1>6. \A x, y \in S : (<<x, y>> \in R <=> place[x] < place[y]) /\ (place[x] = place[y] => x = y)
    <2> SUFFICES ASSUME NEW x \in S, NEW y \in S
                 PROVE  (<<x, y>> \in R <=> place[x] < place[y]) /\ (place[x] = place[y] => x = y)
        OBVIOUS
    <2>1. place[x] \in Nat /\ place[y] \in Nat
        BY <1>1, <1>5
    <2>2. <<x, y>> \in R => place[x] < place[y]
        BY <1>4
    <2>3. <<y, x>> \in R => place[y] < place[x]
        BY <1>4
    <2>4. x = y \/ <<x, y>> \in R \/ <<y, x>> \in R
        OBVIOUS
    <2> QED BY <2>1, <2>2, <2>3, <2>4
<1>7. \A i \in 1..n : \E x \in S : place[x] = i - 1
    <2>1. IsFiniteSet(0..(n - 1)) /\ Cardinality(0..(n - 1)) = n
        BY <1>1, FS_Interval
    <2>2. place \in Injection(S, 0..(n - 1))
        <3>1. DOMAIN place = S /\ place \in [S -> 0..(n - 1)]
            BY <1>5 DEF place
        <3> QED BY <1>6, <3>1 DEF Injection, IsInjective
    <2>3. place \in Surjection(S, 0..(n - 1))
        BY <2>1, <2>2, FS_Injection DEF n
    <2>4. \A i \in 1..n : i - 1 \in 0..(n - 1)
        BY <1>1
    <2> QED BY <2>3, <2>4 DEF Surjection
<1>8. \A x \in S : PlaceIn(x, S, R) = place[x]
    BY <1>3
<1>9. \A x, y \in S : (<<x, y>> \in R <=> PlaceIn(x, S, R) < PlaceIn(y, S, R))
                      /\ (PlaceIn(x, S, R) = PlaceIn(y, S, R) => x = y)
    <2> SUFFICES ASSUME NEW x \in S, NEW y \in S
                 PROVE  (<<x, y>> \in R <=> PlaceIn(x, S, R) < PlaceIn(y, S, R))
                        /\ (PlaceIn(x, S, R) = PlaceIn(y, S, R) => x = y)
        OBVIOUS
    <2>1. PlaceIn(x, S, R) = place[x] /\ PlaceIn(y, S, R) = place[y]
        BY <1>8
    <2>2. (<<x, y>> \in R <=> place[x] < place[y]) /\ (place[x] = place[y] => x = y)
        BY <1>6
    <2> QED BY <2>1, <2>2
<1>10. \A i \in 1..n : \E x \in S : PlaceIn(x, S, R) = i - 1
    BY <1>7, <1>8
<1>11. \A x \in S : PlaceIn(x, S, R) \in 0..(n - 1)
    BY <1>5, <1>8
<1> QED BY <1>1, <1>9, <1>10, <1>11 DEF n

\* Keys are texts, and sort versions as the program compares them.
LEMMA KeysAreTexts ==
    /\ \A v \in DOMAIN Versions : KeyOf[v] \in Text /\ v \in Nat \ {0}
    /\ Less = KeyLess
    /\ \A v, w \in DOMAIN Versions : <<v, w>> \in KeyLess <=> TextLess(KeyOf[v], KeyOf[w])
<1>1. \A v \in DOMAIN Versions : Versions[v] \in ParsedVersion /\ v \in Nat \ {0}
    BY CatalogAssumption
<1>2. \A v \in DOMAIN Versions : KeyOf[v] = OrderKey(Versions[v])
    BY DEF KeyOf
<1>3. \A v \in DOMAIN Versions : KeyOf[v] \in Text
    BY <1>1, <1>2, OrderKeyIs
<1>4. \A v, w \in DOMAIN Versions : VersionLess(Versions[v], Versions[w]) <=> TextLess(KeyOf[v], KeyOf[w])
    BY <1>1, <1>2, KeysSortVersions
<1>5. Less = KeyLess
    BY <1>4 DEF Less, KeyLess
<1> QED BY <1>1, <1>3, <1>5 DEF KeyLess

\* Of versions: none is less than itself, and less is transitive.
LEMMA LessIs ==
    ASSUME NEW u \in DOMAIN Versions, NEW v \in DOMAIN Versions, NEW w \in DOMAIN Versions
    PROVE  /\ ~ (<<u, u>> \in Less)
           /\ <<u, v>> \in Less /\ <<v, w>> \in Less => <<u, w>> \in Less
           /\ ~ (<<u, v>> \in Less) /\ ~ (<<v, w>> \in Less) => ~ (<<u, w>> \in Less)
           /\ ~ (<<u, v>> \in Less) /\ ~ (<<v, u>> \in Less) => Equivalent(Versions[u], Versions[v])
<1>1. Versions[u] \in ParsedVersion /\ Versions[v] \in ParsedVersion /\ Versions[w] \in ParsedVersion
    BY CatalogAssumption
<1>2. \A x, y \in DOMAIN Versions : <<x, y>> \in Less <=> VersionLess(Versions[x], Versions[y])
    BY DEF Less
<1>3. /\ ~VersionLess(Versions[u], Versions[u])
      /\ VersionLess(Versions[u], Versions[v]) /\ VersionLess(Versions[v], Versions[w])
            => VersionLess(Versions[u], Versions[w])
    BY <1>1, VersionsAreOrdered
<1>4. ASSUME ~VersionLess(Versions[u], Versions[v]), ~VersionLess(Versions[v], Versions[w]),
             VersionLess(Versions[u], Versions[w])
      PROVE  FALSE
    <2>1. CASE VersionLess(Versions[v], Versions[u])
        BY <1>1, <1>4, <2>1, VersionsAreOrdered
    <2>2. CASE ~VersionLess(Versions[v], Versions[u])
        BY <1>1, <1>4, <2>2, VersionsAreOrdered DEF Equivalent
    <2> QED BY <2>1, <2>2
<1> QED BY <1>2, <1>3, <1>4 DEF Equivalent

LEMMA RowsHaveAnOrder ==
    ASSUME NEW r \in CatalogRow, NEW s \in CatalogRow, NEW t \in CatalogRow
    PROVE  /\ ~RowBefore(r, r)
           /\ RowBefore(r, s) /\ RowBefore(s, t) => RowBefore(r, t)
           /\ r.version = s.version \/ RowBefore(r, s) \/ RowBefore(s, r)
<1> DEFINE a == KeyOf[r.version]
           b == KeyOf[s.version]
           c == KeyOf[t.version]
<1>1. /\ r.version \in DOMAIN Versions /\ s.version \in DOMAIN Versions /\ t.version \in DOMAIN Versions
      /\ r.created \in Nat /\ s.created \in Nat /\ t.created \in Nat
    BY DEF CatalogRow
<1>2. /\ a \in Text /\ b \in Text /\ c \in Text
      /\ r.version \in Nat /\ s.version \in Nat /\ t.version \in Nat
    BY <1>1, KeysAreTexts
<1>3. /\ <<r.version, r.version>> \in KeyLess <=> TextLess(a, a)
      /\ <<s.version, r.version>> \in KeyLess <=> TextLess(b, a)
      /\ <<r.version, s.version>> \in KeyLess <=> TextLess(a, b)
      /\ <<t.version, s.version>> \in KeyLess <=> TextLess(c, b)
      /\ <<t.version, r.version>> \in KeyLess <=> TextLess(c, a)
    BY <1>1, KeysAreTexts
<1> HIDE DEF a, b, c
<1>4. /\ ~TextLess(a, a) /\ (TextLess(c, b) /\ TextLess(b, a) => TextLess(c, a))
      /\ TextLess(a, b) \/ TextLess(b, a) \/ a = b
    BY <1>2, TextIrreflexive, TextTransitive, TextTotal
<1>5. ~RowBefore(r, r)
    BY <1>1, <1>2, <1>3, <1>4 DEF RowBefore, a
<1>6. RowBefore(r, s) /\ RowBefore(s, t) => RowBefore(r, t)
    BY <1>1, <1>2, <1>3, <1>4 DEF RowBefore, a, b, c
<1>7. r.version = s.version \/ RowBefore(r, s) \/ RowBefore(s, r)
    BY <1>1, <1>2, <1>3, <1>4 DEF RowBefore, a, b
<1> QED BY <1>5, <1>6, <1>7

-----------------------------------------------------------------------------
(* What a page is                                                          *)

LEMMA RowPlaces ==
    ASSUME RowTypes
    PROVE  /\ IsFiniteSet(SelectedRows) /\ Cardinality(SelectedRows) \in Nat
           /\ SelectedRows \subseteq CatalogRow
           /\ \A r \in SelectedRows : RowPlace(r) \in 0..(Cardinality(SelectedRows) - 1)
           /\ \A r, s \in SelectedRows : (RowBefore(r, s) <=> RowPlace(r) < RowPlace(s))
                                         /\ (RowPlace(r) = RowPlace(s) => r = s)
           /\ \A i \in 1..Cardinality(SelectedRows) : \E r \in SelectedRows : RowPlace(r) = i - 1
<1> DEFINE S == SelectedRows
           R == {p \in S \X S : RowBefore(p[1], p[2])}
           place(x) == PlaceIn(x, S, R)
<1>1. S \in SUBSET rows /\ S \subseteq CatalogRow
    BY DEF SelectedRows, RowTypes
<1>2. IsFiniteSet(S)
    BY <1>1, FS_Subset DEF RowTypes
<1>3. \A r, s \in S : <<r, s>> \in R <=> RowBefore(r, s)
    OBVIOUS
<1>4. \A r \in S : {y \in S : <<y, r>> \in R} = RowsBefore(r)
    BY <1>3 DEF RowsBefore
<1>5. \A r \in S : place(r) = RowPlace(r)
    BY <1>4 DEF RowPlace, PlaceIn
<1>6. \A r, s \in S : r.version = s.version => r = s
    BY <1>1 DEF RowTypes
<1> HIDE DEF S, R
<1>7. /\ \A r \in S : ~ (<<r, r>> \in R)
      /\ \A r, s, t \in S : <<r, s>> \in R /\ <<s, t>> \in R => <<r, t>> \in R
      /\ \A r, s \in S : r = s \/ <<r, s>> \in R \/ <<s, r>> \in R
    BY <1>1, <1>3, <1>6, RowsHaveAnOrder
<1>8. /\ Cardinality(S) \in Nat
      /\ \A r \in S : place(r) \in 0..(Cardinality(S) - 1)
      /\ \A r, s \in S : (<<r, s>> \in R <=> place(r) < place(s)) /\ (place(r) = place(s) => r = s)
      /\ \A i \in 1..Cardinality(S) : \E r \in S : place(r) = i - 1
    BY <1>2, <1>7, PlacesAreTaken
<1> QED BY <1>1, <1>2, <1>3, <1>5, <1>8 DEF S

LEMMA RowsInOrder ==
    ASSUME RowTypes
    PROVE  /\ OrderedRows \in Seq(SelectedRows) /\ Len(OrderedRows) = Cardinality(SelectedRows)
           /\ \A i \in 1..Cardinality(SelectedRows) : RowPlace(OrderedRows[i]) = i - 1
<1> DEFINE n == Cardinality(SelectedRows)
<1>1. n \in Nat /\ \A i \in 1..n : \E r \in SelectedRows : RowPlace(r) = i - 1
    BY RowPlaces
<1>2. \A i \in 1..n : OrderedRows[i] \in SelectedRows /\ RowPlace(OrderedRows[i]) = i - 1
    BY <1>1 DEF OrderedRows, RowPlace
<1>3. OrderedRows \in [1..n -> SelectedRows]
    BY <1>2 DEF OrderedRows
<1> QED BY <1>1, <1>2, <1>3

LEMMA ModulePlaces ==
    ASSUME RowTypes, WalkTypes
    PROVE  /\ Cardinality(SelectedModules) \in Nat /\ SelectedModules \subseteq Catalogued
           /\ \A m \in SelectedModules : ModulePlace(m) \in 0..(Cardinality(SelectedModules) - 1)
           /\ \A m, k \in SelectedModules : ModulePlace(m) = ModulePlace(k) => m = k
           /\ \A i \in 1..Cardinality(SelectedModules) : \E m \in SelectedModules : ModulePlace(m) = i - 1
<1> DEFINE S == SelectedModules
           R == {p \in S \X S : ModuleBefore(p[1], p[2])}
           place(x) == PlaceIn(x, S, R)
<1>1. S \subseteq Catalogued /\ Catalogued \subseteq Nat
    BY CatalogAssumption DEF SelectedModules, WalkTypes, WalkState
<1>2. IsFiniteSet(S)
    <2> DEFINE f == [r \in SelectedRows |-> r.module]
    <2>1. \A r \in SelectedRows : r.module \in S
        BY DEF SelectedRows, SelectedModules, RowsOf
    <2>2. \A m \in S : \E r \in SelectedRows : r.module = m
        BY DEF SelectedRows, SelectedModules, RowsOf
    <2> HIDE DEF S
    <2>3. f \in Surjection(SelectedRows, S)
        BY <2>1, <2>2 DEF Surjection
    <2> HIDE DEF f
    <2> QED BY <2>3, RowPlaces, FS_Surjection
<1>3. \A m, k \in S : <<m, k>> \in R <=> ModuleBefore(m, k)
    OBVIOUS
<1>4. \A m \in S : {y \in S : <<y, m>> \in R} = ModulesBefore(m)
    BY <1>3 DEF ModulesBefore
<1>5. \A m \in S : place(m) = ModulePlace(m)
    BY <1>4 DEF ModulePlace, PlaceIn
<1>6. \A m \in S : touched[m] \in Nat /\ m \in Nat
    BY <1>1 DEF RowTypes
<1> HIDE DEF S, R
<1>7. /\ \A m \in S : ~ (<<m, m>> \in R)
      /\ \A m, k, j \in S : <<m, k>> \in R /\ <<k, j>> \in R => <<m, j>> \in R
      /\ \A m, k \in S : m = k \/ <<m, k>> \in R \/ <<k, m>> \in R
    BY <1>3, <1>6 DEF ModuleBefore
<1>8. /\ Cardinality(S) \in Nat
      /\ \A m \in S : place(m) \in 0..(Cardinality(S) - 1)
      /\ \A m, k \in S : (<<m, k>> \in R <=> place(m) < place(k)) /\ (place(m) = place(k) => m = k)
      /\ \A i \in 1..Cardinality(S) : \E m \in S : place(m) = i - 1
    BY <1>2, <1>7, PlacesAreTaken
<1> QED BY <1>1, <1>5, <1>8 DEF S

LEMMA ModulesInOrder ==
    ASSUME RowTypes, WalkTypes
    PROVE  /\ OrderedModules \in Seq(SelectedModules)
           /\ Len(OrderedModules) = Cardinality(SelectedModules)
           /\ \A i \in 1..Cardinality(SelectedModules) : ModulePlace(OrderedModules[i]) = i - 1
<1> DEFINE n == Cardinality(SelectedModules)
<1>1. n \in Nat /\ \A i \in 1..n : \E m \in SelectedModules : ModulePlace(m) = i - 1
    BY ModulePlaces
<1>2. \A i \in 1..n : OrderedModules[i] \in SelectedModules /\ ModulePlace(OrderedModules[i]) = i - 1
    BY <1>1 DEF OrderedModules, ModulePlace
<1>3. OrderedModules \in [1..n -> SelectedModules]
    BY <1>2 DEF OrderedModules
<1> QED BY <1>1, <1>2, <1>3

LEMMA PageIs ==
    ASSUME WalkTypes, NEW S, NEW s \in Seq(S)
    PROVE  /\ Page(s) \in Seq(S)
           /\ Least(walk.offset, Len(s)) + Len(Page(s)) = Least(walk.offset + walk.limit, Len(s))
           /\ \A i \in 1..Len(Page(s)) : /\ Least(walk.offset, Len(s)) = walk.offset
                                         /\ walk.offset + i \in 1..Len(s)
                                         /\ Page(s)[i] = s[walk.offset + i]
<1> DEFINE o == walk.offset
           l == walk.limit
           n == Len(s)
           e == Least(o + l, n)
<1>1. o \in Nat /\ l \in Nat \ {0} /\ n \in Nat
    BY DEF WalkTypes, WalkState
<1> HIDE DEF o, l
<1>2. e \in Nat /\ e <= n /\ (e = o + l \/ e = n) /\ e <= o + l
    BY <1>1 DEF Least
<1>3. Page(s) = SubSeq(s, o + 1, e)
    BY DEF Page, o, l
<1> HIDE DEF e
<1>4. CASE o < e
    <2>1. /\ SubSeq(s, o + 1, e) \in Seq(S) /\ Len(SubSeq(s, o + 1, e)) = e - o
          /\ \A i \in 1..(e - o) : SubSeq(s, o + 1, e)[i] = s[o + i]
        BY <1>1, <1>2, <1>4
    <2>2. Least(o, n) = o
        BY <1>1, <1>2, <1>4 DEF Least
    <2>3. \A i \in 1..(e - o) : o + i \in 1..n
        BY <1>1, <1>2, <1>4
    <2>4. Page(s) \in Seq(S) /\ Len(Page(s)) = e - o /\ \A i \in 1..(e - o) : Page(s)[i] = s[o + i]
        BY <1>3, <2>1, Zenon
    <2>5. Least(o, n) + Len(Page(s)) = e
        BY <1>1, <1>2, <2>2, <2>4
    <2> HIDE DEF n
    <2> QED BY <2>2, <2>3, <2>4, <2>5 DEF o, l, e, n
<1>5. CASE ~ (o < e)
    <2>1. SubSeq(s, o + 1, e) \in Seq(S) /\ Len(SubSeq(s, o + 1, e)) = 0
        BY <1>1, <1>2, <1>5
    <2>2. Least(o, n) = e
        BY <1>1, <1>2, <1>5 DEF Least
    <2> QED BY <1>1, <1>2, <1>3, <2>1, <2>2 DEF o, l, e
<1> QED BY <1>4, <1>5

-----------------------------------------------------------------------------
(* What a step does to a walk, field by field                              *)

SameQuery(u, w) == u.kind = w.kind /\ u.of = w.of /\ u.first = w.first /\ u.limit = w.limit
SamePage(u, w)  == /\ u.phase = w.phase /\ u.offset = w.offset /\ u.total = w.total
                   /\ u.page = w.page /\ u.listed = w.listed /\ u.got = w.got
SameLife(u, w)  == /\ u.stays = w.stays /\ u.created = w.created /\ u.deleted = w.deleted
                   /\ u.moved = w.moved /\ u.torn = w.torn

LEMMA NoWalkIs ==
    /\ NoWalk \in WalkState /\ NoWalk.kind = "none" /\ NoWalk.phase = "idle"
    /\ NoWalk.page = <<>> /\ NoWalk.listed = {} /\ NoWalk.got = <<>> /\ NoWalk.offset = 0
    /\ NoWalk.created = FALSE /\ NoWalk.deleted = FALSE /\ NoWalk.moved = FALSE /\ NoWalk.torn = FALSE
BY DEF NoWalk, WalkState

\* A change of the rows leaves the walk's query and pages alone.
LEMMA InsertDisturbs ==
    ASSUME WalkTypes, NEW m \in Catalogued, NEW v, NEW now, InsertRow(m, v, now)
    PROVE  /\ walk' \in WalkState /\ SameQuery(walk', walk) /\ SamePage(walk', walk)
           /\ walk'.stays = walk.stays /\ walk'.deleted = walk.deleted
           /\ IF walk.phase = "idle" THEN walk' = walk
              ELSE walk'.created = TRUE /\ walk'.moved = TRUE /\ walk'.torn = TRUE
<1>1. CASE walk = NoWalk
    BY <1>1, NoWalkIs DEF WalkTypes, InsertRow, Disturbed, SameQuery, SamePage
<1>2. CASE walk # NoWalk
    <2>1. walk' = [walk EXCEPT !.created = TRUE, !.moved = TRUE, !.torn = TRUE]
        BY <1>2 DEF InsertRow, Disturbed
    <2>2. walk \in WalkState /\ walk.phase # "idle"
        BY <1>2 DEF WalkTypes
    <2> QED BY <2>1, <2>2 DEF WalkState, SameQuery, SamePage
<1> QED BY <1>1, <1>2

LEMMA ReplaceDisturbs ==
    ASSUME WalkTypes, NEW r \in rows, NEW now, ReplaceRow(r, now)
    PROVE  /\ walk' \in WalkState /\ SameQuery(walk', walk) /\ SamePage(walk', walk)
           /\ walk'.stays = walk.stays /\ walk'.deleted = walk.deleted
           /\ walk'.created = walk.created /\ walk'.torn = walk.torn
           /\ IF walk.phase = "idle" THEN walk' = walk ELSE walk'.moved = TRUE
<1>1. CASE walk = NoWalk
    BY <1>1, NoWalkIs DEF WalkTypes, ReplaceRow, Disturbed, SameQuery, SamePage
<1>2. CASE walk # NoWalk
    <2>1. walk' = [walk EXCEPT !.moved = TRUE]
        BY <1>2 DEF ReplaceRow, Disturbed
    <2>2. walk \in WalkState /\ walk.phase # "idle"
        BY <1>2 DEF WalkTypes
    <2> QED BY <2>1, <2>2 DEF WalkState, SameQuery, SamePage
<1> QED BY <1>1, <1>2

LEMMA DeleteDisturbs ==
    ASSUME WalkTypes, NEW r \in rows, NEW now, DeleteRow(r, now)
    PROVE  /\ walk' \in WalkState /\ SameQuery(walk', walk) /\ SamePage(walk', walk)
           /\ walk'.created = walk.created /\ walk'.torn = walk.torn
           /\ IF walk.phase = "idle" THEN walk' = walk
              ELSE walk'.deleted = TRUE /\ walk'.moved = TRUE /\ walk'.stays = walk.stays \ {r}
<1>1. CASE walk = NoWalk
    BY <1>1, NoWalkIs DEF WalkTypes, DeleteRow, Disturbed, SameQuery, SamePage
<1>2. CASE walk # NoWalk
    <2>1. walk' = [walk EXCEPT !.deleted = TRUE, !.moved = TRUE, !.stays = @ \ {r}]
        BY <1>2 DEF DeleteRow, Disturbed
    <2>2. walk \in WalkState /\ walk.phase # "idle"
        BY <1>2 DEF WalkTypes
    <2> QED BY <2>1, <2>2 DEF WalkState, SameQuery, SamePage
<1> QED BY <1>1, <1>2

LEMMA StartIs ==
    ASSUME RowTypes, WalkTypes, NEW w \in Walks, StartWalk(w)
    PROVE  /\ walk' \in WalkState /\ walk'.phase = "count" /\ walk'.kind \in {"releases", "modules"}
           /\ walk'.offset = 0 /\ walk'.page = <<>> /\ walk'.listed = {} /\ walk'.got = <<>>
           /\ walk'.stays = {r \in rows : r.module \in walk'.of}
           /\ walk'.created = FALSE /\ walk'.deleted = FALSE /\ walk'.moved = FALSE /\ walk'.torn = FALSE
<1> DEFINE s == {r \in rows : r.module \in w.of}
<1>1. walk' = [NoWalk EXCEPT !.kind = w.kind, !.phase = "count", !.of = w.of, !.first = w.first,
                             !.limit = w.limit, !.stays = s]
    BY DEF StartWalk
<1>2. s \subseteq CatalogRow
    BY DEF RowTypes
<1>3. /\ w.kind \in {"releases", "modules"} /\ w.of \subseteq Catalogued /\ w.first \subseteq Catalogued
      /\ w.limit \in Nat \ {0}
    BY CatalogAssumption DEF Walk
<1> HIDE DEF s
<1>4. walk' = [kind |-> w.kind, phase |-> "count", of |-> w.of, first |-> w.first, limit |-> w.limit,
               offset |-> 0, total |-> 0, page |-> <<>>, listed |-> {}, got |-> <<>>,
               stays |-> s, created |-> FALSE, deleted |-> FALSE, moved |-> FALSE, torn |-> FALSE]
    BY <1>1 DEF NoWalk
<1>5. walk' \in WalkState
    BY <1>2, <1>3, <1>4 DEF WalkState
<1> QED BY <1>3, <1>4, <1>5 DEF s

LEMMA CountIs ==
    ASSUME RowTypes, WalkTypes, Count
    PROVE  /\ walk.phase = "count"
           /\ walk' \in WalkState /\ SameQuery(walk', walk) /\ walk'.phase = "page"
           /\ walk'.offset = walk.offset /\ walk'.page = walk.page /\ walk'.listed = walk.listed
           /\ walk'.got = walk.got /\ walk'.stays = walk.stays /\ walk'.created = walk.created
           /\ walk'.deleted = walk.deleted /\ walk'.moved = walk.moved /\ walk'.torn = FALSE
           /\ walk.kind = "releases" => walk'.total = Cardinality(SelectedRows)
           /\ walk.kind = "modules" => walk'.total = Cardinality(SelectedModules)
<1> DEFINE n == Cardinality(IF walk.kind = "releases" THEN SelectedRows ELSE SelectedModules)
<1>1. n \in Nat
    BY RowPlaces, ModulePlaces
<1>2. n = IF walk.kind = "releases" THEN Cardinality(SelectedRows) ELSE Cardinality(SelectedModules)
    OBVIOUS
<1>3. walk.phase = "count" /\ walk' = [walk EXCEPT !.phase = "page", !.torn = FALSE, !.total = n]
    BY DEF Count
<1> HIDE DEF n
<1>4. walk \in WalkState
    BY DEF WalkTypes
<1>5. walk' \in WalkState
    BY <1>1, <1>3, <1>4 DEF WalkState
<1>6. walk'.total = n /\ walk'.phase = "page" /\ walk'.torn = FALSE
    BY <1>3, <1>4 DEF WalkState
<1>7. /\ SameQuery(walk', walk)
      /\ walk'.offset = walk.offset /\ walk'.page = walk.page /\ walk'.listed = walk.listed
      /\ walk'.got = walk.got /\ walk'.stays = walk.stays /\ walk'.created = walk.created
      /\ walk'.deleted = walk.deleted /\ walk'.moved = walk.moved
    BY <1>3, <1>4 DEF WalkState, SameQuery
<1> QED BY <1>2, <1>3, <1>5, <1>6, <1>7

LEMMA AnsweredIs ==
    ASSUME NEW w \in WalkState
    PROVE  /\ Answered(w) \in WalkState /\ SameQuery(Answered(w), w) /\ SameLife(Answered(w), w)
           /\ Answered(w).page = <<>> /\ Answered(w).listed = {}
           /\ Answered(w).got = w.got /\ Answered(w).total = w.total
           /\ IF w.offset + w.limit < w.total
              THEN Answered(w).phase = "count" /\ Answered(w).offset = w.offset + w.limit
              ELSE Answered(w).phase = "done" /\ Answered(w).offset = w.offset
<1> DEFINE next == w.offset + w.limit
<1>1. w.offset \in Nat /\ w.limit \in Nat /\ next \in Nat
    BY DEF WalkState
<1> DEFINE nothing == <<>>
<1>0. nothing \in Seq(Listed) /\ {} \in SUBSET CatalogRow
    OBVIOUS
<1> HIDE DEF next, nothing
<1>2. CASE next < w.total
    <2>1. Answered(w) = [w EXCEPT !.phase = "count", !.offset = next, !.page = nothing, !.listed = {}]
        BY <1>2 DEF Answered, next, nothing
    <2>2. Answered(w) \in WalkState
        BY <1>0, <1>1, <2>1 DEF WalkState
    <2> QED BY <1>2, <2>1, <2>2 DEF WalkState, SameQuery, SameLife, next, nothing
<1>3. CASE ~ (next < w.total)
    <2>1. Answered(w) = [w EXCEPT !.phase = "done", !.page = nothing, !.listed = {}]
        BY <1>3 DEF Answered, next, nothing
    <2>2. Answered(w) \in WalkState
        BY <1>0, <2>1 DEF WalkState
    <2> QED BY <1>3, <2>1, <2>2 DEF WalkState, SameQuery, SameLife, next, nothing
<1> QED BY <1>2, <1>3

\* What follows an answered page.
Onwards == IF walk.offset + walk.limit < walk.total
           THEN walk'.phase = "count" /\ walk'.offset = walk.offset + walk.limit
           ELSE walk'.phase = "done" /\ walk'.offset = walk.offset

LEMMA ReleasesPageIs ==
    ASSUME RowTypes, WalkTypes, ListReleasesPage
    PROVE  /\ walk.phase = "page" /\ walk.kind = "releases"
           /\ walk' \in WalkState /\ SameQuery(walk', walk) /\ SameLife(walk', walk)
           /\ walk'.page = <<>> /\ walk'.listed = {} /\ walk'.total = walk.total
           /\ Page(OrderedRows) \in Seq(SelectedRows) /\ walk.got \in Seq(Brought)
           /\ walk'.got = walk.got \o Page(OrderedRows) /\ Onwards
<1> DEFINE p == Page(OrderedRows)
           g == walk.got \o p
           w == [walk EXCEPT !.got = g]
<1>1. p \in Seq(SelectedRows)
    BY RowsInOrder, PageIs
<1>2. walk \in WalkState /\ walk.got \in Seq(Brought)
    BY DEF WalkTypes, WalkState
<1>3. SelectedRows \subseteq Brought
    BY RowPlaces DEF Brought
<1>4. walk.phase = "page" /\ walk.kind = "releases" /\ walk' = Answered(w)
    BY DEF ListReleasesPage
<1> HIDE DEF p
<1>5. p \in Seq(Brought)
    BY <1>1, <1>3
<1>6. g \in Seq(Brought)
    BY <1>2, <1>5
<1> HIDE DEF g
<1>7. w \in WalkState
    BY <1>2, <1>6 DEF WalkState
<1>8. /\ SameQuery(w, walk) /\ SameLife(w, walk) /\ w.got = g /\ w.total = walk.total
      /\ w.offset = walk.offset /\ w.limit = walk.limit
    BY <1>2 DEF WalkState, SameQuery, SameLife
<1> HIDE DEF w
<1> QED BY <1>1, <1>2, <1>4, <1>7, <1>8, AnsweredIs DEF SameQuery, SameLife, Onwards, g, p

LEMMA ModulesPageIs ==
    ASSUME RowTypes, WalkTypes, ListModulesPage
    PROVE  /\ walk.phase = "page" /\ walk.kind = "modules"
           /\ walk' \in WalkState /\ SameQuery(walk', walk) /\ SameLife(walk', walk)
           /\ walk'.phase = "versions" /\ walk'.offset = walk.offset /\ walk'.total = walk.total
           /\ walk'.listed = walk.listed /\ walk'.got = walk.got
           /\ Len(walk'.page) = Len(Page(OrderedModules))
           /\ \A i \in 1..Len(Page(OrderedModules)) :
                 /\ walk'.page[i].module = Page(OrderedModules)[i]
                 /\ walk'.page[i].latest = newest[Page(OrderedModules)[i]]
                 /\ Page(OrderedModules)[i] \in SelectedModules
<1> DEFINE p == Page(OrderedModules)
           g == [i \in DOMAIN p |-> [module |-> p[i], latest |-> newest[p[i]]]]
<1>1. p \in Seq(SelectedModules)
    BY ModulesInOrder, PageIs
<1>2. walk \in WalkState
    BY DEF WalkTypes
<1>3. walk.phase = "page" /\ walk.kind = "modules" /\ walk' = [walk EXCEPT !.phase = "versions", !.page = g]
    BY DEF ListModulesPage
<1>4. \A m \in SelectedModules : m \in Catalogued /\ newest[m] \in Nat
    BY ModulePlaces DEF RowTypes
<1> HIDE DEF p
<1>5. DOMAIN p = 1..Len(p) /\ Len(p) \in Nat /\ \A i \in 1..Len(p) : p[i] \in SelectedModules
    BY <1>1
<1>6. \A i \in 1..Len(p) : g[i] = [module |-> p[i], latest |-> newest[p[i]]] /\ g[i] \in Listed
    BY <1>4, <1>5 DEF Listed
<1>7. g \in [1..Len(p) -> Listed]
    BY <1>5, <1>6
<1>8. g \in Seq(Listed) /\ Len(g) = Len(p)
    BY <1>5, <1>7
<1> HIDE DEF g
<1>9. walk' \in WalkState
    BY <1>2, <1>3, <1>8 DEF WalkState
<1>10. /\ SameQuery(walk', walk) /\ SameLife(walk', walk) /\ walk'.phase = "versions" /\ walk'.page = g
       /\ walk'.offset = walk.offset /\ walk'.total = walk.total
       /\ walk'.listed = walk.listed /\ walk'.got = walk.got
    BY <1>2, <1>3 DEF WalkState, SameQuery, SameLife
<1>11. ASSUME NEW i \in 1..Len(p) PROVE g[i].module = p[i] /\ g[i].latest = newest[p[i]]
    <2>1. g[i] = [module |-> p[i], latest |-> newest[p[i]]]
        BY <1>6
    <2> QED BY <2>1
<1> QED BY <1>3, <1>5, <1>8, <1>9, <1>10, <1>11 DEF p

LEMMA ReleasesForModulesIs ==
    ASSUME RowTypes, WalkTypes, ListReleasesForModules
    PROVE  /\ walk.phase = "versions" /\ walk.kind = "modules"
           /\ walk' \in WalkState /\ SameQuery(walk', walk) /\ SameLife(walk', walk)
           /\ walk'.page = walk.page /\ walk'.total = walk.total /\ walk'.got = walk.got
           /\ IF walk.page = <<>> THEN walk'.listed = {} /\ Onwards
              ELSE /\ walk'.phase = "current" /\ walk'.offset = walk.offset
                   /\ walk'.listed = {r \in rows : \E i \in DOMAIN walk.page : walk.page[i].module = r.module}
<1> DEFINE l == {r \in rows : \E i \in DOMAIN walk.page : walk.page[i].module = r.module}
           next == [walk EXCEPT !.phase = "current", !.listed = l]
<1>1. walk \in WalkState /\ l \in SUBSET CatalogRow
    BY DEF WalkTypes, RowTypes
<1>2. walk.phase = "versions" /\ walk' = IF walk.page = <<>> THEN Answered(next) ELSE next
    BY DEF ListReleasesForModules
<1>3. walk.kind = "modules"
    BY <1>2 DEF WalkTypes, WalkState
<1> HIDE DEF l
<1>4. next \in WalkState
    BY <1>1 DEF WalkState
<1>5. /\ SameQuery(next, walk) /\ SameLife(next, walk) /\ next.phase = "current" /\ next.listed = l
      /\ next.offset = walk.offset /\ next.limit = walk.limit /\ next.total = walk.total
      /\ next.page = walk.page /\ next.got = walk.got
    BY <1>1 DEF WalkState, SameQuery, SameLife
<1> HIDE DEF next
<1>6. CASE walk.page = <<>>
    BY <1>2, <1>3, <1>4, <1>5, <1>6, AnsweredIs DEF SameQuery, SameLife, Onwards
<1>7. CASE walk.page # <<>>
    BY <1>2, <1>3, <1>4, <1>5, <1>7 DEF l
<1> QED BY <1>6, <1>7

\* The module at the head of the page, as the client gets it.
Shown == [module |-> Head(walk.page).module, current |-> Head(walk.page).latest,
          releases |-> {r.version : r \in {s \in walk.listed : s.module = Head(walk.page).module}}]

LEMMA GetReleaseIs ==
    ASSUME RowTypes, WalkTypes, GetStoredRelease
    PROVE  /\ walk.phase = "current" /\ walk.kind = "modules"
           /\ walk' \in WalkState /\ SameQuery(walk', walk) /\ SameLife(walk', walk)
           /\ walk'.total = walk.total
           /\ walk.page # <<>> /\ walk.page \in Seq(Listed) /\ walk.got \in Seq(Brought)
           /\ IF \A r \in RowsOf(Head(walk.page).module) : r.version # Head(walk.page).latest
              THEN walk'.phase = "failed" /\ walk'.page = <<>> /\ walk'.listed = {} /\ walk'.got = walk.got
              ELSE /\ walk'.got = Append(walk.got, Shown) /\ walk'.page = Tail(walk.page)
                   /\ IF Tail(walk.page) = <<>> THEN Onwards /\ walk'.listed = {}
                      ELSE walk'.phase = "current" /\ walk'.listed = walk.listed /\ walk'.offset = walk.offset
<1> DEFINE t == Tail(walk.page)
           g == Append(walk.got, Shown)
           next == [walk EXCEPT !.page = t, !.got = g]
           gone == \A r \in RowsOf(Head(walk.page).module) : r.version # Head(walk.page).latest
           failed == [walk EXCEPT !.phase = "failed", !.page = <<>>, !.listed = {}]
<1>1. walk \in WalkState
    BY DEF WalkTypes
<1>2. /\ walk.phase = "current"
      /\ walk' = IF gone THEN failed ELSE IF next.page = <<>> THEN Answered(next) ELSE next
    BY DEF GetStoredRelease, Shown
<1>3. walk.kind = "modules" /\ walk.page # <<>> /\ walk.page \in Seq(Listed) /\ walk.got \in Seq(Brought)
    BY <1>2 DEF WalkTypes, WalkState
<1>4. t \in Seq(Listed) /\ Head(walk.page) \in Listed
    BY <1>3
<1>5. Shown \in Brought
    <2> DEFINE v == {r.version : r \in {s \in walk.listed : s.module = Head(walk.page).module}}
    <2>1. v \subseteq Nat
        <3>1. \A r \in walk.listed : r.version \in Nat
            BY <1>1, KeysAreTexts DEF WalkState, CatalogRow
        <3> QED BY <3>1
    <2> HIDE DEF v
    <2> QED BY <1>4, <2>1 DEF Shown, Brought, Listed, v
<1>6. g \in Seq(Brought)
    BY <1>3, <1>5
<1> HIDE DEF t, g, gone
<1>7. next \in WalkState
    BY <1>1, <1>4, <1>6 DEF WalkState
<1>8. /\ SameQuery(next, walk) /\ SameLife(next, walk) /\ next.phase = walk.phase /\ next.listed = walk.listed
      /\ next.offset = walk.offset /\ next.limit = walk.limit /\ next.total = walk.total
      /\ next.page = t /\ next.got = g
    BY <1>1 DEF WalkState, SameQuery, SameLife
<1>9. failed \in WalkState
    <2> DEFINE nothing == <<>>
    <2>1. nothing \in Seq(Listed) /\ {} \in SUBSET CatalogRow
        OBVIOUS
    <2>2. failed = [walk EXCEPT !.phase = "failed", !.page = nothing, !.listed = {}]
        OBVIOUS
    <2> HIDE DEF nothing, failed
    <2> QED BY <1>1, <2>1, <2>2 DEF WalkState
<1>10. /\ SameQuery(failed, walk) /\ SameLife(failed, walk) /\ failed.phase = "failed" /\ failed.listed = {}
       /\ failed.total = walk.total /\ failed.page = <<>> /\ failed.got = walk.got
    BY <1>1 DEF WalkState, SameQuery, SameLife
<1> HIDE DEF next, failed
<1>11. CASE gone
    BY <1>2, <1>3, <1>9, <1>10, <1>11 DEF gone
<1>12. CASE ~gone /\ t = <<>>
    BY <1>2, <1>3, <1>7, <1>8, <1>12, AnsweredIs DEF SameQuery, SameLife, Onwards, gone, t, g
<1>13. CASE ~gone /\ t # <<>>
    BY <1>2, <1>3, <1>7, <1>8, <1>13 DEF gone, t, g
<1> QED BY <1>11, <1>12, <1>13

-----------------------------------------------------------------------------
(* Rows keep their types, and the latest version stands                    *)

\* The versions of a module's rows.
VersionsOf(m) == {r.version : r \in RowsOf(m)}

LEMMA LatestIs ==
    ASSUME RowTypes, LatestStands, NEW m \in Catalogued
    PROVE  /\ VersionsOf(m) \subseteq DOMAIN Versions /\ NoVersion \notin DOMAIN Versions
           /\ VersionsOf(m) = {} <=> RowsOf(m) = {}
           /\ VersionsOf(m) = {} => newest[m] = NoVersion
           /\ VersionsOf(m) # {} => GreatestOf(newest[m], VersionsOf(m)) /\ newest[m] # NoVersion
<1>1. VersionsOf(m) \subseteq DOMAIN Versions
    BY DEF VersionsOf, RowsOf, RowTypes, CatalogRow
<1>2. NoVersion \notin DOMAIN Versions
    BY CatalogAssumption DEF NoVersion
<1>3. VersionsOf(m) = {} <=> RowsOf(m) = {}
    BY DEF VersionsOf
<1>4. IF RowsOf(m) = {} THEN newest[m] = NoVersion ELSE GreatestOf(newest[m], VersionsOf(m))
    BY DEF LatestStands, VersionsOf
<1> QED BY <1>1, <1>2, <1>3, <1>4 DEF GreatestOf

LEMMA InsertKeepsRows ==
    ASSUME RowTypes, LatestStands, NEW m \in Catalogued, NEW v \in Offered[m],
           NEW now \in {clock, clock + 1}, InsertRow(m, v, now)
    PROVE  RowTypes' /\ LatestStands'
<1> DEFINE new == [module |-> m, version |-> v, created |-> now]
           c == newest[m]
<1>1. v \in DOMAIN Versions /\ now \in Nat
    BY CatalogAssumption DEF RowTypes
<1>2. /\ \A r \in RowsOf(m) : r.version # v
      /\ rows' = rows \cup {new}
      /\ newest' = [newest EXCEPT ![m] = LatestOf(c, v)]
      /\ touched' = [touched EXCEPT ![m] = now] /\ clock' = now
    BY DEF InsertRow, Touch
<1>3. new \in CatalogRow /\ new.module = m /\ new.version = v
    BY <1>1 DEF CatalogRow
<1> HIDE DEF new
<1>4. LatestOf(c, v) \in Nat /\ newest'[m] = LatestOf(c, v)
      /\ \A k \in Catalogued \ {m} : newest'[k] = newest[k]
    <2>1. v \in Nat
        BY <1>1, CatalogAssumption
    <2> QED BY <1>2, <2>1 DEF LatestOf, RowTypes
<1>5. RowTypes'
    <2>1. IsFiniteSet(rows')
        BY <1>2, FS_AddElement DEF RowTypes
    <2>2. newest' \in [Catalogued -> Nat]
        BY <1>2, <1>4 DEF RowTypes
    <2>3. touched' \in [Catalogued -> Nat] /\ clock' \in Nat /\ rows' \subseteq CatalogRow
        BY <1>1, <1>2, <1>3 DEF RowTypes
    <2>4. \A r \in rows' : r.version \in Offered[r.module]
        BY <1>2, <1>3 DEF RowTypes
    <2>5. ASSUME NEW r \in rows, r.version = v PROVE FALSE
        <3>1. r.module \in Catalogued /\ v \in Offered[r.module]
            BY <2>5 DEF RowTypes, CatalogRow
        <3>2. r.module = m
            BY <3>1, CatalogAssumption
        <3> QED BY <1>2, <2>5, <3>2 DEF RowsOf
    <2>6. \A r, s \in rows' : r.version = s.version => r = s
        BY <1>2, <1>3, <2>5 DEF RowTypes
    <2> QED BY <2>1, <2>2, <2>3, <2>4, <2>6 DEF RowTypes
<1>6. /\ RowsOf(m)' = RowsOf(m) \cup {new}
      /\ \A k \in Catalogued \ {m} : RowsOf(k)' = RowsOf(k)
    BY <1>2, <1>3 DEF RowsOf
<1>7. VersionsOf(m)' = VersionsOf(m) \cup {v}
    BY <1>3, <1>6 DEF VersionsOf
<1>8. GreatestOf(newest'[m], VersionsOf(m) \cup {v})
    <2>0. ~ (<<v, v>> \in Less)
        BY <1>1, LessIs
    <2>1. CASE c = NoVersion \/ VersionsOf(m) = {}
        <3>1. VersionsOf(m) = {} /\ c = NoVersion
            BY <2>1, LatestIs
        <3>2. newest'[m] = v
            BY <1>4, <3>1 DEF LatestOf
        <3> QED BY <2>0, <3>1, <3>2 DEF GreatestOf
    <2>2. CASE c # NoVersion /\ VersionsOf(m) # {}
        <3>1. VersionsOf(m) \subseteq DOMAIN Versions /\ GreatestOf(c, VersionsOf(m))
            BY <2>2, LatestIs
        <3>2. c \in DOMAIN Versions
            BY <3>1 DEF GreatestOf
        <3>3. CASE <<c, v>> \in Less
            <4>1. newest'[m] = v
                BY <1>4, <3>3 DEF LatestOf
            <4>2. \A w \in VersionsOf(m) : ~ (<<v, w>> \in Less)
                BY <1>1, <3>1, <3>2, <3>3, LessIs DEF GreatestOf
            <4> QED BY <2>0, <4>1, <4>2 DEF GreatestOf
        <3>4. CASE ~ (<<c, v>> \in Less)
            BY <1>4, <2>2, <3>1, <3>4 DEF LatestOf, GreatestOf
        <3> QED BY <3>3, <3>4
    <2> QED BY <2>1, <2>2
<1>9. LatestStands'
    <2> SUFFICES ASSUME NEW k \in Catalogued
                 PROVE  IF RowsOf(k)' = {} THEN newest'[k] = NoVersion
                        ELSE GreatestOf(newest'[k], VersionsOf(k)')
        BY DEF LatestStands, VersionsOf
    <2>1. CASE k = m
        BY <1>6, <1>7, <1>8, <2>1
    <2>2. CASE k # m
        <3>1. RowsOf(k)' = RowsOf(k) /\ VersionsOf(k)' = VersionsOf(k) /\ newest'[k] = newest[k]
            BY <1>4, <1>6, <2>2 DEF VersionsOf
        <3> QED BY <3>1, LatestIs
    <2> QED BY <2>1, <2>2
<1> QED BY <1>5, <1>9

\* A replacement changes no row and no latest version.
LEMMA ReplaceKeepsRows ==
    ASSUME RowTypes, LatestStands, NEW r \in rows, NEW now \in {clock, clock + 1}, ReplaceRow(r, now)
    PROVE  RowTypes' /\ LatestStands' /\ rows' = rows /\ newest' = newest
<1> DEFINE m == r.module
<1>1. m \in Catalogued /\ r \in RowsOf(m) /\ r.version \in VersionsOf(m) /\ now \in Nat
    BY DEF RowTypes, CatalogRow, RowsOf, VersionsOf
<1>2. newest[m] # NoVersion /\ ~ (<<newest[m], r.version>> \in Less)
    BY <1>1, LatestIs DEF GreatestOf
<1>3. LatestOf(newest[m], r.version) = newest[m]
    BY <1>2 DEF LatestOf
<1>4. newest' = newest /\ rows' = rows /\ touched' = [touched EXCEPT ![m] = now] /\ clock' = now
    BY <1>1, <1>3 DEF ReplaceRow, Touch, RowTypes
<1>5. RowTypes'
    BY <1>1, <1>4 DEF RowTypes
<1>6. LatestStands'
    BY <1>4 DEF LatestStands, RowsOf
<1> QED BY <1>4, <1>5, <1>6

LEMMA DeleteKeepsRows ==
    ASSUME RowTypes, LatestStands, NEW r \in rows, NEW now \in {clock, clock + 1}, DeleteRow(r, now)
    PROVE  RowTypes' /\ LatestStands' /\ rows' = rows \ {r}
<1> DEFINE m == r.module
           left == RowsOf(m) \ {r}
<1>1. m \in Catalogued /\ now \in Nat
    BY DEF RowTypes, CatalogRow
<1>2. PICK v \in Recomputed(left) : newest' = [newest EXCEPT ![m] = v]
    BY DEF DeleteRow
<1>3. rows' = rows \ {r} /\ touched' = [touched EXCEPT ![m] = now] /\ clock' = now
    BY DEF DeleteRow, Touch
<1>4. /\ RowsOf(m)' = left
      /\ \A k \in Catalogued \ {m} : RowsOf(k)' = RowsOf(k)
    BY <1>3 DEF RowsOf
<1>5. IF left = {} THEN v = NoVersion ELSE GreatestOf(v, {s.version : s \in left})
    BY <1>2 DEF Recomputed, GreatestOf
<1>6. v \in Nat
    <2>1. \A s \in left : s.version \in Nat
        BY KeysAreTexts DEF RowsOf, RowTypes, CatalogRow
    <2> QED BY <1>5, <2>1 DEF GreatestOf, NoVersion
<1> HIDE DEF left
<1>7. newest'[m] = v /\ (\A k \in Catalogued \ {m} : newest'[k] = newest[k]) /\ newest' \in [Catalogued -> Nat]
    BY <1>1, <1>2, <1>6 DEF RowTypes
<1>8. RowTypes'
    <2>1. IsFiniteSet(rows')
        BY <1>3, FS_RemoveElement DEF RowTypes
    <2> QED BY <1>1, <1>3, <1>7, <2>1 DEF RowTypes
<1>9. LatestStands'
    <2> SUFFICES ASSUME NEW k \in Catalogued
                 PROVE  IF RowsOf(k)' = {} THEN newest'[k] = NoVersion
                        ELSE GreatestOf(newest'[k], VersionsOf(k)')
        BY DEF LatestStands, VersionsOf
    <2>1. CASE k = m
        BY <1>4, <1>5, <1>7, <2>1 DEF VersionsOf
    <2>2. CASE k # m
        <3>1. RowsOf(k)' = RowsOf(k) /\ VersionsOf(k)' = VersionsOf(k) /\ newest'[k] = newest[k]
            BY <1>4, <1>7, <2>2 DEF VersionsOf
        <3> QED BY <3>1, LatestIs
    <2> QED BY <2>1, <2>2
<1> QED BY <1>3, <1>8, <1>9

-----------------------------------------------------------------------------
(* The walk keeps its type                                                 *)

Undisturbed == rows' = rows /\ newest' = newest /\ touched' = touched /\ clock' = clock

LEMMA ReadingKeepsRows ==
    ASSUME RowTypes, LatestStands, Undisturbed
    PROVE  RowTypes' /\ LatestStands'
BY DEF RowTypes, LatestStands, RowsOf, Undisturbed

LEMMA ChangesKeepWalkTypes ==
    ASSUME WalkTypes, walk' \in WalkState, SameQuery(walk', walk), SamePage(walk', walk),
           walk.phase = "idle" => walk' = walk
    PROVE  WalkTypes'
BY NoWalkIs DEF WalkTypes, SameQuery, SamePage

LEMMA ReadingKeepsWalkTypes ==
    ASSUME RowTypes, WalkTypes,
           \/ \E w \in Walks : StartWalk(w)
           \/ Count \/ ListReleasesPage \/ ListModulesPage \/ ListReleasesForModules
           \/ GetStoredRelease \/ EndWalk
    PROVE  WalkTypes'
<1>1. ASSUME NEW w \in Walks, StartWalk(w) PROVE WalkTypes'
    BY <1>1, StartIs, NoWalkIs DEF WalkTypes
<1>2. CASE Count
    BY <1>2, CountIs, NoWalkIs DEF WalkTypes, SameQuery
<1>3. CASE ListReleasesPage
    BY <1>3, ReleasesPageIs, NoWalkIs DEF WalkTypes, SameQuery, Onwards
<1>4. CASE ListModulesPage
    BY <1>4, ModulesPageIs, NoWalkIs DEF WalkTypes, SameQuery
<1>5. CASE ListReleasesForModules
    BY <1>5, ReleasesForModulesIs, NoWalkIs DEF WalkTypes, SameQuery, Onwards
<1>6. CASE GetStoredRelease
    BY <1>6, GetReleaseIs, NoWalkIs DEF WalkTypes, SameQuery, Onwards
<1>7. CASE EndWalk
    BY <1>7, NoWalkIs DEF WalkTypes, EndWalk
<1> QED BY <1>1, <1>2, <1>3, <1>4, <1>5, <1>6, <1>7

-----------------------------------------------------------------------------
(* A walk through the releases                                             *)

LEMMA MembersAre ==
    ASSUME NEW S, NEW s \in Seq(S), NEW t \in Seq(S)
    PROVE  /\ Members(s \o t) = Members(s) \cup Members(t)
           /\ Members(s) \subseteq S
<1> DEFINE x == s \o t
<1>1. /\ Len(s) \in Nat /\ Len(t) \in Nat /\ DOMAIN s = 1..Len(s) /\ DOMAIN t = 1..Len(t)
      /\ DOMAIN x = 1..(Len(s) + Len(t))
      /\ \A i \in 1..Len(s) : x[i] = s[i]
      /\ \A i \in 1..Len(t) : x[Len(s) + i] = t[i]
    OBVIOUS
<1>2. \A i \in 1..Len(s) : s[i] \in S
    OBVIOUS
<1> HIDE DEF x
<1>3. ASSUME NEW i \in DOMAIN x PROVE x[i] \in Members(s) \cup Members(t)
    <2>1. CASE i <= Len(s)
        <3>1. i \in 1..Len(s)
            BY <1>1, <1>3, <2>1
        <3> QED BY <1>1, <3>1 DEF Members
    <2>2. CASE ~ (i <= Len(s))
        <3> DEFINE j == i - Len(s)
        <3>1. j \in 1..Len(t) /\ Len(s) + j = i
            BY <1>1, <1>3, <2>2
        <3> HIDE DEF j
        <3>2. x[i] = t[j]
            BY <1>1, <3>1
        <3> QED BY <1>1, <3>1, <3>2 DEF Members
    <2> QED BY <2>1, <2>2
<1>4. ASSUME NEW i \in 1..Len(s) PROVE s[i] \in Members(x)
    <2>1. i \in DOMAIN x /\ x[i] = s[i]
        BY <1>1
    <2> QED BY <2>1 DEF Members
<1>5. ASSUME NEW i \in 1..Len(t) PROVE t[i] \in Members(x)
    <2>1. Len(s) + i \in DOMAIN x /\ x[Len(s) + i] = t[i]
        BY <1>1
    <2> QED BY <2>1 DEF Members
<1>6. Members(x) = Members(s) \cup Members(t)
    BY <1>1, <1>3, <1>4, <1>5 DEF Members
<1> QED BY <1>1, <1>2, <1>6 DEF Members, x

LEMMA RowsPageIs ==
    ASSUME RowTypes, WalkTypes
    PROVE  LET p == Page(OrderedRows)
               n == Cardinality(SelectedRows)
               o == walk.offset
               l == walk.limit
           IN  /\ p \in Seq(SelectedRows) /\ n \in Nat /\ o \in Nat /\ l \in Nat \ {0}
               /\ Least(o, n) + Len(p) = Least(o + l, n)
               /\ \A i \in 1..Len(p) : /\ p[i] \in SelectedRows /\ RowPlace(p[i]) = o + i - 1
                                       /\ Least(o, n) = o /\ RowPlace(p[i]) < o + l
               /\ \A r \in SelectedRows : o <= RowPlace(r) /\ RowPlace(r) < o + l => r \in Members(p)
<1> DEFINE p == Page(OrderedRows)
           n == Cardinality(SelectedRows)
           o == walk.offset
           l == walk.limit
           q == OrderedRows
<1>1. /\ q \in Seq(SelectedRows) /\ Len(q) = n /\ n \in Nat
      /\ \A i \in 1..n : RowPlace(q[i]) = i - 1
    BY RowPlaces, RowsInOrder
<1>2. /\ p \in Seq(SelectedRows) /\ Least(o, n) + Len(p) = Least(o + l, n)
      /\ \A i \in 1..Len(p) : Least(o, n) = o /\ o + i \in 1..n /\ p[i] = q[o + i]
    BY <1>1, PageIs
<1>3. o \in Nat /\ l \in Nat \ {0}
    BY DEF WalkTypes, WalkState
<1> HIDE DEF p, n, o, l, q
<1>4. ASSUME NEW i \in 1..Len(p)
      PROVE  /\ p[i] \in SelectedRows /\ RowPlace(p[i]) = o + i - 1
             /\ Least(o, n) = o /\ RowPlace(p[i]) < o + l
    <2>1. Least(o, n) = o /\ o + i \in 1..n /\ p[i] = q[o + i] /\ Len(p) \in Nat
        BY <1>2
    <2>2. p[i] \in SelectedRows /\ RowPlace(p[i]) = o + i - 1
        <3> DEFINE j == o + i
        <3>1. j \in 1..n /\ p[i] = q[j] /\ j - 1 = o + i - 1
            BY <1>3, <2>1
        <3> HIDE DEF j
        <3>2. q[j] \in SelectedRows /\ RowPlace(q[j]) = j - 1
            BY <1>1, <3>1
        <3> QED BY <3>1, <3>2
    <2>3. o + Len(p) <= o + l
        BY <1>1, <1>2, <1>3, <2>1 DEF Least
    <2> QED BY <1>3, <2>1, <2>2, <2>3
<1>5. ASSUME NEW r \in SelectedRows, o <= RowPlace(r), RowPlace(r) < o + l
      PROVE  r \in Members(p)
    <2>1. RowPlace(r) \in 0..(n - 1)
        BY RowPlaces DEF n
    <2> DEFINE k == RowPlace(r) + 1
    <2>2. k \in 1..n /\ RowPlace(r) = k - 1
        BY <1>1, <2>1
    <2> HIDE DEF k
    <2>3. q[k] \in SelectedRows /\ RowPlace(q[k]) = RowPlace(r)
        BY <1>1, <2>2
    <2>4. q[k] = r
        BY <2>3, RowPlaces
    <2> DEFINE i == k - o
    <2>5. Least(o, n) = o /\ Len(p) \in Nat /\ Len(p) = Least(o + l, n) - o
        BY <1>1, <1>2, <1>3, <1>5, <2>1 DEF Least
    <2>6. i \in 1..Len(p) /\ o + i = k
        BY <1>1, <1>3, <1>5, <2>1, <2>2, <2>5 DEF Least
    <2> HIDE DEF i
    <2>7. p[i] = r /\ i \in DOMAIN p
        BY <1>2, <2>4, <2>6
    <2> QED BY <2>7 DEF Members
<1> QED BY <1>1, <1>2, <1>3, <1>4, <1>5 DEF p, n, o, l

LEMMA SameRows ==
    ASSUME rows' = rows, walk'.of = walk.of
    PROVE  /\ SelectedRows' = SelectedRows
           /\ \A r : RowPlace(r)' = RowPlace(r)
BY DEF SelectedRows, RowPlace, RowsBefore

\* With fewer rows, places get smaller.
LEMMA PlacesGrow ==
    ASSUME NEW S, NEW T, IsFiniteSet(T), S \subseteq T, NEW r
    PROVE  Cardinality({s \in S : RowBefore(s, r)}) <= Cardinality({s \in T : RowBefore(s, r)})
<1> DEFINE a == {s \in S : RowBefore(s, r)}
           b == {s \in T : RowBefore(s, r)}
<1>1. a \in SUBSET b /\ b \in SUBSET T
    OBVIOUS
<1> HIDE DEF a, b
<1>2. Cardinality(a) <= Cardinality(b)
    BY <1>1, FS_Subset
<1> QED BY <1>2 DEF a, b

LEMMA InsertKeepsReleases ==
    ASSUME RowTypes, WalkTypes, RowTypes', ReleasesInv,
           NEW m \in Catalogued, NEW v, NEW now, InsertRow(m, v, now)
    PROVE  ReleasesInv'
<1> SUFFICES ASSUME walk'.kind = "releases"
             PROVE  /\ walk'.stays \subseteq SelectedRows'
                    /\ ~walk'.deleted /\ walk'.phase # "done" =>
                          \A r \in walk'.stays : r \in Members(walk'.got) \/ RowPlace(r)' >= walk'.offset
                    /\ walk'.torn /\ walk'.created
    BY DEF ReleasesInv
<1>1. /\ SameQuery(walk', walk) /\ SamePage(walk', walk) /\ walk' \in WalkState
      /\ walk'.stays = walk.stays /\ walk'.deleted = walk.deleted
      /\ IF walk.phase = "idle" THEN walk' = walk
         ELSE walk'.created = TRUE /\ walk'.moved = TRUE /\ walk'.torn = TRUE
    BY InsertDisturbs
<1>2. walk.kind = "releases" /\ walk.phase # "idle"
    BY <1>1 DEF SameQuery, WalkTypes
<1>3. SelectedRows \subseteq SelectedRows' /\ IsFiniteSet(SelectedRows')
    <2>1. rows \subseteq rows' /\ walk'.of = walk.of
        BY <1>1 DEF InsertRow, SameQuery
    <2>2. SelectedRows' \in SUBSET rows' /\ IsFiniteSet(rows')
        BY DEF SelectedRows, RowTypes
    <2> QED BY <2>1, <2>2, FS_Subset DEF SelectedRows
<1>4. walk.stays \subseteq SelectedRows
    BY <1>2 DEF ReleasesInv
<1>5. ASSUME NEW r \in walk.stays, RowPlace(r) >= walk.offset PROVE RowPlace(r)' >= walk.offset
    <2>1. RowPlace(r) <= RowPlace(r)'
        BY <1>3, PlacesGrow DEF RowPlace, RowsBefore
    <2>2. RowPlace(r) \in Nat
        BY <1>4, RowPlaces
    <2>3. RowPlace(r)' \in Nat
        <3>1. RowsBefore(r)' \in SUBSET SelectedRows'
            BY DEF RowsBefore
        <3> QED BY <1>3, <3>1, FS_Subset, FS_CardinalityType DEF RowPlace
    <2>4. walk.offset \in Nat
        BY DEF WalkTypes, WalkState
    <2> QED BY <1>5, <2>1, <2>2, <2>3, <2>4
<1>6. ~walk.deleted /\ walk.phase # "done" =>
          \A r \in walk.stays : r \in Members(walk.got) \/ RowPlace(r) >= walk.offset
    BY <1>2 DEF ReleasesInv
<1>7. walk'.phase = walk.phase /\ walk'.got = walk.got /\ walk'.offset = walk.offset
    BY <1>1 DEF SamePage
<1> QED BY <1>1, <1>2, <1>3, <1>4, <1>5, <1>6, <1>7

LEMMA ReplaceKeepsReleases ==
    ASSUME WalkTypes, ReleasesInv, rows' = rows, NEW r \in rows, NEW now, ReplaceRow(r, now)
    PROVE  ReleasesInv'
<1>1. /\ SameQuery(walk', walk) /\ SamePage(walk', walk)
      /\ walk'.stays = walk.stays /\ walk'.deleted = walk.deleted
      /\ walk'.created = walk.created /\ walk'.torn = walk.torn
    BY ReplaceDisturbs
<1>2. SelectedRows' = SelectedRows /\ \A s : RowPlace(s)' = RowPlace(s)
    BY <1>1, SameRows DEF SameQuery
<1> QED BY <1>1, <1>2 DEF ReleasesInv, SameQuery, SamePage

LEMMA DeleteKeepsReleases ==
    ASSUME RowTypes, WalkTypes, ReleasesInv, rows' \subseteq rows,
           NEW r \in rows, NEW now, DeleteRow(r, now)
    PROVE  ReleasesInv'
<1> SUFFICES ASSUME walk'.kind = "releases"
             PROVE  /\ walk'.stays \subseteq SelectedRows' /\ walk'.deleted
                    /\ ~walk'.created =>
                          /\ NoRepeats(walk'.got) /\ ~walk'.torn
                          /\ walk'.phase # "done" =>
                                \A s \in Members(walk'.got) : s \in SelectedRows' => RowPlace(s)' < walk'.offset
    BY DEF ReleasesInv
<1>1. /\ SameQuery(walk', walk) /\ SamePage(walk', walk)
      /\ walk'.created = walk.created /\ walk'.torn = walk.torn
      /\ IF walk.phase = "idle" THEN walk' = walk
         ELSE walk'.deleted = TRUE /\ walk'.moved = TRUE /\ walk'.stays = walk.stays \ {r}
    BY DeleteDisturbs
<1>2. walk.kind = "releases" /\ walk.phase # "idle"
    BY <1>1 DEF SameQuery, WalkTypes
<1>3. rows' = rows \ {r} /\ walk'.of = walk.of
    BY <1>1 DEF DeleteRow, SameQuery
<1>4. SelectedRows' = SelectedRows \ {r}
    BY <1>3 DEF SelectedRows
<1>5. walk'.stays \subseteq SelectedRows'
    BY <1>1, <1>2, <1>4 DEF ReleasesInv
<1>6. ASSUME NEW s \in SelectedRows', RowPlace(s) < walk.offset PROVE RowPlace(s)' < walk.offset
    <2>1. IsFiniteSet(SelectedRows) /\ SelectedRows' \subseteq SelectedRows
        BY <1>4, RowPlaces
    <2>2. RowPlace(s)' <= RowPlace(s)
        BY <2>1, PlacesGrow DEF RowPlace, RowsBefore
    <2>3. RowPlace(s) \in Nat
        BY <2>1, RowPlaces
    <2>4. RowPlace(s)' \in Nat
        <3>1. RowsBefore(s)' \in SUBSET SelectedRows
            BY <2>1 DEF RowsBefore
        <3> QED BY <2>1, <3>1, FS_Subset, FS_CardinalityType DEF RowPlace
    <2>5. walk.offset \in Nat
        BY DEF WalkTypes, WalkState
    <2> QED BY <1>6, <2>2, <2>3, <2>4, <2>5
<1>7. walk'.phase = walk.phase /\ walk'.got = walk.got /\ walk'.offset = walk.offset
    BY <1>1 DEF SamePage
<1>8. ~walk.created =>
          /\ NoRepeats(walk.got) /\ ~walk.torn
          /\ walk.phase # "done" =>
                \A s \in Members(walk.got) : s \in SelectedRows => RowPlace(s) < walk.offset
    BY <1>2 DEF ReleasesInv
<1> QED BY <1>1, <1>2, <1>4, <1>5, <1>6, <1>7, <1>8

LEMMA StartKeepsReleases ==
    ASSUME RowTypes, WalkTypes, Undisturbed, NEW w \in Walks, StartWalk(w)
    PROVE  ReleasesInv'
<1> SUFFICES ASSUME walk'.kind = "releases" PROVE ReleasesInv'
    BY DEF ReleasesInv
<1>1. /\ walk'.phase = "count" /\ walk'.offset = 0 /\ walk'.got = <<>>
      /\ walk'.stays = {r \in rows : r.module \in walk'.of}
      /\ walk'.created = FALSE /\ walk'.deleted = FALSE /\ walk'.torn = FALSE
    BY StartIs
<1>2. walk'.stays = SelectedRows' /\ SelectedRows' \in SUBSET rows
    BY <1>1 DEF SelectedRows, Undisturbed
<1>3. IsFiniteSet(SelectedRows') /\ Cardinality(SelectedRows') \in Nat
    BY <1>2, FS_Subset, FS_CardinalityType DEF RowTypes
<1>4. ASSUME NEW r PROVE RowPlace(r)' >= 0
    <2>1. RowsBefore(r)' \in SUBSET SelectedRows'
        BY DEF RowsBefore
    <2>2. RowPlace(r)' \in Nat
        BY <1>3, <2>1, FS_Subset, FS_CardinalityType DEF RowPlace
    <2> QED BY <2>2
<1>5. Len(walk'.got) = 0 /\ DOMAIN walk'.got = {} /\ Members(walk'.got) = {}
    BY <1>1 DEF Members
<1>6. Least(0, Cardinality(SelectedRows')) = 0
    BY <1>3 DEF Least
<1> QED BY <1>1, <1>2, <1>4, <1>5, <1>6 DEF ReleasesInv, NoRepeats

LEMMA CountKeepsReleases ==
    ASSUME RowTypes, WalkTypes, ReleasesInv, Undisturbed, Count
    PROVE  ReleasesInv'
<1> SUFFICES ASSUME walk'.kind = "releases" PROVE ReleasesInv'
    BY DEF ReleasesInv
<1>1. /\ walk.phase = "count" /\ SameQuery(walk', walk) /\ walk'.phase = "page"
      /\ walk'.offset = walk.offset /\ walk'.got = walk.got /\ walk'.stays = walk.stays
      /\ walk'.created = walk.created /\ walk'.deleted = walk.deleted /\ walk'.torn = FALSE
      /\ walk.kind = "releases" => walk'.total = Cardinality(SelectedRows)
    BY CountIs
<1>2. SelectedRows' = SelectedRows /\ \A s : RowPlace(s)' = RowPlace(s)
    BY <1>1, SameRows DEF SameQuery, Undisturbed
<1>3. walk.kind = "releases"
    BY <1>1 DEF SameQuery
<1> QED BY <1>1, <1>2, <1>3 DEF ReleasesInv

\* The elements of two sequences one after the other.
LEMMA JoinedIs ==
    ASSUME NEW S, NEW s \in Seq(S), NEW t \in Seq(S)
    PROVE  /\ Len(s) \in Nat /\ Len(t) \in Nat /\ s \o t \in Seq(S)
           /\ Len(s \o t) = Len(s) + Len(t) /\ DOMAIN (s \o t) = 1..(Len(s) + Len(t))
           /\ \A i \in DOMAIN (s \o t) :
                 \/ i \in 1..Len(s) /\ (s \o t)[i] = s[i]
                 \/ \E j \in 1..Len(t) : i = Len(s) + j /\ (s \o t)[i] = t[j]
<1> DEFINE x == s \o t
<1>1. /\ Len(s) \in Nat /\ Len(t) \in Nat /\ x \in Seq(S) /\ Len(x) = Len(s) + Len(t)
      /\ DOMAIN x = 1..(Len(s) + Len(t))
      /\ \A i \in 1..Len(s) : x[i] = s[i]
      /\ \A i \in 1..Len(t) : x[Len(s) + i] = t[i]
    OBVIOUS
<1> HIDE DEF x
<1>2. ASSUME NEW i \in DOMAIN x
      PROVE  \/ i \in 1..Len(s) /\ x[i] = s[i]
             \/ \E j \in 1..Len(t) : i = Len(s) + j /\ x[i] = t[j]
    <2>1. CASE i <= Len(s)
        BY <1>1, <2>1
    <2>2. CASE ~ (i <= Len(s))
        <3> DEFINE j == i - Len(s)
        <3>1. j \in 1..Len(t) /\ i = Len(s) + j
            BY <1>1, <2>2
        <3> HIDE DEF j
        <3>2. x[i] = t[j]
            BY <1>1, <3>1
        <3> QED BY <3>1, <3>2
    <2> QED BY <2>1, <2>2
<1> QED BY <1>1, <1>2 DEF x

LEMMA NothingRepeats ==
    ASSUME NEW S, NEW s \in Seq(S), NEW t \in Seq(S),
           NoRepeats(s), NoRepeats(t), Members(s) \cap Members(t) = {}
    PROVE  NoRepeats(s \o t)
<1> DEFINE x == s \o t
<1>1. /\ Len(s) \in Nat /\ Len(t) \in Nat
      /\ \A i \in DOMAIN x : \/ i \in 1..Len(s) /\ x[i] = s[i]
                             \/ \E j \in 1..Len(t) : i = Len(s) + j /\ x[i] = t[j]
    BY JoinedIs
<1>2. /\ DOMAIN s = 1..Len(s) /\ DOMAIN t = 1..Len(t)
    OBVIOUS
<1> HIDE DEF x
<1>3. \A i \in 1..Len(s) : s[i] \in Members(s)
    BY <1>2 DEF Members
<1>4. \A i \in 1..Len(t) : t[i] \in Members(t)
    BY <1>2 DEF Members
<1>5. \A i, j \in 1..Len(s) : s[i] = s[j] => i = j
    BY <1>2 DEF NoRepeats
<1>6. \A i, j \in 1..Len(t) : t[i] = t[j] => i = j
    BY <1>2 DEF NoRepeats
<1>7. ASSUME NEW i \in DOMAIN x, NEW j \in DOMAIN x, x[i] = x[j] PROVE i = j
    <2>1. CASE i \in 1..Len(s) /\ x[i] = s[i]
        <3>1. CASE j \in 1..Len(s) /\ x[j] = s[j]
            BY <1>5, <1>7, <2>1, <3>1
        <3>2. CASE \E k \in 1..Len(t) : j = Len(s) + k /\ x[j] = t[k]
            BY <1>3, <1>4, <1>7, <2>1, <3>2
        <3> QED BY <1>1, <3>1, <3>2
    <2>2. CASE \E k \in 1..Len(t) : i = Len(s) + k /\ x[i] = t[k]
        <3>1. CASE j \in 1..Len(s) /\ x[j] = s[j]
            BY <1>3, <1>4, <1>7, <2>2, <3>1
        <3>2. CASE \E k \in 1..Len(t) : j = Len(s) + k /\ x[j] = t[k]
            BY <1>6, <1>7, <2>2, <3>2
        <3> QED BY <1>1, <3>1, <3>2
    <2> QED BY <1>1, <2>1, <2>2
<1> QED BY <1>7 DEF NoRepeats, x

LEMMA ReleasesPageKeepsReleases ==
    ASSUME RowTypes, WalkTypes, ReleasesInv, Undisturbed, ListReleasesPage
    PROVE  ReleasesInv'
<1> DEFINE p == Page(OrderedRows)
           n == Cardinality(SelectedRows)
           o == walk.offset
           l == walk.limit
           g == walk.got
<1>1. /\ walk.phase = "page" /\ walk.kind = "releases"
      /\ walk'.of = walk.of /\ SameLife(walk', walk)
      /\ p \in Seq(SelectedRows) /\ g \in Seq(Brought) /\ walk'.got = g \o p
      /\ IF o + l < walk.total THEN walk'.phase = "count" /\ walk'.offset = o + l
         ELSE walk'.phase = "done" /\ walk'.offset = o
    BY ReleasesPageIs DEF SameQuery, Onwards
<1>2. SelectedRows' = SelectedRows /\ \A r : RowPlace(r)' = RowPlace(r)
    BY <1>1, SameRows DEF Undisturbed
<1>3. /\ n \in Nat /\ o \in Nat /\ l \in Nat \ {0}
      /\ Least(o, n) + Len(p) = Least(o + l, n)
      /\ \A i \in 1..Len(p) : /\ p[i] \in SelectedRows /\ RowPlace(p[i]) = o + i - 1
                              /\ Least(o, n) = o /\ RowPlace(p[i]) < o + l
      /\ \A r \in SelectedRows : o <= RowPlace(r) /\ RowPlace(r) < o + l => r \in Members(p)
    BY RowsPageIs
<1>4. \A r \in SelectedRows : RowPlace(r) \in 0..(n - 1)
    BY RowPlaces
<1>5. /\ walk.stays \subseteq SelectedRows
      /\ ~walk.deleted => \A r \in walk.stays : r \in Members(g) \/ RowPlace(r) >= o
      /\ ~walk.deleted /\ ~walk.torn => walk.total = n
      /\ ~walk.created => /\ NoRepeats(g) /\ ~walk.torn
                          /\ \A r \in Members(g) : r \in SelectedRows => RowPlace(r) < o
      /\ ~walk.created /\ ~walk.deleted =>
            /\ \A i \in DOMAIN g : g[i] \in SelectedRows /\ RowPlace(g[i]) = i - 1
            /\ Len(g) = Least(o, n)
    BY <1>1 DEF ReleasesInv
<1> HIDE DEF p, n, o, l, g
<1>6. p \in Seq(Brought)
    <2>1. SelectedRows \subseteq Brought
        BY RowPlaces DEF Brought
    <2> HIDE DEF SelectedRows
    <2> QED BY <1>1, <2>1
<1>7. Members(walk'.got) = Members(g) \cup Members(p)
    BY <1>1, <1>6, MembersAre
<1>8. \A r \in Members(p) : \E i \in 1..Len(p) : r = p[i]
    BY <1>1 DEF Members
<1>9. walk'.stays \subseteq SelectedRows'
    BY <1>1, <1>2, <1>5 DEF SameLife
<1>10. ASSUME ~walk.deleted, NEW r \in walk.stays
       PROVE  r \in Members(walk'.got) \/ RowPlace(r) >= o + l
    <2>1. r \in SelectedRows /\ RowPlace(r) \in Nat
        BY <1>4, <1>5
    <2>2. r \in Members(g) \/ RowPlace(r) >= o
        BY <1>5, <1>10
    <2>3. RowPlace(r) >= o /\ ~ (RowPlace(r) >= o + l) => r \in Members(p)
        BY <1>3, <2>1
    <2> QED BY <1>7, <2>2, <2>3
<1>11. ~walk.deleted /\ ~walk.torn /\ walk'.phase = "done" =>
            walk.total = n /\ ~ (o + l < n) /\ walk.stays \subseteq Members(walk'.got)
    <2> SUFFICES ASSUME ~walk.deleted, ~walk.torn, walk'.phase = "done"
                 PROVE  walk.total = n /\ ~ (o + l < n) /\ walk.stays \subseteq Members(walk'.got)
        OBVIOUS
    <2>1. walk.total = n /\ ~ (o + l < n)
        BY <1>1, <1>5
    <2>2. ASSUME NEW r \in walk.stays PROVE r \in Members(walk'.got)
        <3>1. RowPlace(r) \in 0..(n - 1)
            BY <1>4, <1>5
        <3> QED BY <1>3, <1>10, <2>1, <3>1
    <2> QED BY <2>1, <2>2
<1>12. ASSUME ~walk.created
       PROVE  /\ NoRepeats(walk'.got) /\ ~walk.torn
              /\ \A r \in Members(walk'.got) : r \in SelectedRows => RowPlace(r) < o + l
    <2>1. NoRepeats(g) /\ ~walk.torn /\ \A r \in Members(g) : r \in SelectedRows => RowPlace(r) < o
        BY <1>5, <1>12
    <2>2. NoRepeats(p)
        <3>1. \A i, j \in 1..Len(p) : p[i] = p[j] => o + i - 1 = o + j - 1
            BY <1>3
        <3>2. DOMAIN p = 1..Len(p)
            BY <1>1
        <3>3. \A i, j \in 1..Len(p) : o + i - 1 = o + j - 1 => i = j
            BY <1>3
        <3> QED BY <3>1, <3>2, <3>3 DEF NoRepeats
    <2>3. ASSUME NEW r \in Members(p) PROVE r \in SelectedRows /\ RowPlace(r) >= o /\ RowPlace(r) < o + l
        <3>1. PICK i \in 1..Len(p) : r = p[i]
            BY <1>8
        <3>2. r \in SelectedRows /\ RowPlace(r) = o + i - 1 /\ RowPlace(r) < o + l
            BY <1>3, <3>1
        <3>3. i \in Nat /\ i >= 1
            OBVIOUS
        <3> QED BY <1>3, <3>2, <3>3
    <2>4. Members(g) \cap Members(p) = {}
        <3> SUFFICES ASSUME NEW r \in Members(g), r \in Members(p) PROVE FALSE
            OBVIOUS
        <3>1. r \in SelectedRows /\ RowPlace(r) >= o /\ RowPlace(r) < o
            BY <2>1, <2>3
        <3>2. RowPlace(r) \in Nat
            BY <1>4, <3>1
        <3> QED BY <1>3, <3>1, <3>2
    <2>5. NoRepeats(walk'.got)
        BY <1>1, <1>6, <2>1, <2>2, <2>4, NothingRepeats
    <2>6. ASSUME NEW r \in Members(walk'.got), r \in SelectedRows PROVE RowPlace(r) < o + l
        <3>1. CASE r \in Members(p)
            BY <2>3, <3>1
        <3>2. CASE r \in Members(g)
            <4>1. RowPlace(r) < o /\ RowPlace(r) \in Nat
                BY <1>4, <2>1, <2>6, <3>2
            <4> QED BY <1>3, <4>1
        <3> QED BY <1>7, <3>1, <3>2
    <2> QED BY <2>1, <2>5, <2>6
<1>13. ASSUME ~walk.created, ~walk.deleted
       PROVE  /\ \A i \in DOMAIN walk'.got : walk'.got[i] \in SelectedRows /\ RowPlace(walk'.got[i]) = i - 1
              /\ Len(walk'.got) = Least(o + l, n)
    <2>1. /\ \A i \in DOMAIN g : g[i] \in SelectedRows /\ RowPlace(g[i]) = i - 1
          /\ Len(g) = Least(o, n)
        BY <1>5, <1>13
    <2>2. DOMAIN g = 1..Len(g)
        BY <1>1
    <2>3. /\ Len(g) \in Nat /\ Len(p) \in Nat /\ Len(walk'.got) = Len(g) + Len(p)
          /\ \A i \in DOMAIN walk'.got : \/ i \in 1..Len(g) /\ walk'.got[i] = g[i]
                                         \/ \E j \in 1..Len(p) : i = Len(g) + j /\ walk'.got[i] = p[j]
        BY <1>1, <1>6, JoinedIs
    <2>4. Len(walk'.got) = Least(o + l, n)
        BY <1>3, <2>1, <2>3
    <2>5. ASSUME NEW i \in DOMAIN walk'.got
          PROVE  walk'.got[i] \in SelectedRows /\ RowPlace(walk'.got[i]) = i - 1
        <3>1. CASE i \in 1..Len(g) /\ walk'.got[i] = g[i]
            BY <2>1, <2>2, <3>1
        <3>2. ASSUME NEW j \in 1..Len(p), i = Len(g) + j, walk'.got[i] = p[j]
              PROVE  walk'.got[i] \in SelectedRows /\ RowPlace(walk'.got[i]) = i - 1
            <4>1. p[j] \in SelectedRows /\ RowPlace(p[j]) = o + j - 1 /\ Least(o, n) = o
                BY <1>3
            <4>2. i = o + j
                BY <2>1, <3>2, <4>1
            <4>3. i - 1 = o + j - 1
                BY <1>3, <4>2
            <4> QED BY <3>2, <4>1, <4>3
        <3> QED BY <2>3, <3>1, <3>2
    <2> QED BY <2>4, <2>5
<1>14. ~ (o + l < n) => Least(o + l, n) = n
    BY <1>3 DEF Least
<1>15. /\ walk'.stays = walk.stays /\ walk'.created = walk.created /\ walk'.deleted = walk.deleted
       /\ walk'.torn = walk.torn /\ walk'.phase \in {"count", "done"}
       /\ walk'.phase = "count" => walk'.offset = o + l
    BY <1>1 DEF SameLife
<1>16. ~walk'.deleted /\ walk'.phase # "done" =>
            \A r \in walk'.stays : r \in Members(walk'.got) \/ RowPlace(r)' >= walk'.offset
    BY <1>2, <1>10, <1>15
<1>17. ~walk'.created => /\ NoRepeats(walk'.got) /\ ~walk'.torn
                         /\ walk'.phase # "done" =>
                               \A r \in Members(walk'.got) : r \in SelectedRows' => RowPlace(r)' < walk'.offset
    BY <1>2, <1>12, <1>15
<1>18. ~walk'.created /\ ~walk'.deleted =>
            /\ (\A i \in DOMAIN walk.got : walk.got[i] \in SelectedRows /\ RowPlace(walk.got[i]) = i - 1)'
            /\ Len(walk'.got) = IF walk'.phase = "done" THEN Cardinality(SelectedRows')
                                ELSE Least(walk'.offset, Cardinality(SelectedRows'))
    BY <1>2, <1>11, <1>12, <1>13, <1>14, <1>15 DEF n
<1>19. ~walk'.deleted /\ ~walk'.torn =>
            /\ walk'.phase = "page" => walk'.total = Cardinality(SelectedRows')
            /\ walk'.phase = "done" => walk'.stays \subseteq Members(walk'.got)
    BY <1>11, <1>15
<1> QED BY <1>9, <1>16, <1>17, <1>18, <1>19 DEF ReleasesInv

-----------------------------------------------------------------------------
(* A walk through the modules                                              *)

LEMMA ModulesAreFinite ==
    ASSUME NEW T, IsFiniteSet(T), NEW S, \A m \in S : \E r \in T : r.module = m
    PROVE  IsFiniteSet(S) /\ Cardinality(S) \in Nat
<1> DEFINE t == {r \in T : r.module \in S}
           f == [r \in t |-> r.module]
<1>1. t \in SUBSET T /\ (\A r \in t : r.module \in S) /\ \A m \in S : \E r \in t : r.module = m
    OBVIOUS
<1>2. IsFiniteSet(t)
    BY <1>1, FS_Subset
<1> HIDE DEF t
<1>3. f \in Surjection(t, S)
    BY <1>1 DEF Surjection
<1> HIDE DEF f
<1> QED BY <1>2, <1>3, FS_Surjection, FS_CardinalityType

LEMMA SameModules ==
    ASSUME rows' = rows, touched' = touched, walk'.of = walk.of, walk'.first = walk.first
    PROVE  /\ SelectedModules' = SelectedModules
           /\ \A m : RowsOf(m)' = RowsOf(m)
           /\ \A m : ModulePlace(m)' = ModulePlace(m)
<1>1. \A m : RowsOf(m)' = RowsOf(m)
    BY DEF RowsOf
<1>2. SelectedModules' = SelectedModules
    BY <1>1 DEF SelectedModules
<1>3. ASSUME NEW m PROVE ModulesBefore(m)' = ModulesBefore(m)
    BY <1>2 DEF ModulesBefore, ModuleBefore
<1> QED BY <1>1, <1>2, <1>3 DEF ModulePlace

LEMMA BroughtStays ==
    ASSUME Undisturbed, SameQuery(walk', walk), NEW i, walk'.got[i] = walk.got[i], ModuleBrought(i)
    PROVE  ModuleBrought(i)'
<1>1. /\ SelectedModules' = SelectedModules
      /\ \A m : RowsOf(m)' = RowsOf(m)
      /\ \A m : ModulePlace(m)' = ModulePlace(m)
      /\ newest' = newest
    BY SameModules DEF Undisturbed, SameQuery
<1> QED BY <1>1 DEF ModuleBrought

LEMMA AwaitedStays ==
    ASSUME Undisturbed, SameQuery(walk', walk), NEW i, walk'.page[i] = walk.page[i],
           walk'.got = walk.got, ModuleAwaited(i)
    PROVE  ModuleAwaited(i)'
<1>1. /\ SelectedModules' = SelectedModules
      /\ \A m : ModulePlace(m)' = ModulePlace(m)
      /\ newest' = newest
    BY SameModules DEF Undisturbed, SameQuery
<1> QED BY <1>1 DEF ModuleAwaited

LEMMA InsertKeepsModules ==
    ASSUME WalkTypes, ModulesInv, NEW m \in Catalogued, NEW v, NEW now, InsertRow(m, v, now)
    PROVE  ModulesInv'
<1> SUFFICES ASSUME walk'.kind = "modules" PROVE ModulesInv'
    BY DEF ModulesInv
<1>1. /\ SameQuery(walk', walk) /\ SamePage(walk', walk) /\ walk'.deleted = walk.deleted
      /\ walk.phase = "idle" \/ walk'.moved
    BY InsertDisturbs
<1>2. walk.kind = "modules" /\ walk.phase # "idle"
    BY <1>1 DEF SameQuery, WalkTypes
<1>3. \A k : RowsOf(k) \subseteq RowsOf(k)'
    BY DEF InsertRow, RowsOf
<1> QED BY <1>1, <1>2, <1>3 DEF ModulesInv, SamePage

LEMMA ReplaceKeepsModules ==
    ASSUME WalkTypes, ModulesInv, rows' = rows, NEW r \in rows, NEW now, ReplaceRow(r, now)
    PROVE  ModulesInv'
<1> SUFFICES ASSUME walk'.kind = "modules" PROVE ModulesInv'
    BY DEF ModulesInv
<1>1. /\ SameQuery(walk', walk) /\ SamePage(walk', walk) /\ walk'.deleted = walk.deleted
      /\ walk.phase = "idle" \/ walk'.moved
    BY ReplaceDisturbs
<1>2. walk.kind = "modules" /\ walk.phase # "idle"
    BY <1>1 DEF SameQuery, WalkTypes
<1>3. \A k : RowsOf(k)' = RowsOf(k)
    BY DEF RowsOf
<1> QED BY <1>1, <1>2, <1>3 DEF ModulesInv, SamePage

LEMMA DeleteKeepsModules ==
    ASSUME WalkTypes, NEW r \in rows, NEW now, DeleteRow(r, now)
    PROVE  ModulesInv'
<1> SUFFICES ASSUME walk'.kind = "modules" PROVE walk'.moved /\ walk'.deleted
    BY DEF ModulesInv
<1>1. walk.phase = "idle" \/ (walk'.moved /\ walk'.deleted)
    BY DeleteDisturbs
<1>2. walk.phase # "idle"
    BY DeleteDisturbs DEF SameQuery, WalkTypes
<1> QED BY <1>1, <1>2

LEMMA StartKeepsModules ==
    ASSUME RowTypes, WalkTypes, Undisturbed, NEW w \in Walks, StartWalk(w)
    PROVE  ModulesInv'
<1> SUFFICES ASSUME walk'.kind = "modules" PROVE ModulesInv'
    BY DEF ModulesInv
<1>1. /\ walk'.phase = "count" /\ walk'.offset = 0 /\ walk'.got = <<>> /\ walk'.page = <<>>
      /\ walk'.listed = {}
    BY StartIs
<1>2. \A k \in SelectedModules' : \E r \in rows' : r.module = k
    BY DEF SelectedModules, RowsOf
<1>3. Cardinality(SelectedModules') \in Nat
    BY <1>2, ModulesAreFinite DEF RowTypes, Undisturbed
<1>4. Goal' = 0
    BY <1>1, <1>3 DEF Goal, Least
<1>5. Len(walk'.got) + Len(walk'.page) = 0 /\ DOMAIN walk'.got = {} /\ DOMAIN walk'.page = {}
    BY <1>1
<1> QED BY <1>1, <1>4, <1>5 DEF ModulesInv

LEMMA CountKeepsModules ==
    ASSUME RowTypes, WalkTypes, ModulesInv, Undisturbed, Count
    PROVE  ModulesInv'
<1> SUFFICES ASSUME walk'.kind = "modules" PROVE ModulesInv'
    BY DEF ModulesInv
<1>1. /\ walk.phase = "count" /\ SameQuery(walk', walk) /\ walk'.phase = "page"
      /\ walk'.offset = walk.offset /\ walk'.page = walk.page /\ walk'.listed = walk.listed
      /\ walk'.got = walk.got /\ walk'.deleted = walk.deleted /\ walk'.moved = walk.moved
      /\ walk.kind = "modules" => walk'.total = Cardinality(SelectedModules)
    BY CountIs
<1>2. walk.kind = "modules"
    BY <1>1 DEF SameQuery
<1>3. SelectedModules' = SelectedModules /\ \A k : RowsOf(k)' = RowsOf(k)
    BY <1>1, SameModules DEF SameQuery, Undisturbed
<1>4. Goal' = Goal
    BY <1>1, <1>3 DEF Goal
<1>5. ~walk.moved => /\ \A i \in DOMAIN walk'.got : ModuleBrought(i)'
                     /\ \A i \in DOMAIN walk'.page : ModuleAwaited(i)'
    BY <1>1, <1>2, BroughtStays, AwaitedStays DEF ModulesInv
<1> QED BY <1>1, <1>2, <1>3, <1>4, <1>5 DEF ModulesInv, Undisturbed

LEMMA ModulesPageHas ==
    ASSUME RowTypes, WalkTypes
    PROVE  LET p == Page(OrderedModules)
               n == Cardinality(SelectedModules)
               o == walk.offset
               l == walk.limit
           IN  /\ n \in Nat /\ o \in Nat /\ l \in Nat \ {0} /\ Len(p) \in Nat
               /\ Least(o, n) + Len(p) = Least(o + l, n)
               /\ \A i \in 1..Len(p) : p[i] \in SelectedModules /\ ModulePlace(p[i]) = Least(o, n) + i - 1
<1> DEFINE p == Page(OrderedModules)
           n == Cardinality(SelectedModules)
           o == walk.offset
           l == walk.limit
           q == OrderedModules
<1>1. /\ q \in Seq(SelectedModules) /\ Len(q) = n /\ n \in Nat
      /\ \A i \in 1..n : ModulePlace(q[i]) = i - 1
    BY ModulePlaces, ModulesInOrder
<1>2. /\ p \in Seq(SelectedModules) /\ Least(o, n) + Len(p) = Least(o + l, n)
      /\ \A i \in 1..Len(p) : Least(o, n) = o /\ o + i \in 1..n /\ p[i] = q[o + i]
    BY <1>1, PageIs
<1>3. o \in Nat /\ l \in Nat \ {0}
    BY DEF WalkTypes, WalkState
<1> HIDE DEF p, n, o, l, q
<1>4. Len(p) \in Nat
    BY <1>2
<1>5. ASSUME NEW i \in 1..Len(p)
      PROVE  p[i] \in SelectedModules /\ ModulePlace(p[i]) = Least(o, n) + i - 1
    <2> DEFINE j == o + i
    <2>1. Least(o, n) = o /\ j \in 1..n /\ p[i] = q[j] /\ j - 1 = o + i - 1
        BY <1>2, <1>3, <1>4
    <2> HIDE DEF j
    <2>2. q[j] \in SelectedModules /\ ModulePlace(q[j]) = j - 1
        BY <1>1, <2>1
    <2> QED BY <2>1, <2>2
<1> QED BY <1>1, <1>2, <1>3, <1>4, <1>5 DEF p, n, o, l

LEMMA ModulesPageKeepsModules ==
    ASSUME RowTypes, WalkTypes, LatestStands, ModulesInv, Undisturbed, ListModulesPage
    PROVE  ModulesInv'
<1> DEFINE p == Page(OrderedModules)
           n == Cardinality(SelectedModules)
<1>1. /\ walk.phase = "page" /\ walk.kind = "modules"
      /\ walk' \in WalkState /\ SameQuery(walk', walk) /\ SameLife(walk', walk)
      /\ walk'.phase = "versions" /\ walk'.offset = walk.offset /\ walk'.total = walk.total
      /\ walk'.listed = walk.listed /\ walk'.got = walk.got /\ Len(walk'.page) = Len(p)
      /\ \A i \in 1..Len(p) : /\ walk'.page[i].module = p[i] /\ walk'.page[i].latest = newest[p[i]]
                              /\ p[i] \in SelectedModules
    BY ModulesPageIs
<1>2. /\ n \in Nat /\ walk.offset \in Nat /\ walk.limit \in Nat \ {0} /\ Len(p) \in Nat
      /\ Least(walk.offset, n) + Len(p) = Least(walk.offset + walk.limit, n)
      /\ \A i \in 1..Len(p) : ModulePlace(p[i]) = Least(walk.offset, n) + i - 1
    BY ModulesPageHas
<1> HIDE DEF p, n
<1>3. /\ SelectedModules' = SelectedModules
      /\ \A m : RowsOf(m)' = RowsOf(m)
      /\ \A m : ModulePlace(m)' = ModulePlace(m)
      /\ newest' = newest /\ rows' = rows
    BY <1>1, SameModules DEF Undisturbed, SameQuery
<1>4. DOMAIN walk'.page = 1..Len(p)
    BY <1>1 DEF WalkState
<1>5. walk.page = <<>> /\ Len(walk.page) = 0 /\ Len(walk.got) \in Nat
    BY <1>1 DEF WalkTypes, WalkState
<1>6. ASSUME NEW m \in SelectedModules PROVE \E r \in RowsOf(m) : r.version = newest[m]
    <2>1. m \in Catalogued /\ RowsOf(m) # {}
        BY DEF SelectedModules, WalkTypes, WalkState
    <2> QED BY <2>1 DEF LatestStands, GreatestOf
<1>7. ASSUME NEW i \in DOMAIN walk'.page
      PROVE  \E r \in RowsOf(walk'.page[i].module) : r.version = walk'.page[i].latest
    BY <1>1, <1>4, <1>6
<1>8. ASSUME ~walk.moved
      PROVE  /\ walk.total = n /\ walk.listed \subseteq rows /\ Len(walk.got) = Least(walk.offset, n)
             /\ \A i \in DOMAIN walk.got : ModuleBrought(i)
    <2>1. /\ walk.total = n /\ walk.listed \subseteq rows /\ Len(walk.got) + Len(walk.page) = Goal
          /\ \A i \in DOMAIN walk.got : ModuleBrought(i)
        BY <1>1, <1>8 DEF ModulesInv, n
    <2>2. Goal = Least(walk.offset, n)
        BY <1>1 DEF Goal, n
    <2> QED BY <1>5, <2>1, <2>2
<1>9. ASSUME ~walk.moved
      PROVE  /\ Len(walk'.got) + Len(walk'.page) = Goal'
             /\ \A i \in DOMAIN walk'.got : ModuleBrought(i)'
             /\ \A i \in DOMAIN walk'.page : ModuleAwaited(i)'
    <2>1. Goal' = Least(walk.offset + walk.limit, n)
        BY <1>1, <1>3 DEF Goal, SameQuery, n
    <2>2. \A i \in DOMAIN walk'.got : ModuleBrought(i)'
        BY <1>1, <1>8, <1>9, BroughtStays
    <2>3. ASSUME NEW i \in DOMAIN walk'.page PROVE ModuleAwaited(i)'
        <3>1. /\ walk'.page[i].module = p[i] /\ walk'.page[i].latest = newest[p[i]]
              /\ p[i] \in SelectedModules /\ ModulePlace(p[i]) = Len(walk.got) + i - 1
            BY <1>1, <1>2, <1>4, <1>8, <1>9
        <3> QED BY <1>1, <1>3, <3>1 DEF ModuleAwaited
    <2> QED BY <1>1, <1>2, <1>8, <1>9, <2>1, <2>2, <2>3
<1>10. walk'.moved = walk.moved /\ walk'.deleted = walk.deleted
    BY <1>1 DEF SameLife
<1>11. \A i \in DOMAIN walk'.page : (\E r \in RowsOf(walk.page[i].module) : r.version = walk.page[i].latest)'
    BY <1>3, <1>7
<1> QED BY <1>1, <1>3, <1>8, <1>9, <1>10, <1>11 DEF ModulesInv, n

\* After a page, the walk has brought what it is to have brought.
LEMMA OnwardsIs ==
    ASSUME RowTypes, WalkTypes, SameQuery(walk', walk), Undisturbed, Onwards,
           walk.total = Cardinality(SelectedModules)
    PROVE  Goal' = Least(walk.offset + walk.limit, Cardinality(SelectedModules))
<1> DEFINE n == Cardinality(SelectedModules)
           e == walk.offset + walk.limit
<1>1. n \in Nat /\ walk.offset \in Nat /\ walk.limit \in Nat
    BY ModulePlaces DEF WalkTypes, WalkState
<1>2. Cardinality(SelectedModules') = n
    BY SameModules DEF SameQuery, Undisturbed
<1>3. IF e < n THEN walk'.phase = "count" /\ walk'.offset = e ELSE walk'.phase = "done"
    BY DEF Onwards
<1>4. Goal' = CASE walk'.phase \in {"count", "page"}       -> Least(walk'.offset, n)
                [] walk'.phase \in {"versions", "current"} -> Least(walk'.offset + walk'.limit, n)
                [] OTHER                                   -> n
    BY <1>2 DEF Goal
<1> HIDE DEF n
<1>5. e \in Nat
    BY <1>1
<1> HIDE DEF e
<1>6. CASE e < n
    BY <1>3, <1>4, <1>6 DEF n, e
<1>7. CASE ~ (e < n)
    <2>1. Goal' = n
        BY <1>3, <1>4, <1>7
    <2>2. Least(e, n) = n
        BY <1>7 DEF Least
    <2> QED BY <2>1, <2>2 DEF n, e
<1> QED BY <1>6, <1>7

LEMMA ReleasesForModulesKeepsModules ==
    ASSUME RowTypes, WalkTypes, ModulesInv, Undisturbed, ListReleasesForModules
    PROVE  ModulesInv'
<1> DEFINE n == Cardinality(SelectedModules)
           e == walk.offset + walk.limit
<1>1. /\ walk.phase = "versions" /\ walk.kind = "modules"
      /\ walk' \in WalkState /\ SameQuery(walk', walk) /\ SameLife(walk', walk)
      /\ walk'.page = walk.page /\ walk'.total = walk.total /\ walk'.got = walk.got
      /\ IF walk.page = <<>> THEN walk'.listed = {} /\ Onwards
         ELSE /\ walk'.phase = "current" /\ walk'.offset = walk.offset
              /\ walk'.listed = {r \in rows : \E i \in DOMAIN walk.page : walk.page[i].module = r.module}
    BY ReleasesForModulesIs
<1>2. /\ SelectedModules' = SelectedModules /\ rows' = rows
      /\ \A m : RowsOf(m)' = RowsOf(m)
    BY <1>1, SameModules DEF Undisturbed, SameQuery
<1>3. walk'.moved = walk.moved /\ walk'.deleted = walk.deleted
    BY <1>1 DEF SameLife
<1>4. walk'.listed \subseteq rows'
    BY <1>1, <1>2
<1>5. ASSUME walk'.phase = "current", NEW i \in DOMAIN walk'.page
      PROVE  RowsOf(walk'.page[i].module) \subseteq walk'.listed
    <2>1. walk.page # <<>>
        BY <1>1, <1>5 DEF Onwards
    <2>2. \A r \in RowsOf(walk.page[i].module) : r \in rows /\ walk.page[i].module = r.module
        BY DEF RowsOf
    <2> QED BY <1>1, <1>5, <2>1, <2>2
<1>6. ASSUME ~walk.moved
      PROVE  /\ walk.total = n /\ Len(walk.got) + Len(walk.page) = Least(e, n)
             /\ \A i \in DOMAIN walk'.got : ModuleBrought(i)'
             /\ \A i \in DOMAIN walk'.page : ModuleAwaited(i)'
    <2>1. /\ walk.total = n /\ Len(walk.got) + Len(walk.page) = Goal
          /\ \A i \in DOMAIN walk.got : ModuleBrought(i)
          /\ \A i \in DOMAIN walk.page : ModuleAwaited(i)
        BY <1>1, <1>6 DEF ModulesInv
    <2>2. Goal = Least(e, n)
        BY <1>1 DEF Goal
    <2> QED BY <1>1, <2>1, <2>2, BroughtStays, AwaitedStays
<1>7. ~walk.moved => Goal' = Least(e, n)
    <2>1. CASE walk.page = <<>>
        BY <1>1, <1>6, <2>1, OnwardsIs
    <2>2. CASE walk.page # <<>>
        BY <1>1, <1>2, <2>2 DEF Goal, SameQuery
    <2> QED BY <2>1, <2>2
<1> HIDE DEF n, e
<1>8. ~walk'.moved => Len(walk'.got) + Len(walk'.page) = Goal'
    BY <1>1, <1>3, <1>6, <1>7
<1>9. ~walk.deleted => \A i \in DOMAIN walk.page :
          \E r \in RowsOf(walk.page[i].module) : r.version = walk.page[i].latest
    BY <1>1 DEF ModulesInv
<1>10. ~walk'.deleted => \A i \in DOMAIN walk'.page :
          (\E r \in RowsOf(walk.page[i].module) : r.version = walk.page[i].latest)'
    BY <1>1, <1>2, <1>3, <1>9
<1>11. walk'.phase = "current" => \A i \in DOMAIN walk'.page : (RowsOf(walk.page[i].module) \subseteq walk.listed)'
    BY <1>2, <1>5
<1>12. walk'.phase # "failed"
    BY <1>1 DEF Onwards
<1>13. ~walk'.moved => walk'.total = Cardinality(SelectedModules')
    BY <1>1, <1>2, <1>3, <1>6 DEF n
<1> QED BY <1>3, <1>4, <1>6, <1>8, <1>10, <1>11, <1>12, <1>13 DEF ModulesInv

LEMMA GetReleaseKeepsModules ==
    ASSUME RowTypes, WalkTypes, ModulesInv, Undisturbed, GetStoredRelease
    PROVE  ModulesInv'
<1> DEFINE n == Cardinality(SelectedModules)
           e == walk.offset + walk.limit
           h == Head(walk.page)
           gone == \A r \in RowsOf(h.module) : r.version # h.latest
<1>1. /\ walk.phase = "current" /\ walk.kind = "modules"
      /\ walk' \in WalkState /\ SameQuery(walk', walk) /\ SameLife(walk', walk)
      /\ walk'.total = walk.total
      /\ walk.page # <<>> /\ walk.page \in Seq(Listed) /\ walk.got \in Seq(Brought)
      /\ IF gone
         THEN walk'.phase = "failed" /\ walk'.page = <<>> /\ walk'.listed = {} /\ walk'.got = walk.got
         ELSE /\ walk'.got = Append(walk.got, Shown) /\ walk'.page = Tail(walk.page)
              /\ IF Tail(walk.page) = <<>> THEN Onwards /\ walk'.listed = {}
                 ELSE walk'.phase = "current" /\ walk'.listed = walk.listed /\ walk'.offset = walk.offset
    BY GetReleaseIs
<1>2. /\ SelectedModules' = SelectedModules /\ rows' = rows
      /\ \A m : RowsOf(m)' = RowsOf(m)
      /\ \A m : ModulePlace(m)' = ModulePlace(m)
      /\ newest' = newest
    BY <1>1, SameModules DEF Undisturbed, SameQuery
<1>3. walk'.moved = walk.moved /\ walk'.deleted = walk.deleted
    BY <1>1 DEF SameLife
<1>4. h = walk.page[1] /\ 1 \in DOMAIN walk.page /\ Len(walk.page) \in Nat \ {0}
    BY <1>1
<1>5. ~walk.deleted => \A i \in DOMAIN walk.page :
          \E r \in RowsOf(walk.page[i].module) : r.version = walk.page[i].latest
    BY <1>1 DEF ModulesInv
<1>6. gone => walk.deleted
    BY <1>4, <1>5
<1>7. ASSUME ~walk.moved
      PROVE  /\ walk.total = n /\ Len(walk.got) + Len(walk.page) = Least(e, n)
             /\ walk.listed \subseteq rows
             /\ \A i \in DOMAIN walk.page : RowsOf(walk.page[i].module) \subseteq walk.listed
             /\ \A i \in DOMAIN walk.got : ModuleBrought(i)
             /\ \A i \in DOMAIN walk.page : ModuleAwaited(i)
    <2>1. Goal = Least(e, n)
        BY <1>1 DEF Goal
    <2> QED BY <1>1, <1>7, <2>1 DEF ModulesInv
<1>8. CASE gone
    <2>1. walk'.deleted /\ walk'.phase = "failed" /\ DOMAIN walk'.page = {} /\ walk'.listed = {}
        BY <1>1, <1>3, <1>6, <1>8
    <2>2. ~walk'.moved => \A i \in DOMAIN walk'.got : ModuleBrought(i)'
        BY <1>1, <1>3, <1>7, <1>8, BroughtStays
    <2> QED BY <2>1, <2>2 DEF ModulesInv
<1>9. CASE ~gone
    <2> DEFINE t == Tail(walk.page)
               g == Append(walk.got, Shown)
    <2>0. /\ walk'.got = g /\ walk'.page = t
          /\ IF t = <<>> THEN Onwards /\ walk'.listed = {}
             ELSE walk'.phase = "current" /\ walk'.listed = walk.listed /\ walk'.offset = walk.offset
        BY <1>1, <1>9
    <2>1. /\ Len(t) = Len(walk.page) - 1 /\ DOMAIN t = 1..Len(t)
          /\ \A i \in 1..Len(t) : t[i] = walk.page[i + 1] /\ i + 1 \in DOMAIN walk.page
        BY <1>1, <1>4
    <2>2. /\ Len(g) = Len(walk.got) + 1 /\ Len(walk.got) \in Nat
          /\ DOMAIN g = 1..(Len(walk.got) + 1) /\ DOMAIN walk.got = 1..Len(walk.got)
          /\ \A i \in 1..Len(walk.got) : g[i] = walk.got[i]
          /\ g[Len(walk.got) + 1] = Shown
        BY <1>1
    <2> HIDE DEF t, g, gone, n, e, h
    <2>3. ASSUME ~walk.moved
          PROVE  /\ Len(walk'.got) + Len(walk'.page) = Least(e, n)
                 /\ Goal' = Least(e, n)
        <3>1. Len(walk'.got) + Len(walk'.page) = Least(e, n)
            <4> DEFINE a == Len(walk.got)
                       b == Len(walk.page)
                       c == Len(walk'.got)
                       d == Len(walk'.page)
            <4>1. a + b = Least(e, n)
                BY <1>7, <2>3
            <4>2. c = a + 1 /\ d = b - 1
                BY <2>0, <2>1, <2>2
            <4>3. a \in Nat /\ b \in Nat
                BY <1>4, <2>2
            <4> HIDE DEF a, b, c, d
            <4>4. c + d = Least(e, n)
                BY <4>1, <4>2, <4>3
            <4> QED BY <4>4 DEF c, d
        <3>2. CASE t = <<>>
            <4>1. SameQuery(walk', walk) /\ Onwards /\ walk.total = n
                BY <1>1, <1>7, <2>0, <2>3, <3>2
            <4> QED BY <3>1, <4>1, OnwardsIs DEF n, e
        <3>3. CASE t # <<>>
            <4>1. walk'.phase = "current" /\ walk'.offset = walk.offset /\ walk'.limit = walk.limit
                BY <1>1, <2>0, <3>3 DEF SameQuery
            <4>2. Cardinality(SelectedModules') = n
                BY <1>2 DEF n
            <4>3. walk'.offset + walk'.limit = e
                BY <4>1 DEF e
            <4>4. Goal' = Least(walk'.offset + walk'.limit, Cardinality(SelectedModules'))
                BY <4>1 DEF Goal
            <4> QED BY <3>1, <4>2, <4>3, <4>4
        <3> QED BY <3>1, <3>2, <3>3
    <2>4. ASSUME ~walk.moved, NEW i \in DOMAIN walk'.got PROVE ModuleBrought(i)'
        <3>1. CASE i \in 1..Len(walk.got)
            <4>1. walk'.got[i] = walk.got[i] /\ ModuleBrought(i)
                BY <1>7, <2>0, <2>2, <2>4, <3>1
            <4> QED BY <1>1, <4>1, BroughtStays
        <3>2. CASE i = Len(walk.got) + 1
            <4>1. ModuleAwaited(1) /\ RowsOf(h.module) \subseteq walk.listed /\ walk.listed \subseteq rows
                BY <1>4, <1>7, <2>4
            <4>2. /\ h.module \in SelectedModules /\ ModulePlace(h.module) = Len(walk.got) + 1 - 1
                  /\ h.latest = newest[h.module]
                BY <1>4, <4>1 DEF ModuleAwaited
            <4>3. {s \in walk.listed : s.module = h.module} = RowsOf(h.module)
                BY <4>1 DEF RowsOf
            <4>4. walk'.got[i] = [module |-> h.module, current |-> newest[h.module],
                                  releases |-> {r.version : r \in RowsOf(h.module)}]
                BY <2>0, <2>2, <3>2, <4>2, <4>3 DEF Shown, h
            <4>5. walk'.got[i].module = h.module
                BY <4>4
            <4>6. PICK m : m = h.module
                OBVIOUS
            <4>7. m \in SelectedModules' /\ ModulePlace(m)' = i - 1
                <5> DEFINE k == Len(walk.got) + 1
                <5>0. i = k /\ ModulePlace(h.module) = k - 1
                    BY <3>2, <4>2
                <5> HIDE DEF k
                <5>1. ModulePlace(m) = i - 1
                    BY <4>6, <5>0
                <5> QED BY <1>2, <4>2, <4>6, <5>1
            <4>8. walk'.got[i] = [module |-> m, current |-> newest'[m], releases |-> {r.version : r \in RowsOf(m)'}]
                <5>1. RowsOf(m)' = RowsOf(m)
                    BY <1>2
                <5> QED BY <1>2, <4>4, <4>6, <5>1
            <4> QED BY <4>5, <4>6, <4>7, <4>8 DEF ModuleBrought
        <3> QED BY <2>0, <2>2, <3>1, <3>2
    <2>5. ASSUME ~walk.moved, NEW i \in DOMAIN walk'.page PROVE ModuleAwaited(i)'
        <3>1. walk'.page[i] = walk.page[i + 1] /\ ModuleAwaited(i + 1) /\ i \in Nat
            <4>1. i \in 1..Len(t)
                BY <2>0, <2>1, <2>5
            <4>2. t[i] = walk.page[i + 1] /\ i + 1 \in DOMAIN walk.page
                BY <2>1, <4>1
            <4>3. ModuleAwaited(i + 1)
                BY <1>7, <2>5, <4>2
            <4>4. i \in Nat
                BY <4>1
            <4>5. walk'.page[i] = walk.page[i + 1]
                BY <2>0, <4>2
            <4> QED BY <4>3, <4>4, <4>5
        <3>2. Len(walk'.got) + i - 1 = Len(walk.got) + (i + 1) - 1
            BY <2>0, <2>2, <3>1
        <3> QED BY <1>2, <3>1, <3>2 DEF ModuleAwaited
    <2>6. ASSUME NEW i \in DOMAIN walk'.page
          PROVE  walk'.page[i] = walk.page[i + 1] /\ i + 1 \in DOMAIN walk.page
        BY <2>0, <2>1
    <2>7. ~walk'.deleted => \A i \in DOMAIN walk'.page :
              (\E r \in RowsOf(walk.page[i].module) : r.version = walk.page[i].latest)'
        BY <1>2, <1>3, <1>5, <2>6
    <2>8. ASSUME ~walk.moved, walk'.phase = "current", NEW i \in DOMAIN walk'.page
          PROVE  (RowsOf(walk.page[i].module) \subseteq walk.listed)'
        <3>1. walk'.listed = walk.listed
            BY <2>0, <2>8 DEF Onwards
        <3>2. RowsOf(walk.page[i + 1].module) \subseteq walk.listed
            BY <1>7, <2>6, <2>8
        <3> QED BY <1>2, <2>6, <3>1, <3>2
    <2>9. walk'.phase # "failed" /\ (walk'.listed = {} \/ walk'.listed = walk.listed)
        BY <2>0 DEF Onwards
    <2>10. ~walk'.moved => walk'.total = Cardinality(SelectedModules') /\ walk'.listed \subseteq rows'
        BY <1>1, <1>2, <1>3, <1>7, <2>9 DEF n
    <2> QED BY <1>3, <2>3, <2>4, <2>5, <2>7, <2>8, <2>9, <2>10 DEF ModulesInv
<1> QED BY <1>8, <1>9

-----------------------------------------------------------------------------
(* The invariant is inductive                                              *)

LEMMA CatalogInvStarts == CatalogInit => CatalogInv
<1> SUFFICES ASSUME CatalogInit PROVE CatalogInv
    OBVIOUS
<1>1. /\ rows = {} /\ newest = [m \in Catalogued |-> NoVersion] /\ touched = [m \in Catalogued |-> 0]
      /\ walk = NoWalk /\ clock = 0
    BY DEF CatalogInit
<1>2. RowTypes
    BY <1>1, FS_EmptySet DEF RowTypes, NoVersion
<1>3. WalkTypes
    BY <1>1, NoWalkIs DEF WalkTypes
<1>4. LatestStands
    BY <1>1 DEF LatestStands, RowsOf
<1>5. ReleasesInv /\ ModulesInv
    BY <1>1, NoWalkIs DEF ReleasesInv, ModulesInv
<1> QED BY <1>2, <1>3, <1>4, <1>5 DEF CatalogInv

LEMMA ReadingKeepsWalks ==
    ASSUME CatalogInv, Undisturbed, ReadStep
    PROVE  ReleasesInv' /\ ModulesInv'
<1>0. RowTypes /\ WalkTypes /\ LatestStands /\ ReleasesInv /\ ModulesInv
    BY DEF CatalogInv
<1>1. ASSUME NEW w \in Walks, StartWalk(w) PROVE ReleasesInv' /\ ModulesInv'
    BY <1>0, <1>1, StartKeepsReleases, StartKeepsModules
<1>2. CASE Count
    BY <1>0, <1>2, CountKeepsReleases, CountKeepsModules
<1>3. CASE ListReleasesPage
    <2>1. walk'.kind = "releases"
        BY <1>0, <1>3, ReleasesPageIs DEF SameQuery
    <2> QED BY <1>0, <1>3, <2>1, ReleasesPageKeepsReleases DEF ModulesInv
<1>4. CASE ListModulesPage
    <2>1. walk'.kind = "modules"
        BY <1>0, <1>4, ModulesPageIs DEF SameQuery
    <2> QED BY <1>0, <1>4, <2>1, ModulesPageKeepsModules DEF ReleasesInv
<1>5. CASE ListReleasesForModules
    <2>1. walk'.kind = "modules"
        BY <1>0, <1>5, ReleasesForModulesIs DEF SameQuery
    <2> QED BY <1>0, <1>5, <2>1, ReleasesForModulesKeepsModules DEF ReleasesInv
<1>6. CASE GetStoredRelease
    <2>1. walk'.kind = "modules"
        BY <1>0, <1>6, GetReleaseIs DEF SameQuery
    <2> QED BY <1>0, <1>6, <2>1, GetReleaseKeepsModules DEF ReleasesInv
<1>7. CASE EndWalk
    BY <1>7, NoWalkIs DEF EndWalk, ReleasesInv, ModulesInv
<1> QED BY <1>1, <1>2, <1>3, <1>4, <1>5, <1>6, <1>7 DEF ReadStep

LEMMA StandingStillKeepsWalks ==
    ASSUME CatalogInv, Undisturbed, walk' = walk
    PROVE  CatalogInv'
<1>0. RowTypes /\ WalkTypes /\ LatestStands /\ ReleasesInv /\ ModulesInv
    BY DEF CatalogInv
<1>1. RowTypes' /\ LatestStands'
    BY <1>0, ReadingKeepsRows
<1>2. WalkTypes'
    BY <1>0 DEF WalkTypes
<1>3. ReleasesInv'
    <2>1. SelectedRows' = SelectedRows /\ \A r : RowPlace(r)' = RowPlace(r)
        BY SameRows DEF Undisturbed
    <2> QED BY <1>0, <2>1 DEF ReleasesInv
<1>4. ModulesInv'
    <2>1. SelectedModules' = SelectedModules /\ rows' = rows /\ \A m : RowsOf(m)' = RowsOf(m)
        BY SameModules DEF Undisturbed
    <2>2. Goal' = Goal
        BY <2>1 DEF Goal
    <2>3. \A i : /\ ModuleBrought(i) => ModuleBrought(i)'
                 /\ ModuleAwaited(i) => ModuleAwaited(i)'
        BY BroughtStays, AwaitedStays DEF SameQuery
    <2> QED BY <1>0, <2>1, <2>2, <2>3 DEF ModulesInv
<1> QED BY <1>1, <1>2, <1>3, <1>4 DEF CatalogInv

LEMMA CatalogInvStays == CatalogInv /\ [CatalogNext]_catalogVars => CatalogInv'
<1> SUFFICES ASSUME CatalogInv, [CatalogNext]_catalogVars PROVE CatalogInv'
    OBVIOUS
<1>0. RowTypes /\ WalkTypes /\ LatestStands /\ ReleasesInv /\ ModulesInv
    BY DEF CatalogInv
<1>1. CASE ReadStep /\ UNCHANGED <<rows, newest, touched, clock, writes>>
    <2>1. Undisturbed
        BY <1>1 DEF Undisturbed
    <2>2. RowTypes' /\ LatestStands'
        BY <1>0, <2>1, ReadingKeepsRows
    <2>3. WalkTypes'
        BY <1>0, <1>1, ReadingKeepsWalkTypes DEF ReadStep
    <2>4. ReleasesInv' /\ ModulesInv'
        BY <1>1, <2>1, ReadingKeepsWalks
    <2> QED BY <2>2, <2>3, <2>4 DEF CatalogInv
<1>2. ASSUME NEW now \in {clock, clock + 1}, NEW m \in Catalogued, NEW v \in Offered[m], InsertRow(m, v, now)
      PROVE  CatalogInv'
    <2>1. RowTypes' /\ LatestStands'
        BY <1>0, <1>2, InsertKeepsRows
    <2>2. WalkTypes'
        BY <1>0, <1>2, InsertDisturbs, ChangesKeepWalkTypes
    <2>3. ReleasesInv' /\ ModulesInv'
        BY <1>0, <1>2, <2>1, InsertKeepsReleases, InsertKeepsModules
    <2> QED BY <2>1, <2>2, <2>3 DEF CatalogInv
<1>3. ASSUME NEW now \in {clock, clock + 1}, NEW r \in rows, ReplaceRow(r, now)
      PROVE  CatalogInv'
    <2>1. RowTypes' /\ LatestStands' /\ rows' = rows
        BY <1>0, <1>3, ReplaceKeepsRows
    <2>2. WalkTypes'
        BY <1>0, <1>3, ReplaceDisturbs, ChangesKeepWalkTypes
    <2>3. ReleasesInv' /\ ModulesInv'
        BY <1>0, <1>3, <2>1, ReplaceKeepsReleases, ReplaceKeepsModules
    <2> QED BY <2>1, <2>2, <2>3 DEF CatalogInv
<1>4. ASSUME NEW now \in {clock, clock + 1}, NEW r \in rows, DeleteRow(r, now)
      PROVE  CatalogInv'
    <2>1. RowTypes' /\ LatestStands' /\ rows' \subseteq rows
        BY <1>0, <1>4, DeleteKeepsRows
    <2>2. WalkTypes'
        BY <1>0, <1>4, DeleteDisturbs, ChangesKeepWalkTypes
    <2>3. ReleasesInv' /\ ModulesInv'
        BY <1>0, <1>4, <2>1, DeleteKeepsReleases, DeleteKeepsModules
    <2> QED BY <2>1, <2>2, <2>3 DEF CatalogInv
<1>5. CASE UNCHANGED catalogVars
    BY <1>5, StandingStillKeepsWalks DEF catalogVars, Undisturbed
<1> QED BY <1>1, <1>2, <1>3, <1>4, <1>5 DEF CatalogNext

-----------------------------------------------------------------------------
(* What a walk brings                                                      *)

LEMMA NoneIsGreaterThanOneBefore ==
    ASSUME NEW r \in CatalogRow, NEW s \in CatalogRow, RowBefore(r, s)
    PROVE  ~ (<<r.version, s.version>> \in Less)
<1>1. r.version \in DOMAIN Versions /\ s.version \in DOMAIN Versions
    BY DEF CatalogRow
<1>2. Less = KeyLess /\ KeyOf[r.version] \in Text
    BY <1>1, KeysAreTexts
<1>3. CASE <<s.version, r.version>> \in KeyLess
    BY <1>1, <1>2, <1>3, LessIs
<1>4. CASE KeyOf[r.version] = KeyOf[s.version]
    <2>1. ~TextLess(KeyOf[r.version], KeyOf[s.version])
        BY <1>2, <1>4, TextIrreflexive
    <2> QED BY <1>1, <1>2, <2>1, KeysAreTexts
<1> QED BY <1>3, <1>4 DEF RowBefore

LEMMA UndisturbedReleasesAreInOrder ==
    ASSUME CatalogInv, walk.kind = "releases", walk.phase = "done", ~walk.created, ~walk.deleted
    PROVE  /\ \A i \in DOMAIN walk.got : walk.got[i] \in SelectedRows
           /\ \A r \in SelectedRows : \E i \in DOMAIN walk.got : walk.got[i] = r
           /\ \A i, j \in DOMAIN walk.got :
                 i < j => ~ (<<walk.got[i].version, walk.got[j].version>> \in Less)
<1> DEFINE g == walk.got
           n == Cardinality(SelectedRows)
<1>0. RowTypes /\ WalkTypes /\ ReleasesInv
    BY DEF CatalogInv
<1>1. /\ \A i \in DOMAIN g : g[i] \in SelectedRows /\ RowPlace(g[i]) = i - 1
      /\ Len(g) = n
    BY <1>0 DEF ReleasesInv
<1>2. DOMAIN g = 1..Len(g)
    BY <1>0 DEF WalkTypes, WalkState
<1>3. /\ SelectedRows \subseteq CatalogRow /\ n \in Nat
      /\ \A r \in SelectedRows : RowPlace(r) \in 0..(n - 1)
      /\ \A r, s \in SelectedRows : (RowBefore(r, s) <=> RowPlace(r) < RowPlace(s))
                                    /\ (RowPlace(r) = RowPlace(s) => r = s)
    BY <1>0, RowPlaces
<1> HIDE DEF g, n
<1>4. ASSUME NEW r \in SelectedRows PROVE \E i \in DOMAIN g : g[i] = r
    <2> DEFINE k == RowPlace(r) + 1
    <2>1. k \in DOMAIN g /\ RowPlace(r) = k - 1
        BY <1>1, <1>2, <1>3
    <2> HIDE DEF k
    <2>2. g[k] \in SelectedRows /\ RowPlace(g[k]) = RowPlace(r)
        BY <1>1, <2>1
    <2> QED BY <1>3, <2>1, <2>2
<1>5. ASSUME NEW i \in DOMAIN g, NEW j \in DOMAIN g, i < j
      PROVE  ~ (<<g[i].version, g[j].version>> \in Less)
    <2>1. g[i] \in SelectedRows /\ RowPlace(g[i]) = i - 1 /\ g[j] \in SelectedRows /\ RowPlace(g[j]) = j - 1
        BY <1>1
    <2>2. i \in Nat /\ j \in Nat /\ i - 1 < j - 1
        BY <1>1, <1>2, <1>3, <1>5
    <2>3. RowBefore(g[i], g[j])
        BY <1>3, <2>1, <2>2
    <2> QED BY <1>3, <2>1, <2>3, NoneIsGreaterThanOneBefore
<1> QED BY <1>1, <1>4, <1>5 DEF g

LEMMA LatestLeads ==
    ASSUME CatalogInv, walk.kind = "releases", walk.phase = "done", ~walk.created, ~walk.deleted,
           NEW m, NEW i \in DOMAIN walk.got, walk.got[i].module = m,
           \A j \in 1..(i - 1) : walk.got[j].module # m
    PROVE  Equivalent(Versions[walk.got[i].version], Versions[newest[m]])
<1> DEFINE g == walk.got
<1>0. RowTypes /\ WalkTypes /\ LatestStands
    BY DEF CatalogInv
<1>1. /\ \A k \in DOMAIN g : g[k] \in SelectedRows
      /\ \A r \in SelectedRows : \E k \in DOMAIN g : g[k] = r
      /\ \A k, j \in DOMAIN g : k < j => ~ (<<g[k].version, g[j].version>> \in Less)
    BY UndisturbedReleasesAreInOrder
<1>2. DOMAIN g = 1..Len(g) /\ Len(g) \in Nat
    BY <1>0 DEF WalkTypes, WalkState
<1>3. g[i] \in SelectedRows /\ SelectedRows \subseteq CatalogRow
    BY <1>0, <1>1, RowPlaces
<1>4. m \in Catalogued /\ m \in walk.of /\ g[i] \in RowsOf(m)
    BY <1>3 DEF CatalogRow, SelectedRows, RowsOf
<1>5. GreatestOf(newest[m], {r.version : r \in RowsOf(m)})
    BY <1>0, <1>4 DEF LatestStands
<1>6. PICK r \in RowsOf(m) : r.version = newest[m]
    BY <1>5 DEF GreatestOf
<1>7. r \in SelectedRows
    BY <1>4 DEF RowsOf, SelectedRows
<1>8. PICK k \in DOMAIN g : g[k] = r
    BY <1>1, <1>7
<1> HIDE DEF g
<1>9. ~ (k < i)
    <2>1. g[k].module = m
        BY <1>8 DEF RowsOf
    <2>2. k < i => k \in 1..(i - 1)
        BY <1>2, <1>8 DEF g
    <2> QED BY <2>1, <2>2 DEF g
<1>10. g[i].version \in DOMAIN Versions /\ r.version \in DOMAIN Versions
    BY <1>3, <1>7 DEF CatalogRow
<1>11. ~ (<<g[i].version, r.version>> \in Less)
    <2>1. CASE k = i
        BY <1>8, <1>10, <2>1, LessIs
    <2>2. CASE i < k
        BY <1>1, <1>8, <2>2 DEF g
    <2> QED BY <1>2, <1>9, <2>1, <2>2 DEF g
<1>12. ~ (<<r.version, g[i].version>> \in Less)
    BY <1>4, <1>5, <1>6 DEF GreatestOf
<1>13. Equivalent(Versions[g[i].version], Versions[r.version])
    BY <1>10, <1>11, <1>12, LessIs
<1> QED BY <1>6, <1>13 DEF g

LEMMA ReleasesWalkIsWhole ==
    ASSUME CatalogInv, walk.kind = "releases", walk.phase = "done"
    PROVE  ReleasesAreWhole
<1> DEFINE g == walk.got
<1>0. WalkTypes /\ ReleasesInv
    BY DEF CatalogInv
<1>1. /\ ~walk.deleted /\ ~walk.torn => walk.stays \subseteq Members(g)
      /\ ~walk.created => NoRepeats(g)
    BY <1>0 DEF ReleasesInv
<1>2. DOMAIN g = 1..Len(g) /\ Len(g) \in Nat
    BY <1>0 DEF WalkTypes, WalkState
<1>3. ASSUME ~walk.created, ~walk.deleted, NEW m \in {r.module : r \in Members(g)}
      PROVE  LET i == CHOOSE i \in DOMAIN g : g[i].module = m /\ \A j \in 1..(i - 1) : g[j].module # m
             IN  Equivalent(Versions[g[i].version], Versions[newest[m]])
    <2> DEFINE I == {i \in DOMAIN g : g[i].module = m}
    <2>1. I \subseteq Nat /\ I # {}
        BY <1>2 DEF Members
    <2>2. PICK k \in I : \A j \in I : k <= j
        BY <2>1, Smallest
    <2>3. \A j \in 1..(k - 1) : g[j].module # m
        <3> SUFFICES ASSUME NEW j \in 1..(k - 1), g[j].module = m PROVE FALSE
            OBVIOUS
        <3>1. j \in DOMAIN g /\ j < k /\ j \in Nat /\ k \in Nat
            BY <1>2
        <3>2. k <= j
            BY <2>2, <3>1
        <3> QED BY <3>1, <3>2
    <2> DEFINE i == CHOOSE i \in DOMAIN g : g[i].module = m /\ \A j \in 1..(i - 1) : g[j].module # m
    <2>4. i \in DOMAIN g /\ g[i].module = m /\ \A j \in 1..(i - 1) : g[j].module # m
        BY <2>2, <2>3
    <2> HIDE DEF i
    <2>5. Equivalent(Versions[g[i].version], Versions[newest[m]])
        BY <1>3, <2>4, LatestLeads
    <2> QED BY <2>5 DEF i
<1>4. ~walk.created /\ ~walk.deleted =>
          \A i, j \in DOMAIN g : i < j => ~ (<<g[i].version, g[j].version>> \in Less)
    BY UndisturbedReleasesAreInOrder
<1>5. ~walk.created /\ ~walk.deleted =>
          \A m \in {r.module : r \in Members(g)} :
             LET i == CHOOSE i \in DOMAIN g : g[i].module = m /\ \A j \in 1..(i - 1) : g[j].module # m
             IN  Equivalent(Versions[g[i].version], Versions[newest[m]])
    BY <1>3
<1> QED BY <1>1, <1>4, <1>5 DEF ReleasesAreWhole

LEMMA ModulesWalkIsWhole ==
    ASSUME CatalogInv, walk.kind = "modules", walk.phase = "done"
    PROVE  ModulesAreWhole
<1> DEFINE g == walk.got
           n == Cardinality(SelectedModules)
           Now(m) == [module |-> m, current |-> newest[m], releases |-> {r.version : r \in RowsOf(m)}]
<1> SUFFICES ASSUME ~walk.moved PROVE ModulesAreWhole
    BY DEF ModulesAreWhole
<1>0. RowTypes /\ WalkTypes /\ LatestStands /\ ModulesInv
    BY DEF CatalogInv
<1>1. \A i \in DOMAIN g : /\ g[i].module \in SelectedModules /\ ModulePlace(g[i].module) = i - 1
                          /\ g[i] = Now(g[i].module)
    BY <1>0 DEF ModulesInv, ModuleBrought
<1>2. DOMAIN g = 1..n
    <2>1. Len(g) + Len(walk.page) = n
        BY <1>0 DEF ModulesInv, Goal
    <2>2. walk.page = <<>> /\ Len(walk.page) = 0 /\ Len(g) \in Nat /\ DOMAIN g = 1..Len(g)
        BY <1>0 DEF WalkTypes, WalkState
    <2> QED BY <2>1, <2>2
<1>3. /\ n \in Nat
      /\ \A m \in SelectedModules : ModulePlace(m) \in 0..(n - 1)
      /\ \A m, k \in SelectedModules : ModulePlace(m) = ModulePlace(k) => m = k
    BY <1>0, ModulePlaces
<1> HIDE DEF g, n
<1>4. ASSUME NEW m \in SelectedModules PROVE Now(m) \in Members(g)
    <2> DEFINE k == ModulePlace(m) + 1
    <2>1. k \in DOMAIN g /\ ModulePlace(m) = k - 1
        BY <1>2, <1>3
    <2> HIDE DEF k
    <2>2. g[k].module = m
        BY <1>1, <1>3, <2>1
    <2> HIDE DEF Now
    <2>3. g[k] = Now(m)
        BY <1>1, <2>1, <2>2
    <2> QED BY <2>1, <2>3 DEF Members
<1>5. \A i \in DOMAIN g : \E m \in SelectedModules : g[i] = Now(m)
    BY <1>1
<1>6. Members(g) = {Now(m) : m \in SelectedModules}
    <2> HIDE DEF Now
    <2> QED BY <1>4, <1>5 DEF Members
<1>7. NoRepeats(g)
    <2> SUFFICES ASSUME NEW i \in DOMAIN g, NEW j \in DOMAIN g, g[i] = g[j] PROVE i = j
        BY DEF NoRepeats
    <2> HIDE DEF Now
    <2>1. i - 1 = j - 1
        BY <1>1
    <2>2. i \in Nat /\ j \in Nat
        BY <1>2, <1>3
    <2> QED BY <2>1, <2>2
<1>8. ASSUME NEW m \in SelectedModules PROVE GreatestOf(Now(m).current, Now(m).releases)
    <2>1. m \in Catalogued /\ RowsOf(m) # {}
        BY <1>0 DEF SelectedModules, WalkTypes, WalkState
    <2>2. GreatestOf(newest[m], {r.version : r \in RowsOf(m)})
        BY <1>0, <2>1 DEF LatestStands
    <2>3. Now(m).current = newest[m] /\ Now(m).releases = {r.version : r \in RowsOf(m)}
        OBVIOUS
    <2> QED BY <2>2, <2>3
<1>9. \A item \in Members(g) : GreatestOf(item.current, item.releases)
    <2> HIDE DEF Now
    <2> QED BY <1>6, <1>8
<1> QED BY <1>6, <1>7, <1>9 DEF ModulesAreWhole, g

LEMMA CatalogInvIsEnough == CatalogInv => WalksAreWhole
<1> SUFFICES ASSUME CatalogInv PROVE WalksAreWhole
    OBVIOUS
<1>1. WalkTypes /\ ModulesInv
    BY DEF CatalogInv
<1>2. walk.phase \in {"done", "failed"} => walk.kind \in {"releases", "modules"}
    BY <1>1 DEF WalkTypes, WalkState
<1>3. walk.phase = "failed" => walk.kind = "modules"
    BY <1>1, <1>2 DEF WalkTypes
<1> QED BY <1>1, <1>2, <1>3, ReleasesWalkIsWhole, ModulesWalkIsWhole DEF WalksAreWhole, ModulesInv

\* The rows of a catalogue, the latest versions of its modules and a walk through
\* its pages keep their types, and what a walk has read so far is what comes first
\* in SQL's order (release_pagination.go:69, postgres.go:1295).
THEOREM CatalogInvariant == CatalogPagesSpec => []CatalogInv
BY CatalogInvStarts, CatalogInvStays, PTL DEF CatalogPagesSpec

\* The composition takes the steps of the module's handlers and of the catalogue,
\* and no others.
THEOREM ImplementsComponents == VersionsSpec => Spec /\ CatalogPagesSpec
<1>1. VersionsInit => Init /\ CatalogInit
    BY DEF VersionsInit
<1>2. [VersionsNext]_<<running, vars, catalogVars, artifactVars>> => [Next]_vars
    BY DEF VersionsNext
<1>3. [VersionsNext]_<<running, vars, catalogVars, artifactVars>> => [CatalogNext]_catalogVars
    BY DEF VersionsNext
<1> QED BY <1>1, <1>2, <1>3, PTL DEF VersionsSpec, Spec, CatalogPagesSpec

\* A walk along the "next" links of /v3/modules or /v3/releases brings what stayed,
\* nothing twice, in the order of versions, with each module's latest first, unless
\* a change during the walk explains it (release_pagination.go:69, postgres.go:1295).
THEOREM WalksBringAll == CatalogPagesSpec \/ VersionsSpec => []WalksAreWhole
<1>1. CatalogPagesSpec => []WalksAreWhole
    BY CatalogInvariant, CatalogInvIsEnough, PTL
<1> QED BY <1>1, ImplementsComponents, PTL

-----------------------------------------------------------------------------
(* The artifact that two replicas cache                                    *)

\* The composition takes the steps of the artifact's cache and no others.
THEOREM ImplementsArtifactCache == VersionsSpec => Artifact!Spec
<1>1. VersionsInit => Artifact!Init
    BY DEF VersionsInit
<1>2. [VersionsNext]_<<running, vars, catalogVars, artifactVars>> => [Artifact!Next]_Artifact!vars
    BY DEF VersionsNext, artifactVars, Artifact!vars, Artifact!remote, Artifact!local
<1> QED BY <1>1, <1>2, PTL DEF VersionsSpec, Artifact!Spec

\* With two replicas whose calls fail or time out, with or without effect, one
\* flight of the cluster fetches a cold artifact (loadArtifact,
\* forge_proxy.go:840).
THEOREM OneColdFetch == VersionsSpec => []OneFetchDespiteErrors
<1>1. /\ Hosts \in [{p1, p2} -> {r1, r2}]
      /\ {r1, r2} \cap {p1, p2} = {}
      /\ NoProc \notin Artifact!Actor
      /\ NoObject \notin Content /\ Unknown \notin Content
      /\ NoRelease \notin [sha : Content \cup {Unknown}, path : BOOLEAN]
      /\ {"ensure", "prune"} \subseteq Artifact!AllOperations
      /\ {"callError"} \subseteq Artifact!AllFaults
    BY ArtifactAssumption DEF Hosts, Artifact!Actor, Artifact!AllOperations, Artifact!AllFaults
<1>2. Artifact!NoPause /\ Artifact!FilesMatch
    BY DEF Artifact!NoPause, Artifact!FilesMatch
<1>3. Artifact!Spec => []Artifact!OneFetch
    BY <1>1, <1>2, Artifact!FetchedOnce
<1> QED BY <1>3, ImplementsArtifactCache, PTL DEF OneFetchDespiteErrors
=============================================================================
