--------------------------- MODULE ReleaseCatalog ---------------------------
(***************************************************************************)
(* What the registry promises of one module's releases, without locks,     *)
(* queues, retries or failures: a catalog of rows over a set of stored     *)
(* archives.  A row is registered only for bytes that are stored, bytes    *)
(* are collected only when no row names them, and a row changes in one     *)
(* step.  ArtifactLifecycle implements it.                                 *)
(***************************************************************************)
CONSTANTS Version, Content, NoRelease, Upstream

VARIABLES
    catalog,   \* [Version -> Content \cup {NoRelease, Upstream}]
    stored     \* the <<version, content>> whose bytes can be downloaded

vars == <<catalog, stored>>

Init ==
    /\ catalog = [v \in Version |-> NoRelease]
    /\ stored = {}

\* An archive is stored before anything names it.
Store(v, c) ==
    /\ stored' = stored \cup {<<v, c>>}
    /\ UNCHANGED catalog

\* Publish a free version, or replace a row, in both cases with stored bytes.
Register(v, c) ==
    /\ <<v, c>> \in stored
    /\ catalog' = [catalog EXCEPT ![v] = c]
    /\ UNCHANGED stored

\* Index an upstream version that has no row.
Index(v) ==
    /\ catalog[v] = NoRelease
    /\ catalog' = [catalog EXCEPT ![v] = Upstream]
    /\ UNCHANGED stored

\* Delete a release, or all releases of the module.
Withdraw(S) ==
    /\ catalog' = [v \in Version |-> IF v \in S THEN NoRelease ELSE catalog[v]]
    /\ UNCHANGED stored

\* Garbage collection never touches the bytes of a row.
Collect(v, c) ==
    /\ catalog[v] # c
    /\ stored' = stored \ {<<v, c>>}
    /\ UNCHANGED catalog

Next ==
    \/ \E v \in Version, c \in Content : Store(v, c) \/ Register(v, c) \/ Collect(v, c)
    \/ \E v \in Version : Index(v) \/ Withdraw({v})
    \/ Withdraw(Version)

Spec == Init /\ [][Next]_vars
=============================================================================
