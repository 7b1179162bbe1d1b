------------------------------ MODULE ModuleLocks ------------------------------
(* LockModule of the SQLite store (src/internal/store/sqlite.go): one semaphore *)
(* per module, made when the first caller asks for it and dropped from the map  *)
(* by the last one, counted by references.  Callers of one module.             *)
EXTENDS Naturals, SequencesExt, FiniteSets

CONSTANTS Callers, Entries, None

ASSUME LockAssumption == None \notin Callers \cup Entries /\ IsFiniteSet(Callers)

VARIABLES
    standing,    \* of a caller: "idle", "entered", "waiting", "holding", "leaving"
    entryOf,     \* the sqliteModuleLock a caller works with
    moduleLocks, \* the map's entry for the module
    references,  \* of an entry; 0 also for one nobody made yet
    semaphore,   \* the token is in the entry's channel (capacity one)
    line         \* the callers blocked on the entry's channel, served in order

locksVars == <<standing, entryOf, moduleLocks, references, semaphore, line>>

\* entries no caller has in hand: the next one made is one of these
Unused == {e \in Entries : references[e] = 0 /\ moduleLocks # e}
-------------------------------------------------------------------------------
LocksInit ==
    /\ standing = [c \in Callers |-> "idle"]
    /\ entryOf = [c \in Callers |-> None]
    /\ moduleLocks = None
    /\ references = [e \in Entries |-> 0]
    /\ semaphore = [e \in Entries |-> FALSE]
    /\ line = [e \in Entries |-> <<>>]

Becomes(c, what) == standing' = [standing EXCEPT ![c] = what]

\* A new entry's channel holds the token.  (Mutant: it is made empty.)
EmptyChannel(e) == [semaphore EXCEPT ![e] = FALSE]
NewChannel(e)   == [semaphore EXCEPT ![e] = TRUE]

\* Under moduleLocksMu: find or make the entry, count the reference.
EnterWith(c, e) ==
    /\ moduleLocks' = e
    /\ references' = [references EXCEPT ![e] = @ + 1]
    /\ entryOf' = [entryOf EXCEPT ![c] = e]
    /\ Becomes(c, "entered")

Enter(c) ==
    /\ standing[c] = "idle"
    /\ \/ moduleLocks # None /\ EnterWith(c, moduleLocks) /\ UNCHANGED semaphore
       \/ /\ moduleLocks = None
          /\ \E e \in Unused : EnterWith(c, e) /\ semaphore' = NewChannel(e)
    /\ UNCHANGED line

\* The select: the token if it is there, else the end of the channel's line.
Select(c) ==
    LET e == entryOf[c] IN
    /\ standing[c] = "entered"
    /\ \/ /\ semaphore[e] /\ semaphore' = [semaphore EXCEPT ![e] = FALSE]
          /\ Becomes(c, "holding") /\ UNCHANGED line
       \/ /\ ~semaphore[e] /\ line' = [line EXCEPT ![e] = Append(@, c)]
          /\ Becomes(c, "waiting") /\ UNCHANGED semaphore
    /\ UNCHANGED <<entryOf, moduleLocks, references>>

\* ctx.Done is taken by the select: the reference is still to be given back.
StopWaiting(c) ==
    /\ \/ standing[c] = "entered" /\ UNCHANGED line
       \/ /\ standing[c] = "waiting"
          /\ \E i \in DOMAIN line[entryOf[c]] :
                /\ line[entryOf[c]][i] = c
                /\ line' = [line EXCEPT ![entryOf[c]] = RemoveAt(@, i)]
    /\ Becomes(c, "leaving")
    /\ UNCHANGED <<entryOf, moduleLocks, references, semaphore>>

\* The unlock function, under its sync.Once: the token goes to the first in the
\* line, or back into the channel.
Unlock(c) ==
    LET e == entryOf[c] IN
    /\ standing[c] = "holding" /\ ~semaphore[e]
    /\ \/ /\ line[e] = <<>> /\ semaphore' = [semaphore EXCEPT ![e] = TRUE]
          /\ Becomes(c, "leaving") /\ UNCHANGED line
       \/ /\ line[e] # <<>> /\ line' = [line EXCEPT ![e] = Tail(@)]
          /\ standing' = [standing EXCEPT ![c] = "leaving", ![Head(line[e])] = "holding"]
          /\ UNCHANGED semaphore
    /\ UNCHANGED <<entryOf, moduleLocks, references>>

\* releaseModuleLockReference, under moduleLocksMu.  (Mutant: whoever leaves
\* drops the entry.)
AnyReference(e)  == TRUE
LastReference(e) == references[e] = 1

ReleaseReference(c) ==
    LET e == entryOf[c] IN
    /\ standing[c] = "leaving"
    /\ references' = [references EXCEPT ![e] = @ - 1]
    /\ moduleLocks' = IF LastReference(e) THEN None ELSE moduleLocks
    /\ entryOf' = [entryOf EXCEPT ![c] = None]
    /\ Becomes(c, "idle")
    /\ UNCHANGED <<semaphore, line>>

LocksNext == \E c \in Callers : Enter(c) \/ Select(c) \/ StopWaiting(c) \/ Unlock(c) \/ ReleaseReference(c)

\* A caller that entered goes on, and a holder finishes its work and gives the
\* lock back.
LocksFairness == \A c \in Callers : /\ WF_locksVars(Select(c)) /\ WF_locksVars(Unlock(c))
                                   /\ WF_locksVars(ReleaseReference(c))

LocksSpec == LocksInit /\ [][LocksNext]_locksVars /\ LocksFairness
-------------------------------------------------------------------------------
LocksTypeOK ==
    /\ standing \in [Callers -> {"idle", "entered", "waiting", "holding", "leaving"}]
    /\ entryOf \in [Callers -> Entries \cup {None}]
    /\ moduleLocks \in Entries \cup {None}
    /\ references \in [Entries -> 0..Cardinality(Callers)]
    /\ semaphore \in [Entries -> BOOLEAN] /\ line \in [Entries -> Seq(Callers)]

\* sqlite.go:358: the module has one lock, whatever the map went through.
MutualExclusion == \A c, d \in Callers : standing[c] = "holding" /\ standing[d] = "holding" => c = d

\* sqlite.go:393: the entry a caller has in hand is the one in the map, so that
\* a newcomer waits on the same channel; its references are its users; and the
\* token is in the channel unless somebody holds it.
EntryShared ==
    /\ \A c \in Callers : entryOf[c] # None => moduleLocks = entryOf[c]
    /\ \A e \in Entries : references[e] = Cardinality({c \in Callers : entryOf[c] = e})
    /\ moduleLocks # None =>
          (semaphore[moduleLocks] <=> \A c \in Callers : standing[c] # "holding")

\* A caller that waits gets the lock or gives up: no token is lost with a
\* dropped entry.
WaitEnds == \A c \in Callers : standing[c] = "entered" ~> standing[c] \notin {"entered", "waiting"}

\* sqlite.go:358: the lock does what the module service relies on; those who
\* hold it are the promise's holders.
Promise == INSTANCE ModuleLockPromise WITH holders <- {c \in Callers : standing[c] = "holding"}
LockKeepsPromise == Promise!Spec
===============================================================================
