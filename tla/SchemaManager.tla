--------------------------- MODULE SchemaManager ---------------------------
(***************************************************************************)
(* The kind table of the PostgreSQL driver and its copies in memory:       *)
(* src/drivers/pg/manager.go, with RefreshKinds and resolveKindIDs of      *)
(* src/drivers/pg/driver.go.                                               *)
(*                                                                         *)
(* Goroutines look kinds up under a read lock; on a miss they take the     *)
(* write lock and, holding it, a pooled connection for a transaction of    *)
(* their own, even when they are called from inside a transaction that     *)
(* already holds one.  The maps in memory are written while that           *)
(* transaction is open.  Another process defines kinds too.                *)
(***************************************************************************)
EXTENDS Naturals, FiniteSets

CONSTANTS
    Actor,        \* the goroutines of this process
    Kind,         \* the names of kinds
    PoolSize,     \* the connections of the pool
    MaxID,        \* bound: the IDs the sequence of table kind hands out
    MaxFailures,  \* bound: how often a statement, a commit or a connection fails
    None

ASSUME ManagerAssumption ==
    /\ PoolSize \in Nat /\ MaxID \in Nat /\ MaxFailures \in Nat
    /\ None \notin Kind /\ None \notin Nat /\ None \notin Actor

ID == 1..MaxID
Op == {"AssertKinds", "MapKinds", "MapKindIDs", "resolveKindIDs", "AssertSchema", "RefreshKinds"}

VARIABLES
    rows,           \* the committed table kind: Kind -> ID or None
    inserted,       \* the rows the open transaction of the lock's holder has added
    nextID,         \* the sequence of its key; a rollback does not wind it back
    kindsByID,      \* Kind -> ID or None (the names are the code's)
    kindIDsByKind,  \* ID -> Kind or None
    lock,           \* the holder of the write lock, or None
    free,           \* the connections that are not in use
    holding,        \* the goroutines inside a transaction of their caller
    pc, op, want,   \* of each goroutine: where it is, its operation and its kinds
    todo,           \* the kinds the lock's holder has yet to define
    answer,         \* what the last step returned to a caller, or None
    failures

dbVars == <<rows, inserted, nextID>>
memory == <<kindsByID, kindIDsByKind>>
vars == <<dbVars, memory, lock, free, holding, pc, op, want, todo, answer, failures>>

NewSchemaManager ==
    /\ rows = [k \in Kind |-> None] /\ inserted = [k \in Kind |-> None]
    /\ nextID = 1
    /\ kindsByID = [k \in Kind |-> None]
    /\ kindIDsByKind = [i \in ID |-> None]
    /\ lock = None /\ free = PoolSize /\ holding = {}
    /\ pc = [a \in Actor |-> "idle"]
    /\ op = [a \in Actor |-> "MapKinds"]
    /\ want = [a \in Actor |-> {}]
    /\ todo = {}
    /\ answer = None
    /\ failures = 0

\* mapKinds and mapKindIDs: the kinds, or the IDs, of ws that are not in
\* memory, and those that are, paired with what they map to.
Missing(o, ws) ==
    {w \in ws : IF o = "MapKindIDs" THEN kindIDsByKind[w] = None ELSE kindsByID[w] = None}

Mapped(o, ws) ==
    {IF o = "MapKindIDs" THEN <<kindIDsByKind[w], w>> ELSE <<w, kindsByID[w]>> :
        w \in ws \ Missing(o, ws)}

Goto(a, where) == pc' = [pc EXCEPT ![a] = where]

\* The operation ends; pairs are the kinds with their IDs, None is an error.
Return(a, pairs) ==
    /\ Goto(a, "idle")
    /\ answer' = [op |-> op[a], want |-> want[a], pairs |-> pairs]
    /\ op' = [op EXCEPT ![a] = "MapKinds"] /\ want' = [want EXCEPT ![a] = {}]

Onwards == answer' = None /\ UNCHANGED <<op, want>>
-----------------------------------------------------------------------------
\* A caller's transaction (Driver.ReadTransaction, WriteTransaction or
\* BatchOperation) takes a connection, and gives it back.
BeginTransaction(a) ==
    /\ pc[a] = "idle" /\ a \notin holding /\ free > 0
    /\ free' = free - 1 /\ holding' = holding \cup {a}
    /\ UNCHANGED <<dbVars, memory, lock, pc, todo, failures>> /\ Onwards

EndTransaction(a) ==
    /\ pc[a] = "idle" /\ a \in holding
    /\ free' = free + 1 /\ holding' = holding \ {a}
    /\ UNCHANGED <<dbVars, memory, lock, pc, todo, failures>> /\ Onwards

\* What an operation is called with: kinds, or the IDs that a row read from
\* the database carries.
Arguments(o) ==
    CASE o = "RefreshKinds" -> {{}}
      [] o = "MapKindIDs" -> {{rows[k]} : k \in {j \in Kind : rows[j] # None}}
      [] OTHER -> SUBSET Kind \ {{}}

\* An operation begins.  AssertSchema and RefreshKinds are called outside of
\* a transaction and go straight for the write lock.
Begin(a, o, ws) ==
    /\ pc[a] = "idle"
    /\ o \in {"AssertSchema", "RefreshKinds"} => a \notin holding
    /\ op' = [op EXCEPT ![a] = o] /\ want' = [want EXCEPT ![a] = ws]
    /\ Goto(a, IF o \in {"AssertSchema", "RefreshKinds"} THEN "lock" ELSE "check")
    /\ UNCHANGED <<dbVars, memory, lock, free, holding, todo, failures>> /\ answer' = None

\* A bug: the maps are read without the read lock.
CheckUnlocked(a) ==
    /\ pc[a] = "check"
    /\ IF Missing(op[a], want[a]) = {}
       THEN Return(a, Mapped(op[a], want[a]))
       ELSE Goto(a, "lock") /\ Onwards
    /\ UNCHANGED <<dbVars, memory, lock, free, holding, todo, failures>>

\* The fast path of AssertKinds, MapKind, MapKinds, MapKindIDs and
\* resolveKindIDs, under the read lock.
Check(a) ==
    /\ pc[a] = "check" /\ lock = None
    /\ IF Missing(op[a], want[a]) = {}
       THEN Return(a, Mapped(op[a], want[a]))
       ELSE Goto(a, "lock") /\ Onwards
    /\ UNCHANGED <<dbVars, memory, lock, free, holding, todo, failures>>

\* The write lock.  AssertKinds looks again, RefreshKinds wipes the ID map, the
\* others go for the database.
Lock(a) ==
    /\ pc[a] = "lock" /\ lock = None
    /\ \/ /\ op[a] = "AssertKinds" /\ Missing(op[a], want[a]) = {}
          /\ Return(a, Mapped(op[a], want[a]))
          /\ UNCHANGED <<lock, kindIDsByKind>>
       \/ /\ ~(op[a] = "AssertKinds" /\ Missing(op[a], want[a]) = {})
          /\ lock' = a
          /\ Goto(a, "connect")
          /\ kindIDsByKind' = IF op[a] = "RefreshKinds" THEN [i \in ID |-> None] ELSE kindIDsByKind
          /\ Onwards
    /\ UNCHANGED <<dbVars, kindsByID, free, holding, todo, failures>>

\* WriteTransaction: a connection of the pool and a transaction.
Connect(a) ==
    /\ pc[a] = "connect" /\ free > 0
    /\ free' = free - 1
    /\ IF op[a] = "AssertKinds"
       THEN Goto(a, "define") /\ todo' = Missing(op[a], want[a])
       ELSE Goto(a, "fetch") /\ UNCHANGED todo
    /\ UNCHANGED <<dbVars, memory, lock, holding, failures>> /\ Onwards

\* A bug: a kind that is in memory already is skipped, and dropped.
FetchedUnknown == [k \in Kind |-> IF kindsByID[k] = None THEN rows[k] ELSE None]

\* SelectKinds.
Fetched == rows

\* fetch: kindsByID is replaced, kindIDsByKind is added to.
fetch(a) ==
    /\ pc[a] = "fetch"
    /\ kindsByID' = Fetched
    /\ kindIDsByKind' = [i \in ID |-> IF \E k \in Kind : Fetched[k] = i
                                      THEN CHOOSE k \in Kind : Fetched[k] = i
                                      ELSE kindIDsByKind[i]]
    /\ todo' = IF op[a] = "AssertSchema" THEN {k \in want[a] : Fetched[k] = None} ELSE {}
    /\ Goto(a, "define")
    /\ UNCHANGED <<dbVars, lock, free, holding, failures>> /\ Onwards

\* A bug: a new kind's ID is the number of kinds in the table, plus one.
CountKinds(k) ==
    IF rows[k] # None THEN rows[k] ELSE 1 + Cardinality({j \in Kind : rows[j] # None})

\* InsertOrGetKind.
InsertOrGetKind(k) == IF rows[k] # None THEN rows[k] ELSE nextID

\* A bug: only the ID map learns of the kind.
defineIDOnly(a, k) ==
    /\ pc[a] = "define" /\ k \in todo
    /\ rows[k] # None \/ nextID <= MaxID
    /\ LET id == InsertOrGetKind(k) IN
          /\ UNCHANGED kindsByID
          /\ kindIDsByKind' = [kindIDsByKind EXCEPT ![id] = k]
          /\ IF rows[k] = None
             THEN inserted' = [inserted EXCEPT ![k] = id] /\ nextID' = nextID + 1
             ELSE UNCHANGED <<inserted, nextID>>
    /\ todo' = todo \ {k}
    /\ UNCHANGED <<rows, lock, free, holding, pc, failures>> /\ Onwards

\* defineKinds, one kind: the row is inserted or found, and cached at once.
defineKind(a, k) ==
    /\ pc[a] = "define" /\ k \in todo
    /\ rows[k] # None \/ nextID <= MaxID
    /\ LET id == InsertOrGetKind(k) IN
          /\ kindsByID' = [kindsByID EXCEPT ![k] = id]
          /\ kindIDsByKind' = [kindIDsByKind EXCEPT ![id] = k]
          /\ IF rows[k] = None
             THEN inserted' = [inserted EXCEPT ![k] = id] /\ nextID' = nextID + 1
             ELSE UNCHANGED <<inserted, nextID>>
    /\ todo' = todo \ {k}
    /\ UNCHANGED <<rows, lock, free, holding, pc, failures>> /\ Onwards

\* What the operation returns: mapKinds once more.  MapKinds and MapKindIDs
\* fail when something is still unknown; AssertKinds and resolveKindIDs leave
\* it out.
Answer(a) ==
    IF op[a] \in {"MapKinds", "MapKindIDs"} /\ Missing(op[a], want[a]) # {} THEN None
    ELSE Mapped(op[a], want[a])

\* The deferred calls: the transaction ends, the connection returns to the
\* pool, the lock is released.
Release(a) ==
    free' = free + 1 /\ lock' = None /\ todo' = {} /\ inserted' = [k \in Kind |-> None]

Commit(a) ==
    /\ pc[a] = "define" /\ todo = {}
    /\ rows' = [k \in Kind |-> IF inserted[k] # None THEN inserted[k] ELSE rows[k]]
    /\ Release(a)
    /\ Return(a, Answer(a))
    /\ UNCHANGED <<nextID, memory, holding, failures>>

\* A statement or the commit fails: the rows are rolled back, the maps in
\* memory stay as they are, the error is returned.
Fail(a) ==
    /\ pc[a] \in {"fetch", "define"} /\ failures < MaxFailures
    /\ failures' = failures + 1
    /\ Release(a)
    /\ Return(a, None)
    /\ UNCHANGED <<rows, nextID, memory, holding>>

\* The sequence has no ID left: the insert fails.
Exhausted(a) ==
    /\ pc[a] = "define" /\ nextID > MaxID /\ \E k \in todo : rows[k] = None
    /\ Release(a)
    /\ Return(a, None)
    /\ UNCHANGED <<rows, nextID, memory, holding, failures>>

\* No connection before the context ends.
ConnectFails(a) ==
    /\ pc[a] = "connect" /\ failures < MaxFailures
    /\ failures' = failures + 1
    /\ lock' = None
    /\ Return(a, None)
    /\ UNCHANGED <<dbVars, memory, free, holding, todo>>

\* Another process defines k.  An insert of the same name waits for ours.
DefinedElsewhere(k) ==
    /\ rows[k] = None /\ inserted[k] = None /\ nextID <= MaxID
    /\ rows' = [rows EXCEPT ![k] = nextID] /\ nextID' = nextID + 1
    /\ UNCHANGED <<inserted, memory, lock, free, holding, pc, todo, failures>> /\ Onwards
-----------------------------------------------------------------------------
Step(a) ==
    \/ \E o \in Op : \E ws \in Arguments(o) : Begin(a, o, ws)
    \/ Check(a) \/ Lock(a) \/ Connect(a) \/ fetch(a)
    \/ \E k \in Kind : defineKind(a, k)
    \/ Commit(a) \/ Exhausted(a) \/ Fail(a) \/ ConnectFails(a)

Next ==
    \/ \E a \in Actor : BeginTransaction(a) \/ EndTransaction(a) \/ Step(a)
    \/ \E k \in Kind : DefinedElsewhere(k)

Spec == NewSchemaManager /\ [][Next]_vars
-----------------------------------------------------------------------------

\* An ID stands for one kind, in the table and in either map, however
\* transactions fail and processes interleave: a node read with an ID is never
\* given the name of another kind (defineKinds, fetch).
OneKindPerID ==
    \A i \in ID : Cardinality({k \in Kind : \/ rows[k] = i \/ inserted[k] = i
                                             \/ kindsByID[k] = i \/ kindIDsByKind[i] = k}) <= 1

Succeeded == answer # None /\ answer.pairs # None

\* AssertKinds, when it succeeds, has an ID for every kind it was asked for:
\* assertKinds discards what its last mapKinds reports missing, and
\* CreateRelationshipByIDs takes the first ID without looking.
AssertedComplete ==
    Succeeded /\ answer.op = "AssertKinds" =>
        {p[1] : p \in answer.pairs} = answer.want

\* A kind in memory with the ID of the committed table is never dropped from
\* kindsByID, nor given another ID, although every fetch replaces the map.
KnownStaysKnown ==
    [][\A k \in Kind : kindsByID[k] # None /\ kindsByID[k] = rows[k] =>
          kindsByID'[k] = kindsByID[k]]_vars

\* As long as no transaction of the manager has failed, every pair of a kind
\* and an ID that an operation returns is a row of the committed table: nothing
\* is read from memory while its transaction is open.  (At the end of the
\* sequence a transaction fails, too.)
ReturnedIsDefined ==
    failures = 0 /\ nextID <= MaxID /\ Succeeded => \A p \in answer.pairs : rows[p[1]] = p[2]

\* AssertKinds succeeds only for kinds that are rows of the committed table.
\* The comment in its fast path says "All kinds are defined"; a kind left in
\* memory by a transaction that failed is not.
AssertedIsDefined ==
    Succeeded /\ answer.op = "AssertKinds" => \A p \in answer.pairs : rows[p[1]] = p[2]
=============================================================================
