--------------------------- MODULE GraphRegistry ---------------------------
(***************************************************************************)
(* The graphs the PostgreSQL driver knows: s.graphs and the default graph  *)
(* of SchemaManager (src/drivers/pg/manager.go:306-401) as transactions    *)
(* resolve their target graph (src/drivers/pg/transaction.go:105-116).     *)
(*                                                                         *)
(* AssertGraph creates a graph within the transaction of its caller and    *)
(* remembers it for the whole process at once; the caller commits or rolls *)
(* back later.  Until it commits, a graph it created is visible to it      *)
(* alone, and an insert of the same name by another transaction waits.     *)
(***************************************************************************)
EXTENDS Naturals

CONSTANTS
    Actor,         \* the goroutines, each with at most one transaction
    Graph,         \* the names of graphs
    MaxID,         \* bound: the IDs the sequence of table graph hands out
    MaxRollbacks,  \* bound: the transactions that fail
    None

ID == 1..MaxID
NoGraphs == [g \in Graph |-> None]

VARIABLES
    rows,          \* the committed table graph: Graph -> ID or None
    nextID,        \* its sequence
    created,       \* the rows each open transaction has inserted
    graphs,        \* in memory: Graph -> ID or None
    defaultGraph,  \* in memory: the default graph and its ID, or None
    lock,          \* the holder of the write lock, or None
    pc, target,    \* of each goroutine: where it is, the graph it resolves
    op,            \* what it resolves the graph for
    given,         \* the ID that AssertGraph returned to it, or None
    rollbacks

vars == <<rows, nextID, created, graphs, defaultGraph, lock, pc, target, op, given, rollbacks>>

Init ==
    /\ rows = NoGraphs /\ nextID = 1
    /\ created = [a \in Actor |-> NoGraphs]
    /\ graphs = NoGraphs /\ defaultGraph = None
    /\ lock = None
    /\ pc = [a \in Actor |-> "idle"] /\ target = [a \in Actor |-> None]
    /\ op = [a \in Actor |-> "none"]
    /\ given = [a \in Actor |-> None]
    /\ rollbacks = 0

Goto(a, where) == pc' = [pc EXCEPT ![a] = where]

\* The row of graph g as the transaction of a sees it.
Visible(a, g) == IF created[a][g] # None THEN created[a][g] ELSE rows[g]

Resolved(a, id) == given' = [given EXCEPT ![a] = id]
-----------------------------------------------------------------------------
\* A transaction begins that writes to graph g (WithGraph), that writes to the
\* default graph, or that AssertDefaultGraph or SetDefaultGraph runs for g.
Begin(a, o, g) ==
    /\ pc[a] = "idle"
    /\ (o = "default") = (g = None)
    /\ op' = [op EXCEPT ![a] = o] /\ target' = [target EXCEPT ![a] = g]
    /\ Goto(a, "resolve") /\ UNCHANGED given
    /\ UNCHANGED <<rows, nextID, created, graphs, defaultGraph, lock, rollbacks>>

\* getTargetGraph without a target: DefaultGraph, under the read lock.
DefaultGraph(a) ==
    /\ pc[a] = "resolve" /\ op[a] = "default" /\ lock = None
    /\ IF defaultGraph # None
       THEN Resolved(a, defaultGraph[2])
       ELSE UNCHANGED given
    /\ Goto(a, "open")
    /\ UNCHANGED <<rows, nextID, created, graphs, defaultGraph, lock, target, op, rollbacks>>

\* Where AssertGraph's caller goes on.
After(a) == IF op[a] = "assertDefault" THEN "setDefault" ELSE "open"

\* AssertGraph, the fast path under the read lock.
AssertGraph(a) ==
    /\ pc[a] = "resolve" /\ op[a] \in {"write", "assertDefault"} /\ lock = None
    /\ IF graphs[target[a]] # None
       THEN Resolved(a, graphs[target[a]]) /\ Goto(a, After(a))
       ELSE UNCHANGED given /\ Goto(a, "lock")
    /\ UNCHANGED <<rows, nextID, created, graphs, defaultGraph, lock, target, op, rollbacks>>

\* A bug: the memory is not looked at again under the write lock.
LockOnly(a) ==
    /\ pc[a] = "lock" /\ lock = None
    /\ lock' = a /\ Goto(a, "assert") /\ UNCHANGED given
    /\ UNCHANGED <<rows, nextID, created, graphs, defaultGraph, target, op, rollbacks>>

\* AssertGraph, under the write lock.
LockAndLookAgain(a) ==
    /\ pc[a] = "lock" /\ lock = None
    /\ IF graphs[target[a]] # None
       THEN Resolved(a, graphs[target[a]]) /\ Goto(a, After(a)) /\ UNCHANGED lock
       ELSE UNCHANGED given /\ Goto(a, "assert") /\ lock' = a
    /\ UNCHANGED <<rows, nextID, created, graphs, defaultGraph, target, op, rollbacks>>

\* assertGraph caches the definition, whatever becomes of the transaction.
Remember(g, id) == graphs' = [graphs EXCEPT ![g] = id]

\* assertGraph: SelectGraphByName finds the row, or CreateGraph inserts it.
Creates(a) == Visible(a, target[a]) = None

assertGraph(a) ==
    /\ pc[a] = "assert"
    /\ LET g == target[a] IN
          IF Creates(a)
          THEN /\ nextID <= MaxID
               /\ created' = [created EXCEPT ![a][g] = nextID]
               /\ nextID' = nextID + 1
               /\ Remember(g, nextID) /\ Resolved(a, nextID)
          ELSE /\ Remember(g, rows[g]) /\ Resolved(a, rows[g])
               /\ UNCHANGED <<created, nextID>>
    /\ lock' = None /\ Goto(a, After(a))
    /\ UNCHANGED <<rows, defaultGraph, target, op, rollbacks>>

\* A statement of assertGraph fails (the sequence has no ID left, another
\* process inserts the name first): the error is returned.
AssertFails(a) ==
    /\ pc[a] = "assert"
    /\ \/ Creates(a) /\ nextID > MaxID /\ UNCHANGED rollbacks
       \/ rollbacks < MaxRollbacks /\ rollbacks' = rollbacks + 1
    /\ lock' = None /\ UNCHANGED given /\ Goto(a, "failed")
    /\ UNCHANGED <<rows, nextID, created, graphs, defaultGraph, target, op>>

\* setDefaultGraph: the first to set it wins.
setDefaultGraph(g, id) ==
    IF defaultGraph = None
    THEN defaultGraph' = <<g, id>> /\ graphs' = [graphs EXCEPT ![g] = id]
    ELSE UNCHANGED <<defaultGraph, graphs>>

\* AssertDefaultGraph and SetDefaultGraph, once they have the graph.
AssertDefaultGraph(a) ==
    /\ pc[a] = "setDefault" /\ lock = None
    /\ setDefaultGraph(target[a], given[a])
    /\ Goto(a, "open") /\ UNCHANGED given
    /\ UNCHANGED <<rows, nextID, created, lock, target, op, rollbacks>>

\* SetDefaultGraph reads the graph, which must be in the database, before it
\* goes for the lock.
SetDefaultGraph(a) ==
    /\ pc[a] = "resolve" /\ op[a] = "setDefault"
    /\ IF Visible(a, target[a]) # None
       THEN Resolved(a, Visible(a, target[a])) /\ Goto(a, "setDefault")
       ELSE Goto(a, "failed") /\ UNCHANGED given
    /\ UNCHANGED <<rows, nextID, created, graphs, defaultGraph, lock, target, op, rollbacks>>

Close(a) ==
    /\ created' = [created EXCEPT ![a] = NoGraphs]
    /\ Goto(a, "idle")
    /\ given' = [given EXCEPT ![a] = None]
    /\ op' = [op EXCEPT ![a] = "none"] /\ target' = [target EXCEPT ![a] = None]

\* The caller's transaction commits.
Commit(a) ==
    /\ pc[a] = "open"
    /\ rows' = [g \in Graph |-> Visible(a, g)]
    /\ Close(a)
    /\ UNCHANGED <<nextID, graphs, defaultGraph, lock, rollbacks>>

\* It fails: a statement's error, the delegate's error, or the commit's.
Rollback(a) ==
    /\ \/ pc[a] = "open" /\ rollbacks < MaxRollbacks /\ rollbacks' = rollbacks + 1
       \/ pc[a] = "failed" /\ UNCHANGED rollbacks
    /\ Close(a)
    /\ UNCHANGED <<rows, nextID, graphs, defaultGraph, lock>>

\* Another process creates g.  Its insert waits for ours of the same name.
CreatedElsewhere(g) ==
    /\ rows[g] = None /\ \A a \in Actor : created[a][g] = None
    /\ nextID <= MaxID
    /\ rows' = [rows EXCEPT ![g] = nextID] /\ nextID' = nextID + 1 /\ UNCHANGED given
    /\ UNCHANGED <<created, graphs, defaultGraph, lock, pc, target, op, rollbacks>>
-----------------------------------------------------------------------------
Operation == {"write", "default", "assertDefault", "setDefault"}

\* What a transaction does between its begin and its end.
Resolve(a) ==
    \/ DefaultGraph(a) \/ AssertGraph(a) \/ LockAndLookAgain(a) \/ assertGraph(a)
    \/ AssertFails(a) \/ AssertDefaultGraph(a) \/ SetDefaultGraph(a)

Next ==
    \/ \E a \in Actor :
          \/ \E o \in Operation, g \in Graph \cup {None} : Begin(a, o, g)
          \/ Resolve(a) \/ Commit(a) \/ Rollback(a)
    \/ \E g \in Graph : CreatedElsewhere(g)

Spec == Init /\ [][Next]_vars
-----------------------------------------------------------------------------

\* Two open transactions of this process never both insert the same graph: the
\* second insert would wait for the first transaction while it holds the write
\* lock that the first may need (AssertGraph's second look).
OneCreator ==
    \A a, b \in Actor, g \in Graph : created[a][g] # None /\ created[b][g] # None => a = b
=============================================================================
