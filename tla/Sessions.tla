------------------------------ MODULE Sessions ------------------------------
(***************************************************************************)
(* Sessions of the PostgreSQL driver: transactions that resolve their      *)
(* target graph and then assert and map kinds, as transaction.CreateNode   *)
(* does (src/drivers/pg/transaction.go).  The two halves of SchemaManager, *)
(* its kinds and its graphs, have one lock and one pool of connections.    *)
(***************************************************************************)
EXTENDS SchemaManager

CONSTANTS
    Graph,        \* the names of graphs
    MaxRollbacks  \* bound: the sessions that fail

ASSUME SessionsAssumption == MaxRollbacks \in Nat /\ None \notin Graph

VARIABLES graphRows, graphID, created, graphs, defaultGraph, place, target, purpose, given, rollbacks

registry == <<graphRows, graphID, created, graphs, defaultGraph, place, target, purpose, given, rollbacks>>
kinds == <<dbVars, memory, pc, todo, failures>>

G == INSTANCE GraphRegistry WITH rows <- graphRows, nextID <- graphID, pc <- place, op <- purpose

Init == NewSchemaManager /\ G!Init

\* Driver.WriteTransaction: the connection is the transaction's to its end.
BeginSession(a, o, g) ==
    /\ pc[a] = "idle" /\ a \notin holding /\ free > 0
    /\ G!Begin(a, o, g)
    /\ free' = free - 1 /\ holding' = holding \cup {a}
    /\ UNCHANGED kinds /\ Onwards

ResolveGraph(a) == G!Resolve(a) /\ UNCHANGED <<kinds, free, holding>> /\ Onwards

EndSession(a) ==
    /\ pc[a] = "idle" /\ (G!Commit(a) \/ G!Rollback(a))
    /\ free' = free + 1 /\ holding' = holding \ {a}
    /\ UNCHANGED kinds /\ Onwards

\* Kinds are asserted and mapped outside of a session, or once its graph is
\* resolved; the session keeps its connection.
UseKinds(a) ==
    /\ place[a] \in {"idle", "open"} /\ Step(a)
    /\ UNCHANGED registry

Elsewhere ==
    \/ (\E k \in Kind : DefinedElsewhere(k)) /\ UNCHANGED registry
    \/ (\E g \in Graph : G!CreatedElsewhere(g)) /\ UNCHANGED <<kinds, free, holding>> /\ Onwards

Sessions ==
    \/ \E a \in Actor :
          \/ \E o \in G!Operation, g \in Graph \cup {None} : BeginSession(a, o, g)
          \/ ResolveGraph(a) \/ EndSession(a) \/ UseKinds(a)
    \/ Elsewhere

SessionSpec == Init /\ [][Sessions]_<<vars, registry>>
-----------------------------------------------------------------------------
\* Two open sessions never both insert the same graph; see GraphRegistry.
OneCreator == G!OneCreator
=============================================================================
