---------------------------- MODULE BatchWriter ----------------------------
(***************************************************************************)
(* BatchOperation of the PostgreSQL driver and its batch:                  *)
(* src/drivers/pg/batch.go, query/format.go and driver.go.                 *)
(*                                                                         *)
(* Every call of the delegate is put in the buffer of its kind.  A buffer  *)
(* that holds more than batchWriteSize calls is written by one statement,  *)
(* or two for UpdateRelationshipBy, and emptied; Commit writes what is     *)
(* left.  Each statement commits on its own.                               *)
(*                                                                         *)
(* The properties of a node or relationship are the number of the call     *)
(* that wrote them last.  An identity is the sequence of the values of     *)
(* the identity properties, each a sequence of characters.  There is one   *)
(* kind, and no other client writes.                                       *)
(***************************************************************************)
EXTENDS Naturals, Sequences, FiniteSets, FiniteSetsExt, SequencesExt, RelationshipBatch

CONSTANTS
    NodeID,                    \* the node IDs that callers know
    Identity,                  \* the identities
    Nodes0, Edges0,            \* the database before: node IDs, and pairs of them
    BatchWriteSize, LargeNodeUpdateThreshold,
    MaxCalls,                  \* bound: calls of one delegate
    MaxFailures,               \* bound: statements that fail
    None

ASSUME BatchAssumption ==
    /\ NodeID \subseteq Nat \ {0} /\ Nodes0 \subseteq NodeID /\ Edges0 \subseteq Nodes0 \X Nodes0
    /\ BatchWriteSize \in Nat /\ LargeNodeUpdateThreshold \in Nat
    /\ MaxCalls \in Nat /\ MaxFailures \in Nat

\* The buffers in the order in which tryFlush looks at them.
Buffers == <<"nodeUpdateBy", "nodeUpdate", "relationshipUpdateBy", "relationshipCreate",
             "nodeCreate", "nodeDeletion", "relationshipDeletion">>

VARIABLES
    nodes,       \* node ID -> [identity, by]
    edges,       \* <<start, end>> -> [id, by]
    serial,      \* the number of IDs taken from the sequences of the database
    buffer,      \* buffer -> the calls in it, [n, arg]
    made,        \* the calls the delegate has made, [op, arg]
    applied,     \* the numbers of the calls whose statements succeeded, in order
    pc,          \* "delegate", "flush", "error", "done" or "failed"
    committing,
    futures,     \* node key -> node ID, between the two statements of an upsert
    failures

database == <<nodes, edges, serial>>
vars == <<database, buffer, made, applied, pc, committing, futures, failures>>

\* The IDs that callers do not know: those of the sequence.
Fresh(k) == 100 + serial + k

Init ==
    /\ nodes = [n \in Nodes0 |-> [identity |-> None, by |-> 0]]
    /\ edges = [p \in Edges0 |-> [id |-> 100, by |-> 0]]
    /\ serial = 0
    /\ buffer = [b \in Range(Buffers) |-> <<>>]
    /\ made = <<>> /\ applied = <<>>
    /\ pc = "delegate" /\ committing = FALSE /\ futures = None /\ failures = 0
-----------------------------------------------------------------------------
\* The arguments of the calls that are buffered.
Arguments(b) ==
    CASE b = "nodeUpdateBy" -> Identity
      [] b = "relationshipUpdateBy" -> Identity \X Identity
      [] b = "relationshipCreate" -> NodeID \X NodeID
      [] b = "nodeCreate" -> NodeID \cup {0}
      [] b = "relationshipDeletion" -> {100}
      [] OTHER -> NodeID

\* CreateNode, UpdateNodes with a short list, UpdateNodeBy, CreateRelationship,
\* UpdateRelationshipBy, DeleteNode and DeleteRelationship: the call is buffered,
\* then tryFlush runs.
Call(b, arg) ==
    /\ pc = "delegate" /\ Len(made) < MaxCalls
    /\ made' = Append(made, [op |-> b, arg |-> arg])
    /\ buffer' = [buffer EXCEPT ![b] = Append(@, [n |-> Len(made'), arg |-> arg])]
    /\ pc' = "flush"
    /\ UNCHANGED <<database, applied, committing, futures, failures>>

\* UpdateNodes with a list longer than LargeNodeUpdateThreshold: largeUpdate
\* merges it in a transaction of its own, past the buffers.  A failure of it, or
\* of CreateNodes, changes nothing: the delegate goes on or returns the error.
LargeUpdate(ids) ==
    /\ pc = "delegate" /\ Len(made) < MaxCalls /\ Cardinality(ids) > LargeNodeUpdateThreshold
    /\ made' = Append(made, [op |-> "largeUpdate", arg |-> ids])
    /\ nodes' = [n \in DOMAIN nodes |-> IF n \in ids THEN [nodes[n] EXCEPT !.by = Len(made')] ELSE nodes[n]]
    /\ applied' = Append(applied, Len(made'))
    /\ UNCHANGED <<edges, serial, buffer, pc, committing, futures, failures>>

\* CreateNodes: count nodes in a transaction of their own, past the buffers.
CreateNodes(count) ==
    /\ pc = "delegate" /\ Len(made) < MaxCalls
    /\ made' = Append(made, [op |-> "createNodes", arg |-> count])
    /\ nodes' = [n \in DOMAIN nodes \cup {Fresh(k) : k \in 1..count} |->
                    IF n \in DOMAIN nodes THEN nodes[n] ELSE [identity |-> None, by |-> Len(made')]]
    /\ serial' = serial + count
    /\ applied' = Append(applied, Len(made'))
    /\ UNCHANGED <<edges, buffer, pc, committing, futures, failures>>

\* The delegate returns without an error: Commit.
Commit ==
    /\ pc = "delegate" /\ pc' = "flush" /\ committing' = TRUE
    /\ UNCHANGED <<database, buffer, made, applied, futures, failures>>

\* The delegate returns an error: what is buffered is not written.
DelegateFails ==
    /\ pc = "delegate" /\ pc' = "failed"
    /\ UNCHANGED <<database, buffer, made, applied, committing, futures, failures>>
-----------------------------------------------------------------------------
\* tryFlush(batchWriteSize), and tryFlush(0) of Commit.
Due(b) == Len(buffer[b]) > IF committing THEN 0 ELSE BatchWriteSize

\* The buffer tryFlush writes next: the first that is due.
Flushing(b) ==
    /\ pc = "flush" /\ Due(b)
    /\ \E i \in DOMAIN Buffers : b = Buffers[i] /\ \A j \in 1..(i - 1) : ~Due(Buffers[j])

Numbers(b) == [i \in DOMAIN buffer[b] |-> buffer[b][i].n]
Args(b) == {buffer[b][i].arg : i \in DOMAIN buffer[b]}

\* The statement has succeeded: the buffer is emptied.
Flushed(b) ==
    /\ buffer' = [buffer EXCEPT ![b] = <<>>]
    /\ applied' = applied \o Numbers(b)
    /\ UNCHANGED <<made, pc, committing, failures>>

\* NodeUpdate.Key: the values of the identity properties, one after the other.
NodeKey(v) == FlattenSeq(v)

\* RelationshipUpdate.Key: the keys of both ends, one after the other.
UpdateKey(arg) == NodeKey(arg[1]) \o NodeKey(arg[2])

\* A bug: of several updates with one key in a batch the first wins.
FirstOf(places) == Min(places)

\* NodeUpdateBatch.Add, RelationshipUpdateBatch.Add: updates with the same key
\* are merged in the order of the calls; the last one's properties win.
LastOf(places) == Max(places)

\* The node updates of a buffer: its identities, or those of the start and the
\* end of each relationship.
NodeUpdates(b) ==
    LET Update(c, v) == [n |-> c.n, identity |-> v]
        Updates(c) == IF b = "nodeUpdateBy" THEN <<Update(c, c.arg)>>
                      ELSE <<Update(c, c.arg[1]), Update(c, c.arg[2])>>
    IN FlattenSeq([i \in DOMAIN buffer[b] |-> Updates(buffer[b][i])])

\* The node to upsert for a key: the identity properties are merged like the others.
Merged(updates, key) == updates[LastOf({i \in DOMAIN updates : NodeKey(updates[i].identity) = key})]

\* The orders in which a Go map of updates may be traversed.
Orders(S) == {o \in [1..Cardinality(S) -> S] : Range(o) = S}

\* The node that has an identity now, or the one the upsert inserts for it.
Identified(v) == {n \in DOMAIN nodes : nodes[n].identity = v}
RowID(rows, i) ==
    IF Identified(rows[i].identity) # {} THEN CHOOSE n \in Identified(rows[i].identity) : TRUE
    ELSE Fresh(Cardinality({j \in 1..i : Identified(rows[j].identity) = {}}))

\* A bug: the IDs are handed out in the order of a second traversal.
FuturesOfAnyOrder(order, rows) ==
    LET other == CHOOSE o \in Orders(Range(order)) : o # order \/ Len(order) < 2
    IN [k \in Range(order) |-> RowID(rows, CHOOSE i \in DOMAIN order : other[i] = k)]

\* flushNodeUpsertBatch: the rows come back in the order they were given in,
\* which is that of the futures.
Futures(order, rows) == [k \in Range(order) |-> RowID(rows, CHOOSE i \in DOMAIN order : order[i] = k)]

\* FormatNodeUpsert: insert ... on conflict (identity) do update ... returning id.
UpsertNodes(rows) ==
    LET RowOf(n) == CHOOSE i \in DOMAIN rows : RowID(rows, i) = n
        ids == {RowID(rows, i) : i \in DOMAIN rows}
    IN /\ nodes' = [n \in DOMAIN nodes \cup ids |->
                       IF n \notin ids THEN nodes[n]
                       ELSE [identity |-> rows[RowOf(n)].identity, by |-> rows[RowOf(n)].n]]
       /\ serial' = serial + Cardinality(ids \ DOMAIN nodes)

\* The keys of the node updates of a buffer, in an order of the map, and the rows.
NodeKeys(b) == {NodeKey(u.identity) : u \in Range(NodeUpdates(b))}
NodeRows(b, order) == [i \in DOMAIN order |-> Merged(NodeUpdates(b), order[i])]

\* tryFlushNodeUpdateByBuffer.
FlushNodeUpdateBy ==
    LET b == "nodeUpdateBy" IN
    /\ Flushing(b)
    /\ \E order \in Orders(NodeKeys(b)) : UpsertNodes(NodeRows(b, order))
    /\ Flushed(b) /\ UNCHANGED <<edges, futures>>

\* tryFlushNodeUpdateBuffer: update node ... from unnest(...).  Of several rows
\* for one node the database takes any.
FlushNodeUpdate ==
    LET b == "nodeUpdate" IN
    /\ Flushing(b)
    /\ \E pick \in [Args(b) -> Range(Numbers(b))] :
          /\ \A i \in Args(b) : \E c \in Range(buffer[b]) : c.arg = i /\ c.n = pick[i]
          /\ nodes' = [n \in DOMAIN nodes |-> IF n \in Args(b) THEN [nodes[n] EXCEPT !.by = pick[n]]
                                              ELSE nodes[n]]
    /\ Flushed(b) /\ UNCHANGED <<edges, serial, futures>>

\* flushRelationshipUpdateByBuffer: first the nodes at both ends are upserted ...
FlushEnds ==
    LET b == "relationshipUpdateBy" IN
    /\ Flushing(b) /\ futures = None
    /\ \E order \in Orders(NodeKeys(b)) :
          UpsertNodes(NodeRows(b, order)) /\ futures' = Futures(order, NodeRows(b, order))
    /\ UNCHANGED <<edges, buffer, made, applied, pc, committing, failures>>

\* RelationshipUpdateBatch.Add: the ends are those of the first update of a key,
\* the properties those of the last.
RelationshipRow(key) ==
    LET calls == buffer["relationshipUpdateBy"]
        places == {i \in DOMAIN calls : UpdateKey(calls[i].arg) = key}
        ends == calls[Min(places)].arg
    IN [start |-> futures[NodeKey(ends[1])], end |-> futures[NodeKey(ends[2])], by |-> calls[LastOf(places)].n]

\* ... then the relationships, one for each key.
FlushRelationshipUpdateBy ==
    LET b == "relationshipUpdateBy"
        keys == {UpdateKey(arg) : arg \in Args(b)}
    IN /\ Flushing(b) /\ futures # None
       /\ \E order \in Orders(keys) :
             edges' = Upsert(edges, [i \in DOMAIN order |-> RelationshipRow(order[i])], Fresh(0))
       /\ serial' = serial + Cardinality(keys)
       /\ futures' = None
       /\ Flushed(b) /\ UNCHANGED nodes

\* flushRelationshipCreateBuffer.
FlushRelationshipCreate ==
    LET b == "relationshipCreate"
        rels == [i \in DOMAIN buffer[b] |-> [start |-> buffer[b][i].arg[1], end |-> buffer[b][i].arg[2],
                                             by |-> buffer[b][i].n]]
    IN /\ Flushing(b)
       /\ edges' = Upsert(edges, Rows(rels), Fresh(0))
       /\ serial' = serial + Len(Rows(rels))
       /\ Flushed(b) /\ UNCHANGED <<nodes, futures>>

\* flushNodeCreateBuffer refuses to mix preset IDs with generated ones; the
\* database refuses an ID that is taken.
Refused(b) ==
    /\ b = "nodeCreate"
    /\ \/ 0 \in Args(b) /\ Args(b) # {0}
       \/ Args(b) \cap DOMAIN nodes # {}
       \/ 0 \notin Args(b) /\ Cardinality(Args(b)) < Len(buffer[b])

FlushNodeCreate ==
    LET b == "nodeCreate"
        ID(i) == IF buffer[b][i].arg = 0 THEN Fresh(i) ELSE buffer[b][i].arg
        ids == {ID(i) : i \in DOMAIN buffer[b]}
    IN /\ Flushing(b) /\ ~Refused(b)
       /\ nodes' = [n \in DOMAIN nodes \cup ids |->
                       IF n \in DOMAIN nodes THEN nodes[n]
                       ELSE [identity |-> None,
                             by |-> buffer[b][CHOOSE i \in DOMAIN buffer[b] : ID(i) = n].n]]
       /\ serial' = serial + IF 0 \in Args(b) THEN Len(buffer[b]) ELSE 0
       /\ Flushed(b) /\ UNCHANGED <<edges, futures>>

\* flushNodeDeleteBuffer; the trigger delete_node_edges removes the
\* relationships of the nodes.
FlushNodeDelete ==
    LET b == "nodeDeletion" gone == Args(b) \cap DOMAIN nodes IN
    /\ Flushing(b)
    /\ nodes' = [n \in DOMAIN nodes \ gone |-> nodes[n]]
    /\ edges' = [p \in {q \in DOMAIN edges : q[1] \notin gone /\ q[2] \notin gone} |-> edges[p]]
    /\ Flushed(b) /\ UNCHANGED <<serial, futures>>

\* flushRelationshipDeleteBuffer.
FlushRelationshipDelete ==
    LET b == "relationshipDeletion" IN
    /\ Flushing(b)
    /\ edges' = [p \in {q \in DOMAIN edges : edges[q].id \notin Args(b)} |-> edges[p]]
    /\ Flushed(b) /\ UNCHANGED <<nodes, serial, futures>>

\* A bug: the buffer is emptied before the statement is executed.
Emptied(b) == [buffer EXCEPT ![b] = <<>>]

\* What an error leaves in the buffers: everything.
Kept(b) == buffer

\* A statement fails, or is refused: tryFlush returns.
FlushFails(b) ==
    /\ Flushing(b)
    /\ \/ Refused(b) /\ UNCHANGED failures
       \/ failures < MaxFailures /\ failures' = failures + 1
    /\ pc' = "error" /\ futures' = None /\ buffer' = Kept(b)
    /\ UNCHANGED <<database, made, applied, committing>>

\* The call of the delegate returns the error; the delegate may go on.
IgnoreError ==
    /\ pc = "error" /\ ~committing /\ pc' = "delegate"
    /\ UNCHANGED <<database, buffer, made, applied, committing, futures, failures>>

ReturnError ==
    /\ pc = "error" /\ pc' = "failed"
    /\ UNCHANGED <<database, buffer, made, applied, committing, futures, failures>>

\* tryFlush returns nil.
Return ==
    /\ pc = "flush" /\ \A b \in Range(Buffers) : ~Due(b)
    /\ pc' = IF committing THEN "done" ELSE "delegate"
    /\ UNCHANGED <<database, buffer, made, applied, committing, futures, failures>>

Done == pc \in {"done", "failed"} /\ UNCHANGED vars

Flush ==
    \/ FlushNodeUpdateBy \/ FlushNodeUpdate \/ FlushEnds \/ FlushRelationshipUpdateBy
    \/ FlushRelationshipCreate \/ FlushNodeCreate \/ FlushNodeDelete \/ FlushRelationshipDelete

Next ==
    \/ \E b \in Range(Buffers) : \E arg \in Arguments(b) : Call(b, arg)
    \/ \E ids \in SUBSET NodeID : LargeUpdate(ids)
    \/ \E count \in 1..2 : CreateNodes(count)
    \/ Commit \/ DelegateFails \/ Flush
    \/ \E b \in Range(Buffers) : FlushFails(b)
    \/ IgnoreError \/ ReturnError \/ Return \/ Done

Spec == Init /\ [][Next]_vars
-----------------------------------------------------------------------------
Calls(op) == {i \in DOMAIN made : made[i].op = op}

\* Every call of the delegate is in its buffer or was written, never both and
\* never twice, although a statement may fail and its buffer be written again
\* by a later call; a batch that committed has written them all.
WrittenOnce ==
    /\ \A i \in DOMAIN made :
          LET waiting == {x \in Range(Buffers) \X (1..MaxCalls) :
                             x[2] \in DOMAIN buffer[x[1]] /\ buffer[x[1]][x[2]].n = i}
              written == {k \in DOMAIN applied : applied[k] = i}
          IN Cardinality(waiting) + Cardinality(written) = 1
    /\ pc = "done" => \A b \in Range(Buffers) : buffer[b] = <<>>

\* No later call of the same operation has the key that call i has under KeyOf.
LastCall(i, KeyOf(_)) == \A j \in Calls(made[i].op) : KeyOf(made[j].arg) = KeyOf(made[i].arg) => j <= i

\* Once the batch has committed, the identity of the last UpdateNodeBy with a key
\* that no UpdateRelationshipBy names has exactly one node, with the properties
\* of that call; and the last UpdateRelationshipBy with a key has left exactly one
\* relationship.  Updates that other identities share the key of are not told apart
\* (graph.go:167 and 194 write the values one after the other): of those the last
\* one wins.
UpsertsInOrder ==
    pc = "done" =>
        /\ \A i \in Calls("nodeUpdateBy") :
              LastCall(i, NodeKey)
              /\ (\A j \in Calls("relationshipUpdateBy") :
                     NodeKey(made[i].arg) \notin {NodeKey(made[j].arg[1]), NodeKey(made[j].arg[2])}) =>
                 \E n \in DOMAIN nodes : Identified(made[i].arg) = {n} /\ nodes[n].by = i
        /\ \A i \in Calls("relationshipUpdateBy") :
              LastCall(i, UpdateKey) => Cardinality({p \in DOMAIN edges : edges[p].by = i}) = 1

\* The node that has the key of an identity, or of one that is merged with it.
HasKey(n, v) == nodes[n].identity # None /\ NodeKey(nodes[n].identity) = NodeKey(v)

\* A relationship that an UpdateRelationshipBy wrote runs from and to the nodes
\* that this call identified, although their IDs come back from another statement
\* and the updates are traversed in the order of a Go map; when an earlier call
\* has the same key, the ends may be those of that call.
EndsAsIdentified ==
    \A p \in DOMAIN edges :
        edges[p].by # 0 /\ made[edges[p].by].op = "relationshipUpdateBy" =>
            \E j \in Calls("relationshipUpdateBy") :
                /\ j <= edges[p].by /\ UpdateKey(made[j].arg) = UpdateKey(made[edges[p].by].arg)
                /\ HasKey(p[1], made[j].arg[1]) /\ HasKey(p[2], made[j].arg[2])
=============================================================================
