-------------------------------- MODULE Load --------------------------------
(***************************************************************************)
(* The load of a collection by the retriever, into PostgreSQL:             *)
(* src/retriever/load.go, metrics.go and verify.go, with CreateNodes and   *)
(* the relationship buffer of src/drivers/pg/batch.go.                     *)
(*                                                                         *)
(* The manifest and the fragments are those of module Dump.  Every         *)
(* fragment is verified before anything is written.  Nodes are created in  *)
(* batches, each in a transaction, and get new IDs; relationships are      *)
(* resolved through them and written by one BatchOperation for each        *)
(* fragment.  A statement may fail, and its transaction may have been      *)
(* committed all the same; nothing of a load that failed is undone, and    *)
(* it may be started again.                                                *)
(*                                                                         *)
(* A node of the target is the source ID of its record, a relationship the *)
(* ID of its record: they stand for kinds and properties.                  *)
(***************************************************************************)
EXTENDS Naturals, Sequences, FiniteSets, FiniteSetsExt, SequencesExt, RelationshipBatch

CONSTANTS
    Ends,              \* relationship ID -> the source IDs of its ends
    LoadBatchSize,
    Serial(_),         \* the IDs that the sequence of the target gives out
    MaxAttempts,       \* bound: how often the load is started
    MaxFaults,         \* bound: statements that fail
    None

VARIABLES
    manifest, jsonl,   \* the collection; see Dump
    target,            \* graph -> [nodes: ID -> source ID, edges: pair -> [id, by]]
    taken,             \* how many IDs the sequence has given out
    at,                \* where the load is
    verify,            \* LoadOptions.VerifyMetrics
    graph, file, pos,  \* the graph, the fragment and the record that are next
    nodeMap,           \* the resolver: source ID -> ID
    pending,           \* the source IDs of the nodes to be created
    buffer,            \* the relationship buffer of the open batch
    loaded,            \* the relationships loaded for the graph
    attempts, faults

place == <<graph, file, pos>>
memory == <<nodeMap, pending, buffer, loaded>>
vars == <<target, taken, at, verify, place, memory, attempts, faults>>

Empty == [nodes |-> <<>>, edges |-> <<>>]

Init ==
    /\ target = <<>> /\ taken = 0 /\ at = "idle" /\ verify = FALSE
    /\ graph = 1 /\ file = 1 /\ pos = 1
    /\ nodeMap = <<>> /\ pending = <<>> /\ buffer = <<>> /\ loaded = 0
    /\ attempts = 0 /\ faults = 0
-----------------------------------------------------------------------------
Files == manifest[graph].files
Entry == Files[file]
Content == jsonl[Entry.path]
IsPhase(p) == file <= Len(Files) /\ Entry.path[2] = p

\* The map with more pairs: nodeIDResolver.put, which refuses what is there.
Put(map, pairs) ==
    [k \in DOMAIN map \cup DOMAIN pairs |-> IF k \in DOMAIN map THEN map[k] ELSE pairs[k]]

\* nodeIDResolver.resolve, for both ends.
Resolves(id) == Range(Ends[id]) \subseteq DOMAIN nodeMap

Stop == at' = "failed" /\ UNCHANGED <<target, taken, verify, place, memory, attempts, faults>>
At(g, f, p) == graph' = g /\ file' = f /\ pos' = p

\* Load: the manifest is read, and the collection verified.
Begin(v) ==
    /\ manifest # None /\ at \in {"idle", "failed", "loaded"} /\ attempts < MaxAttempts
    /\ attempts' = attempts + 1 /\ verify' = v /\ at' = "preflight" /\ At(1, 1, 1)
    /\ target' = IF target = <<>> THEN [g \in DOMAIN manifest |-> Empty] ELSE target
    /\ nodeMap' = <<>> /\ pending' = <<>> /\ buffer' = <<>> /\ loaded' = 0
    /\ UNCHANGED <<taken, faults>>

\* A bug: the digest of a fragment is not compared, only its count.
CountMatches == Len(Content) = Len(Entry.ids)

\* readVerifiedCompressedJSONLines: the content is what the manifest's digest says.
Intact == Content = Entry.ids

\* verifyCollectionFragments: no node twice, both ends of every relationship.
VerifyFile ==
    /\ at = "preflight" /\ graph <= Len(manifest) /\ file <= Len(Files)
    /\ IF /\ Intact
          /\ IsPhase("nodes") => IsInjective(Content) /\ Range(Content) \cap DOMAIN nodeMap = {}
          /\ IsPhase("edges") => \A id \in Range(Content) : Resolves(id)
       THEN /\ nodeMap' = IF IsPhase("nodes") THEN Put(nodeMap, [k \in Range(Content) |-> 0]) ELSE nodeMap
            /\ At(graph, file + 1, 1)
            /\ UNCHANGED <<target, taken, at, verify, pending, buffer, loaded, attempts, faults>>
       ELSE Stop

VerifyNextGraph ==
    /\ at = "preflight" /\ graph <= Len(manifest) /\ file > Len(Files)
    /\ At(graph + 1, 1, 1) /\ nodeMap' = <<>>
    /\ UNCHANGED <<target, taken, at, verify, pending, buffer, loaded, attempts, faults>>

\* A bug: a graph that has nodes and no relationships is taken for empty.
NoRelationships(g) == DOMAIN target[g].edges = {}

\* requireEmptyLoadTargets.
EmptyTarget(g) == DOMAIN target[g].nodes = {} /\ DOMAIN target[g].edges = {}

CheckTargets ==
    /\ at = "preflight" /\ graph > Len(manifest)
    /\ IF \A g \in DOMAIN manifest : EmptyTarget(g)
       THEN at' = "nodes" /\ At(1, 1, 1) /\ UNCHANGED <<target, taken, verify, memory, attempts, faults>>
       ELSE Stop
-----------------------------------------------------------------------------
\* loadGraphNodes: a record, which fills the batch or not.
ReadNode ==
    /\ at = "nodes" /\ graph <= Len(manifest) /\ IsPhase("nodes") /\ pos <= Len(Content)
    /\ IF Content[pos] \in DOMAIN nodeMap \cup Range(pending) THEN Stop
       ELSE /\ pending' = Append(pending, Content[pos]) /\ At(graph, file, pos + 1)
            /\ at' = IF Len(pending') >= LoadBatchSize THEN "create" ELSE "nodes"
            /\ UNCHANGED <<target, taken, verify, nodeMap, buffer, loaded, attempts, faults>>

\* decodeNodeFragmentFile and decodeEdgeFragmentFile: the fragment ends; its
\* records must be as many as the manifest says.
EndOfNodeFile ==
    /\ at = "nodes" /\ graph <= Len(manifest) /\ IsPhase("nodes") /\ pos > Len(Content)
    /\ IF pos - 1 # Len(Entry.ids) THEN Stop
       ELSE At(graph, file + 1, 1) /\ UNCHANGED <<target, taken, at, verify, memory, attempts, faults>>

EndOfNodes ==
    /\ at = "nodes" /\ graph <= Len(manifest) /\ ~IsPhase("nodes")
    /\ at' = IF pending = <<>> THEN "edges" ELSE "create"
    /\ UNCHANGED <<target, taken, verify, place, memory, attempts, faults>>

\* The statement of CreateNodes: record i gets the i-th of the next IDs.
WithNodes ==
    LET NewID(i) == Serial(taken + i)
        ids == {NewID(i) : i \in DOMAIN pending}
    IN [target EXCEPT ![graph].nodes =
           [n \in DOMAIN @ \cup ids |->
               IF n \in ids THEN pending[CHOOSE i \in DOMAIN pending : NewID(i) = n] ELSE @[n]]]

\* A bug: the rows are taken in the order in which they arrive.
CreatedIDsAsTheyArrive == [i \in DOMAIN pending |-> Serial(taken + Len(pending) + 1 - i)]

\* CreateNodes: each ID at the ordinal of its row.
CreatedIDs == [i \in DOMAIN pending |-> Serial(taken + i)]

\* flush of loadGraphNodes.
CreateNodes ==
    /\ at = "create"
    /\ target' = WithNodes /\ taken' = taken + Len(pending)
    /\ nodeMap' = Put(nodeMap, [k \in Range(pending) |->
                           CreatedIDs[CHOOSE i \in DOMAIN pending : pending[i] = k]])
    /\ pending' = <<>> /\ at' = "nodes"
    /\ UNCHANGED <<verify, place, buffer, loaded, attempts, faults>>
-----------------------------------------------------------------------------
\* loadGraphEdges: a record, resolved and put in the relationship buffer, which
\* is written when it holds more than the batch size.
ReadEdge ==
    /\ at = "edges" /\ IsPhase("edges") /\ pos <= Len(Content)
    /\ IF ~Resolves(Content[pos]) THEN Stop
       ELSE /\ buffer' = Append(buffer, [start |-> nodeMap[Ends[Content[pos]][1]],
                                         end |-> nodeMap[Ends[Content[pos]][2]], by |-> Content[pos]])
            /\ At(graph, file, pos + 1)
            /\ at' = IF Len(buffer') > LoadBatchSize THEN "write" ELSE "edges"
            /\ UNCHANGED <<target, taken, verify, nodeMap, pending, loaded, attempts, faults>>

\* The delegate ends: with an error, or the batch is committed.
EndOfEdgeFile ==
    /\ at = "edges" /\ IsPhase("edges") /\ pos > Len(Content)
    /\ \/ pos - 1 # Len(Entry.ids) /\ Stop
       \/ /\ pos - 1 = Len(Entry.ids) /\ buffer # <<>> /\ at' = "write"
          /\ UNCHANGED <<target, taken, verify, place, memory, attempts, faults>>
       \/ /\ pos - 1 = Len(Entry.ids) /\ buffer = <<>>
          /\ loaded' = loaded + Len(Entry.ids) /\ At(graph, file + 1, 1)
          /\ UNCHANGED <<target, taken, at, verify, nodeMap, pending, buffer, attempts, faults>>

\* flushRelationshipCreateBuffer.
WithEdges == [target EXCEPT ![graph].edges = Upsert(@, Rows(buffer), 0)]

WriteRelationships ==
    /\ at = "write"
    /\ target' = WithEdges /\ buffer' = <<>> /\ at' = "edges"
    /\ UNCHANGED <<taken, verify, place, nodeMap, pending, loaded, attempts, faults>>

\* A statement fails.  What it did is undone, or was committed before the
\* connection was lost; the IDs that were given out are gone.
StatementFails ==
    /\ at \in {"create", "write"} /\ faults < MaxFaults /\ faults' = faults + 1
    /\ at' = "failed" /\ taken' = IF at = "create" THEN taken + Len(pending) ELSE taken
    /\ target' \in {target, IF at = "create" THEN WithNodes ELSE WithEdges}
    /\ UNCHANGED <<verify, place, memory, attempts>>

\* loadManifestGraph compares the counts with those of the manifest.
EndOfGraph ==
    /\ at = "edges" /\ file > Len(Files)
    /\ IF Cardinality(DOMAIN nodeMap) # manifest[graph].count.nodes \/ loaded # manifest[graph].count.edges
       THEN Stop
       ELSE /\ graph' = graph + 1 /\ file' = 1 /\ pos' = 1
            /\ at' = IF graph < Len(manifest) THEN "nodes" ELSE IF verify THEN "metrics" ELSE "loaded"
            /\ nodeMap' = <<>> /\ loaded' = 0
            /\ UNCHANGED <<target, taken, verify, pending, buffer, attempts, faults>>
-----------------------------------------------------------------------------
\* metricsBuilder.finalize: the counts and the histograms of the degrees.
Metrics(nodes, pairs) ==
    LET Out(n) == Cardinality({i \in DOMAIN pairs : pairs[i][1] = n})
        In(n) == Cardinality({i \in DOMAIN pairs : pairs[i][2] = n})
        Histogram(Degree(_)) ==
            [d \in 0..(2 * Len(pairs)) |-> Cardinality({n \in nodes : Degree(n) = d})]
    IN <<Cardinality(nodes), Len(pairs), Histogram(In), Histogram(Out), Histogram(LAMBDA n : In(n) + Out(n))>>

\* collectDatabaseMetrics and what the dump has stored, for one graph.
Actual(g) == Metrics(DOMAIN target[g].nodes, SetToSeq(DOMAIN target[g].edges))
Expected(g) ==
    LET m == manifest[g].metrics IN
    Metrics(Range(m.nodes), [i \in DOMAIN m.edges |-> Ends[m.edges[i]]])

\* verifyLoadedMetrics.
VerifyMetrics ==
    /\ at = "metrics"
    /\ IF \A g \in DOMAIN manifest : Actual(g) = Expected(g)
       THEN at' = "loaded" /\ UNCHANGED <<target, taken, verify, place, memory, attempts, faults>>
       ELSE Stop

Step ==
    \/ VerifyFile \/ VerifyNextGraph \/ CheckTargets
    \/ ReadNode \/ EndOfNodeFile \/ EndOfNodes \/ CreateNodes
    \/ ReadEdge \/ EndOfEdgeFile \/ WriteRelationships \/ EndOfGraph \/ VerifyMetrics

Next == (\E v \in BOOLEAN : Begin(v)) \/ Step \/ StatementFails
=============================================================================
