----------------------------- MODULE Retriever -----------------------------
(***************************************************************************)
(* A collection from the source database to the target: the dump of module *)
(* Dump, whose files may be damaged once it is complete, then the load of  *)
(* module Load.                                                            *)
(***************************************************************************)
EXTENDS Dump

CONSTANTS LoadBatchSize, Serial(_), MaxAttempts, MaxFaults

VARIABLES
    target, taken, at, verify, graph, file, pos, nodeMap, pending, buffer, loaded, attempts, faults,
    damage     \* None, or what happened to the copy of the collection that is loaded:
               \* the fragment, its content, and whether it was before the first load

\* The copy of the collection that is loaded.
collection == IF damage = None THEN jsonl ELSE [jsonl EXCEPT ![damage.path] = damage.content]

L == INSTANCE Load WITH jsonl <- collection

loader == <<target, taken, at, verify, graph, file, pos, nodeMap, pending, buffer, loaded, attempts, faults>>
all == <<vars, loader, damage>>

WholeInit == Init /\ L!Init /\ damage = None

\* A fragment of the copy is cut or one of its records replaced.
Damage(path, content) ==
    /\ pc = "done" /\ damage = None
    /\ damage' = [path |-> path, content |-> content, before |-> attempts = 0]
    /\ UNCHANGED <<vars, loader>>

Damaged(ids) == {SubSeq(ids, 1, Len(ids) - 1)} \cup {[ids EXCEPT ![1] = id] : id \in ID \ {ids[1]}}

DumpStep == Next /\ UNCHANGED <<loader, damage>>
LoadStep == pc = "done" /\ L!Next /\ UNCHANGED <<vars, damage>>

WholeNext == DumpStep \/ LoadStep \/ \E path \in DOMAIN jsonl : \E content \in Damaged(jsonl[path]) : Damage(path, content)

\* A running dump goes on, and whoever runs it repeats an interrupted one with
\* Resume.
WholeSpec ==
    /\ WholeInit /\ [][WholeNext]_all
    /\ WF_all(Step /\ UNCHANGED <<loader, damage>>)
    /\ WF_all(Resume /\ UNCHANGED <<loader, damage>>)
-----------------------------------------------------------------------------
\* No node is in the target twice, however often the load fails, with its
\* statement committed or not, and is started again, and whatever the fragments
\* become meanwhile: requireEmptyLoadTargets refuses what an attempt has left,
\* and a record that comes twice stops the load.
LoadedOnce == \A g \in DOMAIN target : IsInjective(target[g].nodes)

\* A collection that is damaged when the load begins never leads to a write,
\* although the fragments are read again for the writes: "every fragment is
\* semantically valid before any database mutation" (cmd/retriever/README.md).
DamageStopsLoad ==
    damage # None /\ damage.before => \A g \in DOMAIN target : target[g] = L!Empty

\* No relationship was lost on the way to the target.
NoneLost == \A g \in DOMAIN target : Cardinality(DOMAIN target[g].edges) = Cardinality(source[g].edges)

\* What a dump completed, interrupted or not, a load accepts: without damage and
\* without a statement that fails, the first load of a collection succeeds, and
\* so does its verification if no relationship was lost on the way.
\* metricsBuilder is the reason that the ends of every relationship are there,
\* the database does not see to it; restoreDumpGraphFragments, that the metrics
\* of a resumed dump are those of all of its records.
DumpIsLoadable ==
    damage = None /\ faults = 0 /\ attempts = 1 /\ changes = 0 /\ (verify => NoneLost) => at # "failed"

\* What the target must hold: the source, under other node IDs.
Copied(g) ==
    LET nodes == target[g].nodes
        edges == target[g].edges
    IN /\ Range(nodes) = source[g].nodes
       /\ {<<nodes[p[1]], nodes[p[2]], edges[p].by>> : p \in DOMAIN edges} =
             {<<Ends[e][1], Ends[e][2], e>> : e \in source[g].edges}

\* A load that verified the metrics and succeeded has copied the source:
\* whatever the batch writer does with its keys, a relationship that was lost
\* is noticed by verifyLoadedMetrics.
VerifiedRoundTrip ==
    at = "loaded" /\ verify /\ damage = None /\ changes = 0 => \A g \in DOMAIN source : Copied(g)

\* A load that succeeded has copied the source: "CreateRelationshipByIDs creates a
\* new Relationship from the start Node to the end Node" (graph/graph.go).
RoundTrip ==
    at = "loaded" /\ damage = None /\ changes = 0 => \A g \in DOMAIN source : Copied(g)
=============================================================================
