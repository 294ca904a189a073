# DAWGS in TLA+

DAWGS is a Go library for property graphs on PostgreSQL and Neo4j: one graph
interface, a Cypher compiler for PostgreSQL, in-memory graph algorithms, and
the retriever, which dumps and loads whole graphs. This directory models the
parts where concurrency, failures and long histories decide correctness. TLC
checks the models on small instances; TLAPS proves what matters most about them
for every instance.

`PROJECT.json` has the mapping from each definition to the lines it models, the
runs, the mutants (bugs that each property must catch), the hazards, the findings
and the list of theorems. Run a model with `tlc -config X.cfg Module`, a proof
with `tlapm Module.tla`.

## 1. The system

Paths are relative to `src/`; a name after a path is in the same directory unless it has its own.

| Part | Source | Model | Proofs |
|---|---|---|---|
| SIEVE cache | `cache/sieve.go` | `Sieve`, its promise in `BoundedCache` | `SieveAndSwitchProofs` |
| Translation cache of the PostgreSQL driver | `drivers/pg/translation_cache.go`, `compiler.go` | `TranslationCache` | `TranslationCacheProofs` |
| Database switch | `graph/switch.go` | `DatabaseSwitch` | `SieveAndSwitchProofs` |
| Schema manager: kinds and graphs | `drivers/pg/manager.go`, `driver.go`, `transaction.go`, `query/query.go` | `SchemaManager`, `GraphRegistry`, composed in `Sessions` | `SessionsProofs` |
| Retriever: dump, checkpoint, resume | `retriever/dump.go`, `dump_checkpoint.go`, `scan.go`, `fragment_writer.go`, `manifest.go` | `Dump` | `DumpScanProofs`, `DumpProofs` |
| Retriever: load, verification | `retriever/load.go`, `metrics.go`, `verify.go` | `Load`, composed with `Dump` in `Retriever` | |
| Batch writer of the PostgreSQL driver | `drivers/pg/batch.go`, `statements.go` | `BatchWriter`, `RelationshipBatch` | |
| Breadth-first traversal, buffered pipe | `traversal/traversal.go`, `util/channels` | `Traversal` | `TraversalProofs` |
| Strong components, component graph, searches | `algo/scc.go`, `container/csr.go` | `StrongComponents`, `CSRDigraph`, `ComponentSearch`, composed in `ComponentGraph`; `Digraph` | `ComponentGraphProofs` |
| Reachability cache | `algo/reach.go` | `ReachabilityCache` | `ReachabilityCacheProofs` |

How they interact: an application calls a `graph.Database`, possibly through a
`DatabaseSwitch`. On PostgreSQL every transaction resolves its graph and its
kinds with the schema manager, and compiles Cypher through the translation
cache, which a schema change invalidates and which keeps its entries in a SIEVE
cache. Traversals run many read transactions at a time. The algorithms work on
a digraph fetched beforehand; the reachability cache keeps its answers in SIEVE
caches. The retriever scans one database through the same interface and loads
another one through the batch writer.

## 2. The modules

**Sieve, BoundedCache.** `store`, `visited`, `queue` and `hand` are the map, the
entry flags, the list and the clock hand. The list is a sequence of keys, newest
first. `Get`, `Put` (update, insert, evict and insert) and `Delete` are one step
each, since each holds the lock. `evict` is given in closed form;
`EvictMatchesLoop` in `MCSieve` checks it against the loop. The hand walks from
the oldest entry to the newest (`hand.Prev`, sieve.go:197); the comment at
sieve.go:176 has it the other way round, and the model follows the code.
`BoundedCache` is what users rely on: a lookup returns the last value stored or
nothing, and the capacity is kept.

**TranslationCache.** A caller goes from `idle` to `top` (head of the loop),
`wait`, `build` or `uncached`; each stretch under the lock is one step. A build
reads the schema at some moment between its start and its end. A translation is
the schema version it was made from, a key is a shape and a generation. Builds
fail, panic and turn out not to be cacheable; contexts are cancelled; the schema
changes under its own lock; the cache closes. The entries are a `BoundedCache`,
which `Sieve` is shown to implement.

**DatabaseSwitch.** Operations come in three classes by the context they pass on.
`currentDBLock` is Go's lock, in which a waiting writer keeps new readers out.

**SchemaManager, GraphRegistry, Sessions.** The committed tables, the rows of open
transactions and the maps in memory are separate state, because the code writes
the maps while the transaction is open. The pool of connections is counted.
Another process defines kinds at any moment. Graphs are created in the
transaction of the caller and known to the whole process at once. `Sessions`
composes the two under the one lock and the one pool of the schema manager: a
goroutine first resolves its graph and then uses kinds, as a write does.

**Dump.** The disk (`saved`, `manifest`, `jsonl`, `parquet`, `temps`) survives a
crash, everything else does not. Each write and each rename is a step, and
`Crash` and `Fail` may come between any two. `Fail` includes the clean-up that
the code does after an error. `Resume` is the whole start of a resumed dump:
removal of known temporary files, validation of checkpoint and files, and the
return to the saved phase. `Change` alters the database while the dump is down.

**Load, Retriever.** `Load` reads a collection of fragments: it verifies every
fragment, requires an empty target, creates the nodes in batches whose rows come
back in any order, resolves the ends of the relationships, writes these in batches, compares
the counts, and with verification the metrics. Statements fail before or after
they took effect, and a load is repeated. `Retriever` composes the two: the files
that `Dump` published are the collection, of which one may be damaged in between.

**RelationshipBatch, BatchWriter.** `RelationshipBatch` is the builder that merges
the relationships of one statement by a key of digits; `Load` uses it too.
`BatchWriter` has the seven buffers of a batch operation, the sizes at which they
are written, `tryFlush` with its order, and statements that fail. Updates are
merged by `NodeUpdate.Key` and `RelationshipUpdate.Key`, which write the identity
values one after the other. Keys of different identities meet: `a` to `aa` and `aa`
to `a` are one relationship of a batch, with the ends of the first call and the
properties of the last. The properties are stated by key for that reason.

**Traversal.** The caller's goroutine, the workers and the goroutine of the pipe
are separate processes. A select with its context done and its channel ready may
take either. The driver is a function from a segment to the segments below it
and may fail. `SwitchDatabase` is the effect of `DatabaseSwitch.Switch` on a
traversal: it cancels the contexts of the workers' transactions and not the
traversal's. A worker keeps the error of any cancelled context to itself
(traversal.go:331), so one that loses its transaction this way leaves its segment
counted and nobody cancels the traversal; `Stranded` names these states.

**Digraph, CSRDigraph, StrongComponents, ComponentSearch, ComponentGraph.**
`Digraph` has the adjacency interface and, as the reference, `ReachOf`: what every
closed set around a node contains. `StrongComponents` is the iterative form of
Tarjan's algorithm with its two stacks, one step per branch; any neighbour may be
next. `CSRDigraph` is the builder of compressed sparse rows with its offsets.
`ComponentSearch` has the search from both ends, which expands the shorter queue,
and the search from one end. `ComponentGraph` runs queries over what was built.

**ReachabilityCache.** Each caller has a stack of cursors; each branch that a cursor
takes is a step, and the lookups and insertions in the two shared caches (each a
`BoundedCache`) happen in the steps of several callers in any order.

The `MC` modules hold the sets TLC needs (symmetries, trees, graphs, databases),
constraints, and the eviction loop.

## 3. The runs

| Run | Instance | Shows |
|---|---|---|
| `sieve` | 4 keys, 2 values, capacity 3 | the hand stays in the queue; the closed form of `evict` is the loop; visited entries are spared; implements `BoundedCache` |
| `translation_cache` | 2 callers, 2 shapes, capacity 1, 2 schema changes | fresh results, no stale entry, one leader, no lost wakeup, calls return |
| `database_switch` | 3 clients, 1 switch | live operations stay on their database; no context is left; the switch ends |
| `sessions` | 2 sessions, 2 kinds, 1 graph, pool of 3, 1 failure or rollback | one kind per ID; complete answers; known kinds stay known; one creator of a graph; no deadlock |
| `retriever` | IDs 0 to 3, 2 graphs, shards of 2, batches of 3, 2 interruptions, 1 change; loads in batches of 2, 2 attempts, 1 fault | committed files stay; resume is never refused; the dump is exact; changed counts are noticed; nothing is created twice; a damaged collection is not loaded; a dump can be loaded; a verified load is a true copy; the dump ends |
| `traversal` | 1 or 2 workers, 1 or 2 connections, trees of up to 4 segments | the count is the work in flight and the segments given up; a clean return means the whole tree; no error is lost; no send on a closed channel; the call ends unless a switch of the database strands it |
| `components` | all digraphs of 4 nodes without loops | components, component graph, both searches and the answers for nodes are exact |
| `reachability` | 2 callers, 4 components, caches of 1 entry | nothing unreachable is cached; a search is whole unless an entry it took was not |
| `batch_writer` | 3 calls of any kind, 2 nodes, 3 identities whose keys meet, sizes 1, 1 failure | each call is written once or is still buffered; of the upserts with one key the last wins; relationships end where a call with their key says |

Three runs show a place where the code and what is written about it disagree.

- `schema_manager_phantom`: a failed transaction leaves kinds in memory
  (manager.go:135), and `AssertKinds` returns IDs that are not in the table.
- `retriever_round_trip`: the key of a relationship in a batch has no separator
  (batch.go:742), so 1 to 11 and 11 to 1 are merged and one of them is lost. A
  load with verification notices it, one without does not.
- `reachability_partial`: where two branches meet, the search caches too small a
  reach (reach.go:230), and a later query returns it. `WholeUnlessCached` in
  `reachability` says that this is the only way to lose a component.

Two more disagreements are hazards without a run of their own. A traversal that a
switch of the database strands waits until the caller's context ends, although the
comment at traversal.go:282 has all workers join "no matter what": without its
premise `Ends` is false, and TLC shows it with one worker and one segment. And
updates whose keys meet are merged, although graph.go:301 has each of them applied
to the relationship its criteria identify.

### Bounds

Capacity 3 is the least at which the hand can stand strictly inside the list. A
translation cache of 1 makes every second shape evict, and two schema changes
let a build be overtaken twice. Batches of 3 with shards of 2 put a shard
boundary inside a batch; ID 0 is there because it is a valid cursor that looks
like none. Two interruptions let a resumed dump be interrupted again. The target
of a load numbers its nodes 1, 11, 12 and so on, so that keys of digits can meet.
One worker fills the completion channel, which a larger team does not do on trees
this small; one connection for two workers makes a worker wait, and it waits until
the other is through, since nothing else is made to end its wait. The three
identities of `batch_writer` have two properties: two of them have one node key,
and with the third each has relationship keys that meet. Four nodes are
enough for two components with an edge between them and for branches that meet.
Caches of one entry make every insertion evict.

Three runs have a state constraint. `sessions` (`Bound`) limits the IDs given out
in all and has one failure or rollback. `retriever` (`LoadsUndisturbed`) follows
loads only after dumps with at most one interruption and no change, while the dump
itself is explored with two and one. `components` (`QueriesOverWhole`) follows
queries only over component graphs whose construction was not interrupted; the
proofs have none of these limits.
`MaxID`, `MaxFailures`, `MaxRollbacks`, `MaxCalls`, `MaxGeneration`,
`MaxInterruptions`, `MaxChanges` and the like are bounds of the models only.
Symmetry is used over sessions and kinds, over the nodes of the digraphs and over
the callers of the reachability cache, in runs without liveness. A deadlock of the schema manager when as many transactions
as the pool has connections need a second one is a listed hazard; `sessions` has
one connection to spare and does not show it.

### Fairness

Goroutines that can run are run (weak fairness of each one's steps). Beyond that:
builds end and schema changes do not sit on the lock (`translation_cache`); an
operation ends only if it is cancelled or is one of the short ones that ignore
their context (`database_switch`); an interrupted dump is resumed by whoever runs
it (`retriever`); the driver answers, and a worker that waits for a connection gets one when one is
free (`traversal`). `SwitchEnds` supposes that cancelled operations end; the workers of a traversal
that wait for a segment look at another context and end with their traversal. `translation_cache` does not
check deadlock, since callers have a bounded number of calls.

## 4. The proofs

Each proof holds for every value of the constants that satisfies the named
`ASSUME`s of the modules, which TLC evaluates in the runs. They say that sets are
disjoint from their "none" values, that capacities and sizes are positive, that the
inputs are digraphs, trees or databases, and, for the dump, that IDs are finitely
many natural numbers. No bound named `Max...` is used for more than its type.

**SieveAndSwitchProofs, the cache.** `TypeOK`, queue and map agreeing, and `HandInQueue` are inductive
together: evict starts from the hand, and that the queue has no key twice says
what removing a position removes. Second chance and the refinement of
`BoundedCache` follow step by step.

**TranslationCacheProofs.** No property is inductive alone. The strengthening says
that the schema is one version ahead of the generation exactly between change and
invalidation (`SchemaInv`), that a key is no older than its call and a build has
read nothing older than its key (`CallInv`), and that registered calls and leaders
are the same (`PendingInv`, `SignalInv`). The actions are sorted by what they mean
for leaders and waiters, with one lemma per class.

**SieveAndSwitchProofs, the switch.** That no context is left holds for any number of switches,
overlapping ones too. That a live operation stays on its database is proved under
`OneSwitchAtATime`, which is a hypothesis about the callers: with overlapping
switches the end of the first lets contexts be issued during the second, a listed
hazard.

**SessionsProofs.** The invariant of the composition is proved once: the types, who
holds the lock, what is known of a graph at each point of its creation (`GraphInv`),
how the two maps relate to the committed rows and the open transaction (`KindInv`),
and what has been answered (`AnswerInv`). The five properties follow from it.

**TraversalProofs.** The count of work in flight and of segments given up, the places
of workers, caller and pipe (`Shape`), that a worker gives up a segment only as it ends
(`DropInv`), and, as long as nothing failed or was interrupted, that every segment
that is owed a visit is visited or in flight, or else a segment was given up and the
caller still waits (`CleanInv`). At a clean return nothing is in flight and nothing was
given up, so the visited set is closed (`TraversalVisitsAll`).

**ReachabilityCacheProofs.** The stack of a caller is a chain of neighbours, and what
a cursor has gathered is reachable and covers what it has left behind; entries
of the caches contain the component and its neighbours and nothing unreachable.

**ComponentGraphProofs.** Three results about the algorithms of `algo/scc.go`:

- `TarjanIsExact`: every component cut off the stack is a whole class of nodes that
  reach each other, for every digraph and order of enumeration. The invariant has
  that both stacks are in the order of discovery (`Order`), that a low-link names a
  node its owner reaches and bounds all it has looked at (`LowLinks`), that a node on
  the path of cursors reaches what is above it on the stack and every node on the
  stack reaches the path below it (`Tree`), and that no edge leads out of the found
  components (`FoundInv`).
- `SearchIsExact`: the search from both ends and the one from one end answer yes
  exactly if there is a path. Each side has seen only what it reaches, and its
  queue separates the seen from the unseen.
- `CanReachIsExact`: the answer for two nodes is the one the origin digraph gives,
  whenever `BuiltIsComponentGraph` holds. That premise is about the rows the builder
  folds together, which needs induction over data; TLC checks it on all digraphs of
  four nodes.

**DumpScanProofs and DumpProofs.** The first has the lemmas about checkpoints and files,
the invariant and the steps that save a checkpoint, begin a graph and scan it; the second
the other steps and the theorems. `DumpInvariant` says that four things agree at all times: the
checkpoint on disk, the one in memory, the scan and the files.

- A checkpoint lists, for every graph, files with consecutive numbers whose
  records ascend and, unless the database changed, are records of it, as many as
  were counted once the graph is complete (`SavedInv`, `MemInv`).
- The two checkpoints name the same files, or the one in memory one more, which
  was published under the next number before it was committed (`SavedRel`).
- The published files are those of the checkpoint and the shard that is between its
  renames and its commit (`RunDisk` while the dump runs, `SavedDisk` while it is down).
- What was scanned is what is committed followed by the open writer (`ScanInv`).
- The manifest names complete graphs, whose files are on disk (`ManifestInv`).

From it follow `CommittedStaysOnDisk`, `ResumeIsAccepted`, `ManifestHasTheCounts` and
`ManifestIsExact`. The facts about least elements and cardinalities that the lemmas
need are gathered in `Counting`, a definition and not an assumption on the constants:
`CountingHolds` proves it.

### What is only model-checked, and why

- All liveness (`EveryCallReturns`, `SwitchEnds`, `EndsInManifest`, `Ends`): liveness
  under fairness is out of the prover's reach.
- `EvictMatchesLoop` (a recursive operator) and `BuiltIsComponentGraph` (a fold over
  data): both need induction over data.
- `WholeTreeVisited`: that a closed set around the root is the whole tree is
  induction over the tree; the closure itself is `TraversalVisitsAll`.
- `LoadedOnce`, `DamageStopsLoad`, `DumpIsLoadable` and `VerifiedRoundTrip` of
  `Retriever`, and `WrittenOnce`, `UpsertsInOrder` and `EndsAsIdentified` of
  `BatchWriter`: not proved. The loading half rests on folds over batches.

## 5. Limits

The models cover about 4,230 mapped lines, under 4% of the repository. Most of it
is the generated Cypher parser, syntax trees, the SQL translator and optimizer,
formatters, benchmarks and tools: sequential transformations of syntax whose
faithful models would be transliterations. Not modelled, with reasons in
`PROJECT.json`: the map cache without expiry, archives and keys, scrubber and
telemetry, the Neo4j driver, graph values, the graph cache, cardinality sets,
decision diagrams, graph operations, traversal patterns and filters, query
builders, the Cypher front end, the translator, OpenGraph, and the commands.

Within the modelled parts these are left out: statistics, digests and encodings
(a digest is its content), logging, index and constraint changes, the concurrent
map access of `FetchKinds`, the loss of unsynced files on power failure, and
changes of the database while a dump runs (a record removed and one added cancel
out in the counts). `TranslationCache` takes a failed schema transaction to leave the
IDs of committed kinds alone; the kinds it leaves in memory are `SchemaManager`'s. A
query for an ID in no component, which is answered with no at once, is no step of
`ComponentGraph`. The hazards in `PROJECT.json` without a property say why they
have none.

Known cases outside the models' assumptions: a traversal with no worker, which
waits for the caller's context; a traversal started inside the transaction that
holds the last connection; the removal of a directory by a forced dump that is
interrupted half way.
