-------------------------------- MODULE Dump --------------------------------
(***************************************************************************)
(* The resumable dump of the retriever: src/retriever/dump.go,             *)
(* dump_checkpoint.go, scan.go and fragment_writer.go.                     *)
(*                                                                         *)
(* Each graph is scanned by ascending ID, first its nodes, then its        *)
(* relationships, into shards of a fixed size.  A shard is staged in       *)
(* temporary files, published by renaming them, and then committed by      *)
(* replacing the checkpoint.  The process may die between any two          *)
(* operations on the file system; a dump with Resume starts from the       *)
(* checkpoint, after removing what the last one left unpublished.          *)
(*                                                                         *)
(* A record is its ID; a file's digest is its content.  A relationship     *)
(* knows its ends by their IDs; the database does not keep them alive.     *)
(***************************************************************************)
EXTENDS Naturals, Sequences, FiniteSets, FiniteSetsExt

CONSTANTS
    ID,                \* the IDs of nodes and relationships, 0 included
    Ends,              \* relationship ID -> the IDs of its two nodes
    Sources,           \* the databases to dump: sequences of [nodes, edges]
    ShardSize, BatchSize,
    Parquet,           \* DumpOptions.Parquet: every shard has a sidecar
    MaxInterruptions,  \* bound: how often the process dies or an operation fails
    MaxChanges,        \* bound: how often the database changes while the dump is down
    None

Phase == {"nodes", "edges"}

\* FileManifest, GraphManifest, dumpCheckpointGraph and dumpCheckpoint.
FileEntry == [path : Nat \X Phase \X Nat, ids : Seq(ID)]
GraphEntry == [count : [Phase -> Nat], files : Seq(FileEntry), metrics : [Phase -> Seq(ID)]]
CurrentGraph ==
    [count : [Phase -> Nat] \cup {None}, phase : Phase, last : ID \cup {None}, files : Seq(FileEntry)]
Checkpoint == [graphs : Seq(GraphEntry), current : CurrentGraph \cup {None}]

ASSUME DumpAssumption ==
    /\ ID \subseteq Nat /\ IsFiniteSet(ID) /\ Ends \in [ID -> ID \X ID]
    /\ Sources \subseteq Seq([Phase -> SUBSET ID])
    /\ ShardSize \in Nat \ {0} /\ BatchSize \in Nat \ {0}
    /\ Parquet \in BOOLEAN /\ MaxInterruptions \in Nat /\ MaxChanges \in Nat
    /\ None \notin Nat /\ None \notin [Phase -> Nat] /\ None \notin CurrentGraph

VARIABLES
    source,         \* the database
    saved,          \* the checkpoint file, or None
    manifest,       \* the manifest file: its graphs, or None
    jsonl,          \* the published fragments: path -> IDs
    parquet,        \* the paths of the published sidecars
    temps,          \* the temporary files
    pc,
    mem,            \* the checkpoint in memory
    then,           \* where the process goes on once the checkpoint is saved
    writer,         \* the IDs in the open fragment
    cursor, short,  \* what the current batch has left; whether it was too short
    last,           \* the last ID scanned, or None
    processed,      \* the number of IDs of the phase that were scanned
    observed,       \* what the metrics builder was shown
    interruptions, changes

disk == <<saved, manifest, jsonl, parquet, temps>>
scan == <<writer, cursor, short, last, processed, observed>>
vars == <<source, disk, pc, mem, then, scan, interruptions, changes>>

NoCheckpoint == [graphs |-> <<>>, current |-> None]
Unobserved == [p \in Phase |-> <<>>]

Init ==
    /\ source \in Sources
    /\ saved = None /\ manifest = None /\ jsonl = <<>> /\ parquet = {} /\ temps = {}
    /\ pc = "down" /\ mem = NoCheckpoint /\ then = "down"
    /\ writer = <<>> /\ cursor = <<>> /\ short = FALSE /\ last = None /\ processed = 0
    /\ observed = Unobserved
    /\ interruptions = 0 /\ changes = 0
-----------------------------------------------------------------------------
\* countGraphEntitySnapshot.
Count(g) == [p \in Phase |-> Cardinality(source[g][p])]

\* filterPhaseFiles, the records of these files, and their number (fileTotal).
PhaseFiles(files, p) ==
    LET result[i \in 0..Len(files)] ==
            IF i = 0 THEN <<>>
            ELSE IF files[i].path[2] = p THEN Append(result[i - 1], files[i]) ELSE result[i - 1]
    IN result[Len(files)]
Records(files, p) ==
    LET ids[i \in 0..Len(files)] ==
            IF i = 0 THEN <<>>
            ELSE IF files[i].path[2] = p THEN ids[i - 1] \o files[i].ids ELSE ids[i - 1]
    IN ids[Len(files)]
Total(files, p) == Len(Records(files, p))

\* The graph being dumped, and the path of its next shard.
Current == mem.current
Index == Len(mem.graphs) + 1
NextPath(ckpt) ==
    <<Len(ckpt.graphs) + 1, ckpt.current.phase,
      Len(PhaseFiles(ckpt.current.files, ckpt.current.phase)) + 1>>
Shard == NextPath(mem)
CheckpointTemp == <<"checkpoint", <<>>>>
ManifestTempFile == <<"manifest", <<>>>>
Staged(path) == {<<"jsonl", path>>} \cup IF Parquet THEN {<<"parquet", path>>} ELSE {}

\* The process ends: its memory is gone.
Down ==
    /\ pc' = "down" /\ mem' = NoCheckpoint /\ then' = "down"
    /\ writer' = <<>> /\ cursor' = <<>> /\ short' = FALSE /\ last' = None /\ processed' = 0
    /\ observed' = Unobserved

Goto(where) == pc' = where /\ UNCHANGED then
Save(next) == pc' = "save" /\ then' = next
-----------------------------------------------------------------------------
\* prepareOutputDirectory: a directory that is not empty is refused, or with
\* -force replaced.  The first checkpoint is saved.
Start(force) ==
    /\ pc = "down"
    /\ force \/ (saved = None /\ manifest = None /\ DOMAIN jsonl = {} /\ parquet = {} /\ temps = {})
    /\ saved' = None /\ manifest' = None /\ jsonl' = <<>> /\ parquet' = {} /\ temps' = {}
    /\ mem' = NoCheckpoint /\ Save("graph")
    /\ UNCHANGED <<source, scan, interruptions, changes>>

\* A bug: only the temporary files of the checkpoint and the manifest are known.
LeftTempsOnly(ckpt) == {}

\* removeKnownDumpCheckpointTemps: the shard that may have been staged or
\* published after the checkpoint was saved.
Left(ckpt) == IF ckpt.current = None THEN {} ELSE {NextPath(ckpt)}

\* The files a checkpoint names.
Committed(ckpt) ==
    (UNION {Range(ckpt.graphs[g].files) : g \in DOMAIN ckpt.graphs})
    \cup IF ckpt.current = None THEN {} ELSE Range(ckpt.current.files)

\* A bug: a database that has lost or gained records is dumped on.
SameAny == TRUE

\* validateCompletedDumpSources.
SameCompleted == \A g \in 1..Len(saved.graphs) : Count(g) = saved.graphs[g].count

\* loadCompatibleDumpCheckpoint: what was left is removed; the dump goes on if
\* every committed file is there with its content and nothing else is, and if
\* the counts of the completed graphs are what they were.
Accepted(ckpt, files, sidecars, others) ==
    /\ DOMAIN files = {f.path : f \in Committed(ckpt)}
    /\ \A f \in Committed(ckpt) : files[f.path] = f.ids
    /\ sidecars = IF Parquet THEN DOMAIN files ELSE {}
    /\ others = {}

\* validateDumpCheckpointFragmentPaths: the files are numbered per phase.
Numbered(g, files) ==
    \A p \in Phase : \A i \in 1..Len(PhaseFiles(files, p)) : PhaseFiles(files, p)[i].path = <<g, p, i>>

\* validateDumpCheckpoint: the files are numbered and not empty, nodes before
\* relationships, and agree with the counts, the phase and the cursor.
Valid(ckpt) ==
    /\ Len(ckpt.graphs) <= Len(source)
    /\ \A g \in 1..Len(ckpt.graphs) : Numbered(g, ckpt.graphs[g].files)
    /\ ckpt.current # None =>
          LET c == ckpt.current IN
          /\ Len(ckpt.graphs) < Len(source) /\ c.count # None
          /\ \A i \in 1..Len(c.files) : c.files[i].ids # <<>>
          /\ c.files = PhaseFiles(c.files, "nodes") \o PhaseFiles(c.files, "edges")
          /\ \A p \in Phase : Total(c.files, p) <= c.count[p]
          /\ Numbered(Len(ckpt.graphs) + 1, c.files)
          /\ c.phase = "edges" => Total(c.files, "nodes") = c.count.nodes
          /\ (Total(c.files, c.phase) > 0) = (c.last # None)

Resume ==
    /\ pc = "down" /\ manifest = None /\ saved # None /\ Valid(saved)
    /\ LET left == Left(saved) IN
          /\ jsonl' = [p \in DOMAIN jsonl \ left |-> jsonl[p]]
          /\ parquet' = parquet \ left
          /\ temps' = temps \ ((UNION {Staged(p) : p \in left}) \cup {CheckpointTemp, ManifestTempFile})
    /\ IF Accepted(saved, jsonl', parquet', temps') /\ SameCompleted
       THEN mem' = saved /\ Goto("graph")
       ELSE UNCHANGED <<mem, pc, then>>
    /\ UNCHANGED <<source, saved, manifest, scan, interruptions, changes>>

\* The database changes while no dump runs; a node takes its relationships
\* with it (the trigger delete_node_edges).
Change(g, p, id) ==
    /\ pc = "down" /\ saved # None /\ manifest = None /\ changes < MaxChanges
    /\ changes' = changes + 1
    /\ source' = LET was == source[g] IN
                 [source EXCEPT ![g] =
                     IF id \notin was[p] THEN [was EXCEPT ![p] = @ \cup {id}]
                     ELSE IF p = "edges" THEN [was EXCEPT !.edges = @ \ {id}]
                     ELSE [nodes |-> was.nodes \ {id}, edges |-> {e \in was.edges : id \notin Range(Ends[e])}]]
    /\ UNCHANGED <<disk, pc, mem, then, scan, interruptions>>
-----------------------------------------------------------------------------
\* writeDumpCheckpoint: a temporary file, renamed.
SaveTemp ==
    /\ pc = "save" /\ temps' = temps \cup {CheckpointTemp} /\ Goto("rename")
    /\ UNCHANGED <<source, saved, manifest, jsonl, parquet, mem, scan, interruptions, changes>>

SaveRename ==
    /\ pc = "rename" /\ saved' = mem /\ temps' = temps \ {CheckpointTemp} /\ Goto(then)
    /\ UNCHANGED <<source, manifest, jsonl, parquet, mem, scan, interruptions, changes>>

\* Dump: the next graph, or the manifest.
NextGraph ==
    /\ pc = "graph"
    /\ IF Len(mem.graphs) = Len(source)
       THEN Goto("manifest") /\ UNCHANGED mem
       ELSE /\ Goto("count")
            /\ mem' = IF Current # None THEN mem
                      ELSE [mem EXCEPT !.current = [count |-> None, phase |-> "nodes",
                                                    last |-> None, files |-> <<>>]]
    /\ UNCHANGED <<source, disk, scan, interruptions, changes>>

\* dumpGraph: the counts are taken, or compared with those of the checkpoint.
CountGraph ==
    /\ pc = "count"
    /\ \/ /\ Current.count = None
          /\ mem' = [mem EXCEPT !.current.count = Count(Index)]
          /\ Save("restore") /\ UNCHANGED scan
       \/ /\ Current.count # None /\ Current.count = Count(Index)
          /\ Goto("restore") /\ UNCHANGED <<mem, scan>>
       \/ /\ Current.count # None /\ Current.count # Count(Index)
          /\ Down
    /\ UNCHANGED <<source, disk, interruptions, changes>>

\* restoreDumpGraphFragments: the metrics builder is shown the committed files.
Restored == [p \in Phase |-> Records(Current.files, p)]

\* The last of the nodes that are committed.
RestoredCursor == LET ids == Records(Current.files, "nodes") IN ids[Len(ids)]

\* A bug: a resumed scan counts from zero.
ResumeAtZero == 0

\* The records of the current phase that are committed.
AlreadyProcessed == Total(Current.files, Current.phase)

Restore ==
    /\ pc = "restore"
    /\ \/ /\ Current.phase = "nodes" /\ Current.last # None
          /\ Current.last # RestoredCursor
          /\ Down
       \/ /\ Current.phase = "nodes" /\ Current.last # None =>
                Current.last = RestoredCursor
          /\ observed' = Restored
          /\ last' = Current.last /\ processed' = AlreadyProcessed
          /\ Goto("scan")
          /\ UNCHANGED <<mem, writer, cursor, short>>
    /\ UNCHANGED <<source, disk, interruptions, changes>>

\* The query of a batch: the first of the remaining records, ordered by ID.
Ascending(ids) == \A i, j \in 1..Len(ids) : i < j => ids[i] < ids[j]
Least(ids, rest) == Ascending(ids) /\ \A i \in 1..Len(ids), r \in rest \ Range(ids) : ids[i] < r

\* scanEntityBatches: one read of up to BatchSize records after the last ID.

ReadBatch ==
    /\ pc = "scan" /\ processed < Current.count[Current.phase]
    /\ LET rest == {i \in source[Index][Current.phase] : last = None \/ i > last}
           requested == Min({Current.count[Current.phase] - processed, BatchSize})
       IN /\ \E batch \in [1..Min({requested, Cardinality(rest)}) -> rest] :
                Least(batch, rest) /\ cursor' = batch
          /\ short' = (Cardinality(rest) < requested)
    /\ Goto("handle")
    /\ UNCHANGED <<source, disk, mem, writer, last, processed, observed, interruptions, changes>>

Full(w) == Len(w) >= ShardSize

\* A bug: the metrics builder counts a relationship whatever its ends are.
AlwaysObserved(id) == TRUE

\* observeDatabaseRelationship: both ends must have been scanned as nodes.
Observable(id) == Current.phase = "edges" => Range(Ends[id]) \subseteq Range(observed.nodes)

\* The handler of dumpNodePhase and dumpEdgePhase: the record is shown to the
\* metrics builder and written; a full shard is flushed.
Handle ==
    /\ pc = "handle" /\ cursor # <<>> /\ Observable(Head(cursor))
    /\ temps' = IF writer = <<>> THEN temps \cup Staged(Shard) ELSE temps
    /\ writer' = Append(writer, Head(cursor)) /\ cursor' = Tail(cursor)
    /\ observed' = [observed EXCEPT ![Current.phase] = Append(@, Head(cursor))]
    /\ last' = Head(cursor) /\ processed' = processed + 1
    /\ Goto(IF Full(writer') THEN "publish" ELSE "handle")
    /\ UNCHANGED <<source, saved, manifest, jsonl, parquet, mem, short, interruptions, changes>>

\* A relationship without both ends is an error: the open fragment is aborted.
HandleDangling ==
    /\ pc = "handle" /\ cursor # <<>> /\ ~Observable(Head(cursor))
    /\ temps' = temps \ Staged(Shard)
    /\ Down
    /\ UNCHANGED <<source, saved, manifest, jsonl, parquet, interruptions, changes>>

\* The batch is done.  A short one is an error: the open fragment is aborted.
EndOfBatch ==
    /\ pc = "handle" /\ cursor = <<>>
    /\ IF short /\ processed < Current.count[Current.phase]
       THEN Down /\ temps' = temps \ Staged(Shard)
       ELSE Goto("scan") /\ UNCHANGED <<temps, mem, scan>>
    /\ UNCHANGED <<source, saved, manifest, jsonl, parquet, interruptions, changes>>

\* closeFragmentWriter: the fragment is renamed, then its sidecar.
Publish ==
    /\ pc = "publish"
    /\ jsonl' = [p \in DOMAIN jsonl \cup {Shard} |-> IF p = Shard THEN writer ELSE jsonl[p]]
    /\ temps' = temps \ {<<"jsonl", Shard>>}
    /\ Goto(IF Parquet THEN "sidecar" ELSE "commit")
    /\ UNCHANGED <<source, saved, manifest, parquet, mem, scan, interruptions, changes>>

PublishSidecar ==
    /\ pc = "sidecar"
    /\ parquet' = parquet \cup {Shard} /\ temps' = temps \ {<<"parquet", Shard>>}
    /\ Goto("commit")
    /\ UNCHANGED <<source, saved, manifest, jsonl, mem, scan, interruptions, changes>>

\* A bug: the cursor saved is that of the scan, which moves only after the
\* handler has returned.
CursorOfScan ==
    IF ~Full(writer) THEN last
    ELSE IF Len(writer) > 1 THEN writer[Len(writer) - 1] ELSE Current.last

\* The source cursor that a shard is committed with.
LastWritten == last

\* onCommit: the file and its cursor enter the checkpoint.
Commit ==
    /\ pc = "commit"
    /\ mem' = [mem EXCEPT !.current.files = Append(@, [path |-> Shard, ids |-> writer]),
                          !.current.last = LastWritten]
    /\ writer' = <<>>
    /\ Save("handle")
    /\ UNCHANGED <<source, disk, cursor, short, last, processed, observed, interruptions, changes>>

\* The scan of the phase is over: what is open is flushed, then the phase of
\* relationships begins, or the graph is complete.
EndOfScan ==
    /\ pc = "scan" /\ processed >= Current.count[Current.phase]
    /\ \/ writer # <<>> /\ Goto("publish") /\ UNCHANGED <<mem, scan>>
       \/ /\ writer = <<>> /\ Current.phase = "nodes"
          /\ mem' = [mem EXCEPT !.current.phase = "edges", !.current.last = None]
          /\ last' = None /\ processed' = 0
          /\ Save("scan")
          /\ UNCHANGED <<writer, cursor, short, observed>>
       \/ /\ writer = <<>> /\ Current.phase = "edges"
          /\ Goto("complete") /\ UNCHANGED <<mem, scan>>
    /\ UNCHANGED <<source, disk, interruptions, changes>>

\* The files hold as many records as were counted: the graph enters the manifest.
Complete ==
    /\ pc = "complete"
    /\ IF \A p \in Phase : Total(Current.files, p) = Current.count[p]
       THEN /\ mem' = [graphs |-> Append(mem.graphs, [count |-> Current.count, files |-> Current.files,
                                                      metrics |-> observed]),
                       current |-> None]
            /\ Save("graph") /\ UNCHANGED scan
       ELSE Down
    /\ UNCHANGED <<source, disk, interruptions, changes>>

\* writeManifest, and removeDumpCheckpoint, whose failure is only logged.
ManifestTemp ==
    /\ pc = "manifest" /\ temps' = temps \cup {ManifestTempFile} /\ Goto("publishManifest")
    /\ UNCHANGED <<source, saved, manifest, jsonl, parquet, mem, scan, interruptions, changes>>

ManifestRename ==
    /\ pc = "publishManifest"
    /\ manifest' = mem.graphs /\ temps' = temps \ {ManifestTempFile} /\ Goto("removeCheckpoint")
    /\ UNCHANGED <<source, saved, jsonl, parquet, mem, scan, interruptions, changes>>

RemoveCheckpoint ==
    /\ pc = "removeCheckpoint" /\ Goto("done")
    /\ \/ saved' = None /\ UNCHANGED interruptions
       \/ /\ interruptions < MaxInterruptions /\ interruptions' = interruptions + 1
          /\ UNCHANGED saved
    /\ UNCHANGED <<source, manifest, jsonl, parquet, temps, mem, scan, changes>>

Done == pc = "done" /\ UNCHANGED vars
-----------------------------------------------------------------------------
\* The process dies.
Crash ==
    /\ pc \notin {"down", "done"} /\ interruptions < MaxInterruptions
    /\ interruptions' = interruptions + 1
    /\ Down
    /\ UNCHANGED <<source, disk, changes>>

\* A bug: every checkpoint that cannot be saved takes the last shard with it.
LastShard == IF Current # None /\ Current.files # <<>> THEN {Current.files[Len(Current.files)].path} ELSE {}

\* removePublishedFragmentOutputs: the shard whose commit could not be saved.
Uncommitted == IF then = "handle" THEN {Current.files[Len(Current.files)].path} ELSE {}

\* An operation fails and the dump returns the error.  A scan aborts the open
\* fragment, a rename removes what it staged and published, and a checkpoint
\* that cannot be saved takes the published shard with it; a checkpoint or a
\* manifest that cannot be written may leave its temporary file.
Fail ==
    /\ interruptions < MaxInterruptions
    /\ interruptions' = interruptions + 1
    /\ \/ /\ pc \in {"count", "restore", "scan", "handle", "publish", "sidecar"}
          /\ LET shard == IF pc \in {"scan", "handle", "publish", "sidecar"} THEN {Shard} ELSE {} IN
                /\ temps' = temps \ UNION {Staged(p) : p \in shard}
                /\ jsonl' = [p \in DOMAIN jsonl \ shard |-> jsonl[p]]
          /\ UNCHANGED parquet
       \/ /\ pc \in {"save", "rename"}
          /\ \/ pc = "save" /\ temps' = temps \cup {CheckpointTemp}
             \/ temps' = temps \ {CheckpointTemp}
          /\ jsonl' = [p \in DOMAIN jsonl \ Uncommitted |-> jsonl[p]]
          /\ parquet' = parquet \ Uncommitted
       \/ /\ pc \in {"manifest", "publishManifest"}
          /\ \/ pc = "manifest" /\ temps' = temps \cup {ManifestTempFile}
             \/ temps' = temps \ {ManifestTempFile}
          /\ UNCHANGED <<jsonl, parquet>>
    /\ Down
    /\ UNCHANGED <<source, saved, manifest, changes>>

Step ==
    \/ SaveTemp \/ SaveRename \/ NextGraph \/ CountGraph \/ Restore \/ ReadBatch \/ Handle
    \/ HandleDangling \/ EndOfBatch \/ Publish \/ PublishSidecar \/ Commit \/ EndOfScan \/ Complete
    \/ ManifestTemp \/ ManifestRename \/ RemoveCheckpoint

Next ==
    \/ \E force \in BOOLEAN : Start(force)
    \/ Resume
    \/ \E g \in DOMAIN source, p \in Phase, id \in ID : Change(g, p, id)
    \/ Step \/ Done \/ Crash \/ Fail

Spec == Init /\ [][Next]_vars
-----------------------------------------------------------------------------

\* What the checkpoint or the manifest names is on disk with its content,
\* whatever step the process died in: neither removeKnownDumpCheckpointTemps
\* nor the clean-up after an error takes a committed shard.
CommittedOnDisk ==
    /\ saved # None => \A f \in Committed(saved) :
          /\ f.path \in DOMAIN jsonl /\ jsonl[f.path] = f.ids
          /\ Parquet => f.path \in parquet
    /\ manifest # None => \A g \in 1..Len(manifest) : \A f \in Range(manifest[g].files) :
          f.path \in DOMAIN jsonl /\ jsonl[f.path] = f.ids

\* A dump that was interrupted at any step, and not tampered with, is never
\* refused for its files: what it left is exactly what Resume removes
\* (validateDumpCheckpointFiles: "refusing to guess whether it is committed").
NeverRefused ==
    pc = "down" /\ saved # None /\ manifest = None =>
        LET left == Left(saved) IN
        Valid(saved) /\ Accepted(saved, [p \in DOMAIN jsonl \ left |-> jsonl[p]], parquet \ left,
                 temps \ ((UNION {Staged(p) : p \in left}) \cup {CheckpointTemp, ManifestTempFile}))

\* The manifest of a database that did not change has every node and every
\* relationship exactly once, in the order of their IDs, however often the dump
\* was interrupted and resumed.
ExactDump ==
    manifest # None /\ changes = 0 =>
        \A g \in DOMAIN source, p \in Phase :
            /\ Ascending(Records(manifest[g].files, p))
            /\ Range(Records(manifest[g].files, p)) = source[g][p]

\* A database whose counts changed while the dump was down is not completed
\* from the old checkpoint ("count changes are detected").
CountChangesDetected ==
    manifest # None => \A g \in DOMAIN source, p \in Phase :
        Total(manifest[g].files, p) = Cardinality(source[g][p])

Closed(g) == \A e \in source[g].edges : Range(Ends[e]) \subseteq source[g].nodes

\* A dump that has a checkpoint is completed, if the database stays as it is,
\* every relationship has its nodes, and nobody replaces the directory: no
\* interruption leads to a dump that resumes and fails for ever.
EndsInManifest ==
    saved # None ~> \/ manifest # None \/ saved = None \/ changes > 0
                    \/ \E g \in DOMAIN source : ~Closed(g)
=============================================================================
