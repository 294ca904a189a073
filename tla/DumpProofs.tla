----------------------------- MODULE DumpProofs -----------------------------
(***************************************************************************)
(* What the resumable dump commits, for every database, every size of      *)
(* shards and batches, and any number of interruptions and changes: the    *)
(* steps that publish and commit, complete graphs, resume and clean up     *)
(* keep the invariant of DumpScanProofs, and what follows from it.         *)
(***************************************************************************)
EXTENDS DumpScanProofs

-----------------------------------------------------------------------------
(* The steps that publish a shard, end a scan, a graph and the dump, and   *)
(* those of an interrupted dump.                                           *)

\* A step of the publication of a shard: the files that are committed stay.
LEMMA ShardIsNew ==
    ASSUME Counting, DumpInv, Place \in InGraph
    PROVE  \A f \in Committed(mem) : f.path # Shard
BY InGraphParts, NextPathNew DEF Shard

\* The shard is renamed to its path, at which no committed file is.
LEMMA PublishKeeps == ASSUME Counting, DumpInv, Publish PROVE DumpInv'
<1>1. /\ pc = "publish" /\ pc' = IF Parquet THEN "sidecar" ELSE "commit"
      /\ pc \in InScan /\ pc' \in InScan
      /\ UNCHANGED <<source, changes, mem, saved, manifest>> /\ UNCHANGED scan /\ parquet' = parquet
      /\ jsonl' = [p \in DOMAIN jsonl \cup {Shard} |-> IF p = Shard THEN writer ELSE jsonl[p]]
      /\ temps' = temps \ {<<"jsonl", Shard>>}
  BY DEF Publish, Goto, InScan
<1>2. /\ TypeInv' /\ SavedInv' /\ MemInv' /\ SavedRel' /\ ManifestInv'
      /\ Place = pc /\ Place' = pc' /\ ~Saving /\ ~Saving' /\ Place \in InGraph
      /\ saved = mem /\ Shard' = Shard
  BY <1>1, InScanStep, Zenon
<1>3. Seen' = Seen /\ writer' = writer /\ writer # <<>> /\ mem.current # None
  BY <1>1, <1>2, InGraphParts DEF Seen, scan, DumpInv, ScanInv
<1>4. ScanInv'
  BY <1>1, <1>2, <1>3 DEF DumpInv, ScanInv, scan, InScan
<1>5. \A f \in Committed(mem) : f.path # Shard
  BY <1>2, ShardIsNew
<1>6. DOMAIN jsonl' = DOMAIN jsonl \cup {Shard} /\ jsonl'[Shard] = writer
      /\ \A p \in DOMAIN jsonl : p # Shard => jsonl'[p] = jsonl[p]
  BY <1>1
<1>7. Published(Committed(mem), jsonl', parquet')
  <2>1. Published(Committed(mem), jsonl, parquet)
    BY <1>1 DEF DumpInv, RunDisk
  <2> QED BY <1>1, <1>5, <1>6, <2>1 DEF Published
<1>8. RunDisk'
  <2>1. /\ DOMAIN jsonl \subseteq Paths(Committed(mem)) /\ parquet \subseteq Paths(Committed(mem))
        /\ temps \subseteq TempsOf({}) \cup Staged(Shard)
    BY <1>1, <1>3 DEF DumpInv, RunDisk
  <2>2. temps' \subseteq TempsOf({}) \cup IF Parquet THEN {<<"parquet", Shard>>} ELSE {}
    BY <1>1, <2>1 DEF Staged
  <2>3. (pc' = "commit" => ~Parquet) /\ (pc' = "sidecar" => Parquet)
    BY <1>1
  <2> QED BY <1>1, <1>2, <1>3, <1>6, <1>7, <2>1, <2>2, <2>3 DEF RunDisk
<1>9. SavedDisk'
  <2>1. Left(saved) = {Shard}
    BY <1>2, <1>3 DEF Left, Shard
  <2> QED BY <1>1, <1>2, <1>6, <1>7, <2>1, ZenonT(30) DEF DumpInv, SavedDisk
<1> QED BY <1>2, <1>4, <1>8, <1>9 DEF DumpInv

\* So is its sidecar.
LEMMA PublishSidecarKeeps == ASSUME Counting, DumpInv, PublishSidecar PROVE DumpInv'
<1>1. /\ pc = "sidecar" /\ pc' = "commit" /\ pc \in InScan /\ pc' \in InScan
      /\ UNCHANGED <<source, changes, mem, saved, manifest>> /\ UNCHANGED scan /\ jsonl' = jsonl
      /\ parquet' = parquet \cup {Shard} /\ temps' = temps \ {<<"parquet", Shard>>}
  BY DEF PublishSidecar, Goto, InScan
<1>2. /\ TypeInv' /\ SavedInv' /\ MemInv' /\ SavedRel' /\ ManifestInv'
      /\ Place = pc /\ Place' = pc' /\ ~Saving /\ ~Saving' /\ Place \in InGraph
      /\ saved = mem /\ Shard' = Shard
  BY <1>1, InScanStep, Zenon
<1>3. Seen' = Seen /\ writer' = writer /\ writer # <<>> /\ mem.current # None
  BY <1>1, <1>2, InGraphParts DEF Seen, scan, DumpInv, ScanInv
<1>4. ScanInv'
  BY <1>1, <1>2, <1>3 DEF DumpInv, ScanInv, scan, InScan
<1>5. Published(Committed(mem), jsonl', parquet')
  <2>1. Published(Committed(mem), jsonl, parquet)
    BY <1>1 DEF DumpInv, RunDisk
  <2> QED BY <1>1, <2>1 DEF Published
<1>6. RunDisk'
  BY <1>1, <1>2, <1>3, <1>5 DEF DumpInv, RunDisk
<1>7. SavedDisk'
  <2>1. Left(saved) = {Shard}
    BY <1>2, <1>3 DEF Left, Shard
  <2>2. Parquet
    BY <1>1 DEF DumpInv, RunDisk
  <2> QED BY <1>1, <1>2, <1>5, <2>1, <2>2 DEF DumpInv, SavedDisk
<1> QED BY <1>2, <1>4, <1>6, <1>7 DEF DumpInv

\* The published shard enters the checkpoint in memory, which is then saved.
LEMMA CommitKeeps == ASSUME Counting, DumpInv, Commit PROVE DumpInv'
<1> DEFINE e == [path |-> NextPath(mem), ids |-> writer]
           seen == Seen
<1>1. /\ pc = "commit" /\ pc' = "save" /\ then' = "handle" /\ UNCHANGED <<source, changes>> /\ UNCHANGED disk
      /\ mem' = [mem EXCEPT !.current.files = Append(@, e), !.current.last = last]
      /\ writer' = <<>> /\ UNCHANGED <<cursor, short, last, processed, observed>>
  BY DEF Commit, Save, Shard, LastWritten
<1>2. Place = "commit" /\ Place \in InGraph /\ Place \in InScan /\ Place' = "handle" /\ Saving' /\ ~Saving
  BY <1>1 DEF Place, Saving, InGraph, InScan
<1>3. /\ pc # "down" /\ mem \in Checkpoint /\ mem.current # None /\ CheckpointInv(mem, source, changes)
      /\ mem.current.phase \in Phase /\ mem.current.count \in [Phase -> Nat] /\ mem.current.count # None
      /\ seen \in Seq(ID) /\ saved = mem
  BY <1>1, <1>2, InGraphParts DEF DumpInv, SavedRel, InGraph, InScan
<1>4. /\ writer \in Seq(ID) /\ writer # <<>> /\ cursor \in Seq(ID) /\ observed \in [Phase -> Seq(ID)]
      /\ processed = Len(seen) /\ last = CursorOf(seen) /\ Ascending(seen \o cursor)
      /\ processed + Len(cursor) <= mem.current.count[mem.current.phase]
      /\ changes = 0 => Range(seen \o cursor) \subseteq source[Len(mem.graphs) + 1][mem.current.phase]
  BY <1>1, <1>2 DEF DumpInv, ScanInv
<1>5. /\ Ascending(seen) /\ Range(seen) \subseteq Range(seen \o cursor)
  BY <1>3, <1>4, PrefixOf
<1>6. Len(seen) <= mem.current.count[mem.current.phase]
  BY <1>3, <1>4
<1>7. seen = Records(mem.current.files, mem.current.phase) \o writer
  BY DEF Seen
<1> HIDE DEF seen, e
<1>8. CheckpointInv(mem', source, changes) /\ Extends(mem', mem, e, seen)
  <2>1. e = [path |-> NextPath(mem), ids |-> writer]
    BY DEF e
  <2>2. mem' = [mem EXCEPT !.current.files = Append(@, e), !.current.last = CursorOf(seen)]
    BY <1>1, <1>4, Zenon
  <2>3. changes = 0 => Range(seen) \subseteq source[Len(mem.graphs) + 1][mem.current.phase]
    BY <1>4, <1>5
  <2>4. CheckpointInv(mem, source, changes) /\ mem.current # None /\ mem.current.count # None
    BY <1>3
  <2>5. writer \in Seq(ID) /\ writer # <<>> /\ Ascending(seen)
    BY <1>4, <1>5
  <2>6. Committing(mem', mem, e, writer, seen, source, changes)
    BY <1>6, <1>7, <2>1, <2>2, <2>3, <2>4, <2>5, Zenon DEF Committing
  <2> QED BY <2>6, CommitShard, Zenon
<1>9. /\ mem'.graphs = mem.graphs /\ mem'.current # None
      /\ mem'.current.count = mem.current.count /\ mem'.current.phase = mem.current.phase
      /\ e \in FileEntry /\ mem'.current.files # <<>> /\ Committed(mem') = Committed(mem) \cup {e}
      /\ e.path = NextPath(mem) /\ e.ids = writer
  BY <1>8 DEF Extends, e
<1>10. Seen' = seen
  <2>1. Records(mem'.current.files, mem'.current.phase) = seen
    BY <1>8 DEF Extends
  <2> HIDE DEF seen
  <2>2. Seen' = seen \o <<>>
    BY <1>1, <2>1, Zenon DEF Seen
  <2> QED BY <1>3, <2>2, ConcatEmpty
<1>11. TypeInv' /\ SavedInv' /\ SavedDisk'
  BY <1>1, <1>2 DEF DumpInv, TypeInv, SavedInv, SavedDisk, disk
<1>12. MemInv'
  <2>1. /\ \A g \in 1..Len(mem.graphs) : mem.graphs[g].count = Count(g)
        /\ mem.current.count = Count(Len(mem.graphs) + 1)
    BY <1>2, <1>3 DEF DumpInv, MemInv
  <2> QED BY <1>1, <1>2, <1>8, <1>9, <2>1 DEF MemInv, Count, AtEnd
<1>13. ScanInv'
  <2>1. <<>> \in Seq(ID)
    OBVIOUS
  <2> QED BY <1>1, <1>2, <1>4, <1>9, <1>10, <2>1 DEF ScanInv, InScan
<1>14. SavedRel'
  <2>1. mem'.current.files = Append(mem.current.files, e)
    BY <1>8 DEF Extends
  <2>2. saved' = mem
    BY <1>1, <1>3 DEF disk
  <2> HIDE DEF e
  <2> QED BY <1>1, <1>3, <1>9, <2>1, <2>2, Zenon DEF SavedRel, Saving, InGraph, InScan
<1>15. RunDisk'
  <2>1. /\ Published(Committed(mem), jsonl, parquet)
        /\ DOMAIN jsonl \subseteq Paths(Committed(mem)) \cup {Shard}
        /\ parquet \subseteq Paths(Committed(mem)) \cup {Shard}
        /\ Shard \in DOMAIN jsonl /\ jsonl[Shard] = writer
        /\ Parquet => Shard \in parquet
        /\ temps \subseteq TempsOf({})
    BY <1>1, <1>3 DEF DumpInv, RunDisk
  <2>2. Published(Committed(mem'), jsonl, parquet)
    BY <1>9, <2>1 DEF Published, Shard
  <2>3. Paths(Committed(mem')) = Paths(Committed(mem)) \cup {Shard}
    BY <1>9 DEF Paths, Shard
  <2> QED BY <1>1, <2>1, <2>2, <2>3 DEF RunDisk, disk
<1>16. ManifestInv'
  BY <1>1 DEF DumpInv, ManifestInv, disk
<1> QED BY <1>11, <1>12, <1>13, <1>14, <1>15, <1>16 DEF DumpInv

\* At the end of a scan the open shard is published, the phase switched, or the
\* graph completed.
LEMMA EndOfScanKeeps == ASSUME Counting, DumpInv, EndOfScan PROVE DumpInv'
<1>1. /\ pc = "scan" /\ UNCHANGED <<source, changes>> /\ UNCHANGED disk
      /\ processed >= mem.current.count[mem.current.phase]
  BY DEF EndOfScan, Current
<1>2. Place = "scan" /\ Place \in InGraph /\ Place \in InScan /\ ~Saving /\ pc \in InScan
  BY <1>1 DEF Place, Saving, InGraph, InScan
<1>3. /\ pc # "down" /\ mem \in Checkpoint /\ mem.current # None /\ CheckpointInv(mem, source, changes)
      /\ mem.current.phase \in Phase /\ mem.current.count \in [Phase -> Nat] /\ mem.current.count # None
      /\ mem.current.files \in Seq(FileEntry) /\ Seen \in Seq(ID) /\ saved = mem
  BY <1>1, <1>2, InGraphParts DEF DumpInv, SavedRel, InGraph, InScan
<1>4. SavedInv' /\ SavedDisk' /\ ManifestInv'
  BY <1>1 DEF DumpInv, SavedInv, SavedDisk, ManifestInv, disk
<1>5. CASE writer # <<>> /\ Goto("publish") /\ UNCHANGED <<mem, scan>>
  <2>1. /\ pc' = "publish" /\ pc' \in InScan /\ writer # <<>>
        /\ UNCHANGED <<source, changes, mem, saved, manifest>> /\ UNCHANGED <<jsonl, parquet, temps>>
        /\ UNCHANGED scan
    BY <1>1, <1>5 DEF Goto, InScan, disk
  <2>2. /\ TypeInv' /\ SavedInv' /\ MemInv' /\ SavedRel' /\ ManifestInv'
        /\ Place = pc /\ Place' = pc' /\ ~Saving /\ ~Saving' /\ Place \in InGraph
        /\ saved = mem /\ Shard' = Shard /\ Seen' = Seen
    BY <1>2, <2>1, InScanStep DEF scan
  <2>3. ScanInv'
    BY <1>1, <1>2, <2>1, <2>2 DEF DumpInv, ScanInv, scan, InScan
  <2>4. RunDisk' /\ SavedDisk'
    BY <1>1, <2>1, <2>2 DEF DumpInv, RunDisk, SavedDisk, scan
  <2> QED BY <2>2, <2>3, <2>4 DEF DumpInv
<1>6. ASSUME writer = <<>> PROVE /\ Seen = Records(mem.current.files, mem.current.phase) /\ cursor = <<>>
                                 /\ Total(mem.current.files, mem.current.phase) = mem.current.count[mem.current.phase]
  <2>1. Records(mem.current.files, mem.current.phase) \in Seq(ID) /\ Total(mem.current.files, mem.current.phase) \in Nat
    BY <1>3, RecordsType
  <2>2. Seen = Records(mem.current.files, mem.current.phase)
    BY <1>6, <2>1, ConcatEmpty DEF Seen
  <2>3. processed = Len(Seen) /\ cursor = <<>>
    BY <1>1, <1>2 DEF DumpInv, ScanInv
  <2>4. Total(mem.current.files, mem.current.phase) <= mem.current.count[mem.current.phase]
    BY <1>3, InGraphParts, <1>2 DEF CurrentInv
  <2>5. processed = Total(mem.current.files, mem.current.phase)
    BY <2>2, <2>3 DEF Total
  <2> QED BY <1>1, <1>3, <2>1, <2>2, <2>3, <2>4, <2>5
<1>7. CASE /\ writer = <<>> /\ mem.current.phase = "nodes"
           /\ mem' = [mem EXCEPT !.current.phase = "edges", !.current.last = None]
           /\ last' = None /\ processed' = 0 /\ Save("scan") /\ UNCHANGED <<writer, cursor, short, observed>>
  <2>1. pc' = "save" /\ then' = "scan" /\ Saving' /\ Place' = "scan"
    BY <1>7 DEF Save, Saving, Place
  <2>2. CheckpointInv(mem', source, changes) /\ SwitchesPhase(mem', mem)
    BY <1>3, <1>6, <1>7, SwitchPhase
  <2>3. /\ mem'.graphs = mem.graphs /\ mem'.current # None /\ mem'.current.count = mem.current.count
        /\ mem'.current.phase = "edges" /\ Committed(mem') = Committed(mem)
        /\ Records(mem'.current.files, mem'.current.phase) = <<>>
    BY <2>2 DEF SwitchesPhase
  <2>4. TypeInv'
    BY <1>1, <2>1 DEF DumpInv, TypeInv
  <2>5. MemInv'
    <3>1. /\ \A g \in 1..Len(mem.graphs) : mem.graphs[g].count = Count(g)
          /\ mem.current.count = Count(Len(mem.graphs) + 1)
      BY <1>2, <1>3 DEF DumpInv, MemInv
    <3> QED BY <1>1, <2>1, <2>2, <2>3, <3>1 DEF MemInv, Count, AtEnd
  <2>6. ScanInv'
    <3>1. Seen' = <<>>
      BY <1>7, <2>3 DEF Seen
    <3>2. /\ Ascending(<<>>) /\ Range(<<>>) = {} /\ <<>> \in Seq(ID) /\ Len(<<>>) = 0
          /\ \A s : s = <<>> => s \o s = <<>>
      BY DEF Ascending, Range
    <3>3. /\ writer' = <<>> /\ cursor' = <<>> /\ observed' = observed /\ observed \in [Phase -> Seq(ID)]
      BY <1>6, <1>7 DEF DumpInv, ScanInv
    <3>4. Seen' \o cursor' = <<>>
      BY <3>1, <3>2, <3>3
    <3>5. mem'.current.count[mem'.current.phase] \in Nat
      BY <1>3, <2>3 DEF Phase
    <3> QED BY <1>7, <2>1, <3>1, <3>2, <3>3, <3>4, <3>5 DEF ScanInv, CursorOf
  <2>7. SavedRel'
    BY <1>1, <1>3, <2>1, <2>3 DEF SavedRel, Saving, InGraph, InScan, disk
  <2>8. RunDisk'
    BY <1>1, <1>7, <2>1, <2>3 DEF DumpInv, RunDisk, disk
  <2> QED BY <1>4, <2>4, <2>5, <2>6, <2>7, <2>8 DEF DumpInv
<1>8. CASE writer = <<>> /\ mem.current.phase = "edges" /\ Goto("complete") /\ UNCHANGED <<mem, scan>>
  <2>1. pc' = "complete" /\ ~Saving' /\ Place' = "complete" /\ mem' = mem /\ UNCHANGED scan
    BY <1>8 DEF Goto, Saving, Place
  <2>2. TypeInv' /\ SavedRel'
    BY <1>1, <1>3, <2>1 DEF DumpInv, TypeInv, SavedRel, disk, InGraph, InScan, Saving
  <2>3. MemInv'
    <3>1. /\ CheckpointInv(mem, source, changes) /\ \A g \in 1..Len(mem.graphs) : mem.graphs[g].count = Count(g)
          /\ mem.current # None /\ mem.current.count = Count(Len(mem.graphs) + 1)
      BY <1>1, <1>2 DEF DumpInv, MemInv
    <3>2. \A g : Count(g)' = Count(g)
      BY <1>1 DEF Count
    <3>3. "complete" \notin AtEnd \cup {"count"}
      BY DEF AtEnd
    <3> QED BY <1>1, <2>1, <3>1, <3>2, <3>3 DEF MemInv
  <2>4. ScanInv'
    BY <1>6, <1>8, <2>1 DEF DumpInv, ScanInv, scan, InScan
  <2>5. RunDisk'
    BY <1>1, <1>8, <2>1 DEF DumpInv, RunDisk, disk
  <2> QED BY <1>4, <2>2, <2>3, <2>4, <2>5 DEF DumpInv
<1> QED BY <1>5, <1>7, <1>8 DEF EndOfScan, Current

\* A graph whose files have as many records as were counted is complete.
LEMMA CompleteKeeps == ASSUME Counting, DumpInv, Complete PROVE DumpInv'
<1>1. pc = "complete" /\ UNCHANGED <<source, changes>> /\ UNCHANGED disk
  BY DEF Complete
<1>2. Place = "complete" /\ Place \in InGraph /\ ~Saving
  BY <1>1 DEF Place, Saving, InGraph
<1>3. SavedInv' /\ SavedDisk' /\ ManifestInv'
  BY <1>1 DEF DumpInv, SavedInv, SavedDisk, ManifestInv, disk
<1>4. CASE Down
  BY <1>1, <1>3, <1>4, GoesDown DEF disk
<1>5. CASE /\ \A p \in Phase : Total(mem.current.files, p) = mem.current.count[p]
           /\ mem' = [graphs |-> Append(mem.graphs, [count |-> mem.current.count, files |-> mem.current.files,
                                                     metrics |-> observed]),
                      current |-> None]
           /\ Save("graph") /\ UNCHANGED scan
  <2>1. pc' = "save" /\ then' = "graph" /\ Saving' /\ Place' = "graph" /\ UNCHANGED scan
    BY <1>5 DEF Save, Saving, Place
  <2>2. /\ mem.current # None /\ CheckpointInv(mem, source, changes) /\ mem.current.count # None
        /\ Len(mem.graphs) \in Nat /\ Len(source) \in Nat /\ saved = mem /\ pc # "down"
    BY <1>1, <1>2, InGraphParts DEF DumpInv, TypeInv, SavedRel, InGraph
  <2>3. observed \in [Phase -> Seq(ID)] /\ writer = <<>> /\ cursor = <<>>
    BY <1>2 DEF DumpInv, ScanInv, InScan
  <2>4. CheckpointInv(mem', source, changes) /\ Completes(mem', mem)
    BY <1>5, <2>2, <2>3, CompleteGraph, ZenonT(30)
  <2>5. TypeInv'
    BY <1>1, <2>1 DEF DumpInv, TypeInv
  <2>6. MemInv'
    <3>1. /\ \A g \in 1..Len(mem.graphs) : mem.graphs[g].count = Count(g)
          /\ mem.current.count = Count(Len(mem.graphs) + 1)
      BY <1>1, <1>2, <2>2 DEF DumpInv, MemInv
    <3>2. \A g \in 1..(Len(mem.graphs) + 1) : g \in 1..Len(mem.graphs) \/ g = Len(mem.graphs) + 1
      <4>1. Len(mem.graphs) \in Nat
        BY <2>2
      <4> QED BY <4>1
    <3>3. \A g \in 1..Len(mem'.graphs) : mem'.graphs[g].count = Count(g)'
      BY <1>1, <2>4, <3>1, <3>2 DEF Completes, Count
    <3> QED BY <1>1, <2>1, <2>4, <3>3 DEF MemInv, Completes, InGraph, InScan, AtEnd
  <2>7. ScanInv'
    BY <2>1, <2>3 DEF DumpInv, ScanInv, scan, InScan
  <2>8. SavedRel'
    BY <1>1, <2>1, <2>2, <2>4 DEF SavedRel, Saving, InGraph, InScan, disk, Completes
  <2>9. RunDisk'
    BY <1>1, <2>1, <2>2, <2>4 DEF DumpInv, RunDisk, disk, Completes
  <2> QED BY <1>3, <2>5, <2>6, <2>7, <2>8, <2>9 DEF DumpInv
<1> QED BY <1>4, <1>5 DEF Complete, Current

\* The manifest is written to its temporary file.
LEMMA ManifestTempKeeps == ASSUME DumpInv, ManifestTemp PROVE DumpInv'
<1>1. /\ pc = "manifest" /\ pc' = "publishManifest" /\ temps' = temps \cup {ManifestTempFile}
      /\ UNCHANGED <<source, saved, manifest, jsonl, parquet, mem, changes>> /\ UNCHANGED scan
  BY DEF ManifestTemp, Goto
<1>2. ~Saving /\ ~Saving' /\ Place = pc /\ Place' = pc'
  BY <1>1 DEF Saving, Place
<1>3. TypeInv' /\ SavedInv'
  BY <1>1, <1>2 DEF DumpInv, TypeInv, SavedInv, AtEnd
<1>4. MemInv'
  BY <1>1, <1>2 DEF DumpInv, MemInv, Count, InGraph, InScan, AtEnd
<1>5. ScanInv'
  BY <1>1, <1>2 DEF DumpInv, ScanInv, scan, InScan
<1>6. SavedRel'
  BY <1>1, <1>2 DEF DumpInv, SavedRel, InGraph, InScan
<1>7. RunDisk' /\ SavedDisk'
  BY <1>1 DEF DumpInv, RunDisk, SavedDisk, TempsOf
<1>8. ManifestInv'
  BY <1>1 DEF DumpInv, ManifestInv
<1> QED BY <1>3, <1>4, <1>5, <1>6, <1>7, <1>8 DEF DumpInv

\* The manifest is published: every graph is complete.
LEMMA ManifestRenameKeeps == ASSUME DumpInv, ManifestRename PROVE DumpInv'
<1>1. /\ pc = "publishManifest" /\ pc' = "removeCheckpoint" /\ temps' = temps \ {ManifestTempFile}
      /\ manifest' = mem.graphs
      /\ UNCHANGED <<source, saved, jsonl, parquet, mem, changes>> /\ UNCHANGED scan
  BY DEF ManifestRename, Goto
<1>2. ~Saving /\ ~Saving' /\ Place = pc /\ Place' = pc'
  BY <1>1 DEF Saving, Place
<1>3. TypeInv' /\ SavedInv'
  BY <1>1, <1>2 DEF DumpInv, TypeInv, SavedInv, AtEnd
<1>4. MemInv'
  BY <1>1, <1>2 DEF DumpInv, MemInv, Count, InGraph, InScan, AtEnd
<1>5. ScanInv'
  BY <1>1, <1>2 DEF DumpInv, ScanInv, scan, InScan
<1>6. SavedRel'
  BY <1>1, <1>2 DEF DumpInv, SavedRel, InGraph, InScan
<1>7. RunDisk' /\ SavedDisk'
  BY <1>1 DEF DumpInv, RunDisk, SavedDisk
<1>8. ManifestInv'
  <2>1. /\ CheckpointInv(mem, source, changes) /\ Len(mem.graphs) = Len(source) /\ mem.current = None
        /\ \A g \in 1..Len(mem.graphs) : mem.graphs[g].count = Count(g)
        /\ Published(Committed(mem), jsonl, parquet)
    BY <1>1, <1>2 DEF DumpInv, MemInv, RunDisk, AtEnd
  <2>2. Completed' = mem
    BY <1>1, <2>1 DEF Completed, CheckpointInv, Checkpoint
  <2> QED BY <1>1, <2>1, <2>2 DEF ManifestInv, Count
<1> QED BY <1>3, <1>4, <1>5, <1>6, <1>7, <1>8 DEF DumpInv

\* The checkpoint is removed once the manifest is there.
LEMMA RemoveCheckpointKeeps == ASSUME DumpInv, RemoveCheckpoint PROVE DumpInv'
<1>1. /\ pc = "removeCheckpoint" /\ pc' = "done" /\ saved' \in {None, saved}
      /\ UNCHANGED <<source, manifest, jsonl, parquet, temps, mem, changes>> /\ UNCHANGED scan
  BY DEF RemoveCheckpoint, Goto
<1>2. ~Saving /\ ~Saving' /\ Place = pc /\ Place' = pc'
  BY <1>1 DEF Saving, Place
<1>3. TypeInv' /\ SavedInv'
  BY <1>1, <1>2 DEF DumpInv, TypeInv, SavedInv, AtEnd
<1>4. MemInv'
  BY <1>1, <1>2 DEF DumpInv, MemInv, Count, InGraph, InScan, AtEnd
<1>5. ScanInv'
  BY <1>1, <1>2 DEF DumpInv, ScanInv, scan, InScan
<1>6. SavedRel'
  BY <1>1, <1>2 DEF DumpInv, SavedRel, InGraph, InScan
<1>7. RunDisk' /\ SavedDisk'
  BY <1>1 DEF DumpInv, RunDisk, SavedDisk
<1>8. ManifestInv'
  BY <1>1 DEF DumpInv, ManifestInv, Completed, Count
<1> QED BY <1>3, <1>4, <1>5, <1>6, <1>7, <1>8 DEF DumpInv

\* A dump begins anew in a directory that is empty or is emptied.
LEMMA StartKeeps == ASSUME DumpInv, NEW force, Start(force) PROVE DumpInv'
<1>1. /\ pc = "down" /\ saved' = None /\ manifest' = None /\ jsonl' = <<>> /\ parquet' = {} /\ temps' = {}
      /\ mem' = NoCheckpoint /\ pc' = "save" /\ then' = "graph" /\ UNCHANGED <<source, changes>> /\ UNCHANGED scan
  BY DEF Start, Save
<1>2. ~Saving /\ Saving' /\ Place = "down" /\ Place' = "graph"
  BY <1>1 DEF Saving, Place
<1>3. CheckpointInv(mem', source', changes') /\ Committed(mem') = {} /\ mem'.current = None /\ Len(mem'.graphs) = 0
  <2>1. Len(source) \in Nat
    BY DEF DumpInv, TypeInv
  <2> QED BY <1>1, <2>1, NothingCommitted DEF NoCheckpoint
<1>4. TypeInv' /\ SavedInv' /\ SavedDisk' /\ ManifestInv'
  BY <1>1, <1>2 DEF DumpInv, TypeInv, SavedInv, SavedDisk, ManifestInv
<1>5. MemInv'
  <2>1. \A g \in 1..Len(mem'.graphs) : FALSE
    BY <1>3
  <2>2. "graph" \notin InGraph \cup AtEnd \cup {"count"}
    BY DEF InGraph, InScan, AtEnd
  <2> QED BY <1>2, <1>3, <2>1, <2>2 DEF MemInv
<1>6. ScanInv'
  BY <1>1, <1>2 DEF DumpInv, ScanInv, scan, InScan
<1>7. SavedRel'
  BY <1>1, <1>2 DEF SavedRel, InGraph, InScan, Saving
<1>8. RunDisk'
  BY <1>1, <1>3 DEF RunDisk, Published
<1> QED BY <1>4, <1>5, <1>6, <1>7, <1>8 DEF DumpInv

\* Files that no checkpoint names may be removed.
LEMMA RemovalKeeps ==
    ASSUME DumpInv, saved' = saved, NEW gone, saved # None => \A f \in Committed(saved) : f.path \notin gone,
           jsonl' = [p \in DOMAIN jsonl \ gone |-> jsonl[p]], parquet' = parquet \/ parquet' = parquet \ gone,
           temps' \subseteq temps \cup TempsOf({})
    PROVE  SavedDisk'
<1>1. ~Parquet => parquet' = {}
  BY DEF DumpInv, SavedDisk
<1>2. ASSUME saved # None
      PROVE  /\ Published(Committed(saved), jsonl', parquet')
             /\ DOMAIN jsonl' \subseteq Paths(Committed(saved)) \cup Left(saved)
             /\ parquet' \subseteq Paths(Committed(saved)) \cup Left(saved)
             /\ temps' \subseteq TempsOf(Left(saved))
  <2>1. /\ Published(Committed(saved), jsonl, parquet)
        /\ DOMAIN jsonl \subseteq Paths(Committed(saved)) \cup Left(saved)
        /\ parquet \subseteq Paths(Committed(saved)) \cup Left(saved)
        /\ temps \subseteq TempsOf(Left(saved))
    BY <1>2 DEF DumpInv, SavedDisk
  <2>2. DOMAIN jsonl' = DOMAIN jsonl \ gone /\ \A p \in DOMAIN jsonl \ gone : jsonl'[p] = jsonl[p]
    OBVIOUS
  <2>3. Published(Committed(saved), jsonl', parquet')
    BY <1>2, <2>1, <2>2 DEF Published
  <2>4. TempsOf({}) \subseteq TempsOf(Left(saved))
    BY DEF TempsOf
  <2> QED BY <2>1, <2>2, <2>3, <2>4
<1> QED BY <1>1, <1>2 DEF SavedDisk

\* What a resumed dump removes is not committed.
LEMMA LeftIsNew ==
    ASSUME Counting, DumpInv, saved # None
    PROVE  \A f \in Committed(saved) : f.path \notin Left(saved)
BY NextPathNew DEF DumpInv, SavedInv, Left

\* A resumed dump removes what was not committed and goes on from the checkpoint.
LEMMA ResumeKeeps == ASSUME Counting, DumpInv, Resume PROVE DumpInv'
<1> DEFINE gone == Left(saved)
<1>1. /\ pc = "down" /\ manifest = None /\ saved # None
      /\ jsonl' = [p \in DOMAIN jsonl \ gone |-> jsonl[p]] /\ parquet' = parquet \ gone
      /\ UNCHANGED <<source, saved, manifest, changes>> /\ UNCHANGED scan
  BY DEF Resume
<1>2. temps' \subseteq temps
  BY DEF Resume
<1>3. SavedDisk'
  <2> HIDE DEF gone
  <2>1. \A f \in Committed(saved) : f.path \notin gone
    BY <1>1, LeftIsNew DEF gone
  <2> QED BY <1>1, <1>2, <2>1, RemovalKeeps
<1>4. SavedInv' /\ ManifestInv'
  BY <1>1 DEF DumpInv, SavedInv, ManifestInv
<1>5. ~Saving /\ Place = "down" /\ writer = <<>> /\ cursor = <<>>
  BY <1>1 DEF Saving, Place, DumpInv, ScanInv, InScan
<1>6. CASE UNCHANGED <<mem, pc, then>>
  <2>1. TypeInv' /\ MemInv' /\ SavedRel' /\ RunDisk'
    BY <1>1, <1>6 DEF DumpInv, TypeInv, MemInv, SavedRel, RunDisk, Saving, InGraph, InScan
  <2>2. ScanInv'
    BY <1>1, <1>5, <1>6 DEF DumpInv, ScanInv, scan, InScan, Place, Saving
  <2> QED BY <1>3, <1>4, <2>1, <2>2 DEF DumpInv
<1>7. CASE Accepted(saved, jsonl', parquet', temps') /\ SameCompleted /\ mem' = saved /\ Goto("graph")
  <2>1. pc' = "graph" /\ mem' = saved /\ Place' = "graph" /\ ~Saving'
    BY <1>7 DEF Goto, Place, Saving
  <2>2. TypeInv' /\ SavedRel'
    BY <1>1, <2>1 DEF DumpInv, TypeInv, SavedRel, Saving, InGraph, InScan
  <2>3. MemInv'
    <3>1. CheckpointInv(saved, source, changes)
      BY <1>1 DEF DumpInv, SavedInv
    <3>2. \A g \in 1..Len(saved.graphs) : saved.graphs[g].count = Count(g)
      BY <1>7 DEF SameCompleted
    <3> QED BY <1>1, <2>1, <3>1, <3>2 DEF MemInv, Count, InGraph, InScan, AtEnd
  <2>4. ScanInv'
    BY <1>1, <1>5, <2>1 DEF DumpInv, ScanInv, scan, InScan
  <2>5. RunDisk'
    <3>1. Published(Committed(saved), jsonl', parquet')
      BY <1>1, <1>3 DEF SavedDisk
    <3>2. DOMAIN jsonl' = Paths(Committed(saved)) /\ parquet' \subseteq DOMAIN jsonl' /\ temps' = {}
      BY <1>7 DEF Accepted, Paths
    <3> QED BY <2>1, <3>1, <3>2 DEF RunDisk
  <2> QED BY <1>3, <1>4, <2>2, <2>3, <2>4, <2>5 DEF DumpInv
<1> QED BY <1>6, <1>7 DEF Resume

\* The database changes while the dump is down.
LEMMA ChangeKeeps ==
    ASSUME DumpInv, NEW g \in DOMAIN source, NEW p \in Phase, NEW id \in ID, Change(g, p, id)
    PROVE  DumpInv'
<1> DEFINE was == source[g]
           now == IF id \notin was[p] THEN [was EXCEPT ![p] = @ \cup {id}]
                  ELSE IF p = "edges" THEN [was EXCEPT !.edges = @ \ {id}]
                  ELSE [nodes |-> was.nodes \ {id}, edges |-> {e \in was.edges : id \notin Range(Ends[e])}]
<1>1. /\ pc = "down" /\ manifest = None /\ changes' = changes + 1
      /\ UNCHANGED disk /\ UNCHANGED <<pc, mem, then>> /\ UNCHANGED scan
  BY DEF Change
<1>2. source' = [source EXCEPT ![g] = now]
  BY DEF Change
<1>3. source \in Seq([Phase -> SUBSET ID]) /\ changes \in Nat
  BY DEF DumpInv, TypeInv
<1>4. was \in [Phase -> SUBSET ID] /\ DOMAIN source = 1..Len(source) /\ Len(source) \in Nat
  BY <1>3
<1>5. now \in [Phase -> SUBSET ID]
  <2> HIDE DEF was
  <2>1. [was EXCEPT ![p] = @ \cup {id}] \in [Phase -> SUBSET ID]
    BY <1>4
  <2>2. [was EXCEPT !.edges = @ \ {id}] \in [Phase -> SUBSET ID]
    BY <1>4 DEF Phase
  <2>3. [nodes |-> was.nodes \ {id}, edges |-> {e \in was.edges : id \notin Range(Ends[e])}] \in [Phase -> SUBSET ID]
    <3> DEFINE E == {e \in was.edges : id \notin Range(Ends[e])}
               N == was.nodes \ {id}
    <3>1. N \subseteq ID /\ E \subseteq ID
      BY <1>4 DEF Phase
    <3> HIDE DEF E, N
    <3>2. [nodes |-> N, edges |-> E] \in [Phase -> SUBSET ID]
      BY <3>1 DEF Phase
    <3> QED BY <3>2 DEF E, N
  <2> QED BY <2>1, <2>2, <2>3
<1> HIDE DEF was, now
<1>6. source' \in Seq([Phase -> SUBSET ID]) /\ Len(source') = Len(source)
  BY <1>2, <1>3, <1>4, <1>5
<1>7. changes' \in Nat /\ changes' # 0
  BY <1>1, <1>3
<1>8. TypeInv' /\ SavedDisk' /\ MemInv' /\ SavedRel' /\ RunDisk' /\ ManifestInv'
  BY <1>1, <1>6, <1>7 DEF DumpInv, TypeInv, SavedDisk, MemInv, SavedRel, RunDisk, ManifestInv, Saving, disk, InGraph, InScan
<1>9. ScanInv'
  BY <1>1 DEF DumpInv, ScanInv, scan, Place, Saving, InScan
<1>10. SavedInv'
  BY <1>1, <1>6, <1>7 DEF DumpInv, SavedInv, CheckpointInv, GraphInv, CurrentInv, RecordsInv, disk
<1> QED BY <1>8, <1>9, <1>10 DEF DumpInv

\* An operation fails: the files of the open shard are removed, committed ones are not.
LEMMA FailKeeps == ASSUME Counting, DumpInv, Fail PROVE DumpInv'
<1>1. Down /\ UNCHANGED <<source, saved, manifest, changes>>
  BY DEF Fail
<1>2. manifest = None
  BY DEF Fail, DumpInv, ManifestInv
<1>3. CASE pc \in {"count", "restore"}
  <2>1. /\ jsonl' = [p \in DOMAIN jsonl \ {} |-> jsonl[p]] /\ parquet' = parquet /\ temps' \subseteq temps \cup TempsOf({})
    BY <1>3 DEF Fail
  <2>2. SavedDisk'
    BY <1>1, <2>1, RemovalKeeps
  <2> QED BY <1>1, <1>2, <2>2, GoesDown
<1>4. CASE pc \in {"scan", "handle", "publish", "sidecar"}
  <2>1. /\ jsonl' = [p \in DOMAIN jsonl \ {Shard} |-> jsonl[p]] /\ parquet' = parquet /\ temps' \subseteq temps \cup TempsOf({})
    BY <1>4 DEF Fail
  <2>2. saved = mem /\ Place \in InGraph
    BY <1>4 DEF DumpInv, SavedRel, Place, Saving, InGraph, InScan
  <2>3. \A f \in Committed(saved) : f.path \notin {Shard}
    BY <2>2, ShardIsNew
  <2>4. SavedDisk'
    BY <1>1, <2>1, <2>3, RemovalKeeps, ZenonT(30)
  <2> QED BY <1>1, <1>2, <2>4, GoesDown
<1>5. CASE pc \in {"save", "rename"}
  <2>1. /\ jsonl' = [p \in DOMAIN jsonl \ Uncommitted |-> jsonl[p]] /\ parquet' = parquet \ Uncommitted
        /\ temps' \subseteq temps \cup TempsOf({})
    BY <1>5 DEF Fail, TempsOf
  <2>2. saved # None => \A f \in Committed(saved) : f.path \notin Uncommitted
    <3>1. CASE then # "handle"
      BY <3>1 DEF Uncommitted
    <3>2. CASE then = "handle" /\ saved # None
      <4>1. PICK e \in FileEntry : e.path = NextPath(saved) /\ mem.current.files = Append(saved.current.files, e)
        BY <1>5, <3>2 DEF DumpInv, SavedRel, Saving
      <4>2. saved.current # None /\ CheckpointInv(saved, source, changes)
        BY <1>5, <3>2 DEF DumpInv, SavedRel, Saving, SavedInv
      <4>3. saved.current.files \in Seq(FileEntry)
        BY <4>2, CheckpointParts DEF CheckpointInv
      <4>4. mem.current.files[Len(mem.current.files)] = e
        BY <4>1, <4>3, AppendFacts
      <4>5. Uncommitted = {NextPath(saved)}
        BY <3>2, <4>1, <4>4 DEF Uncommitted, Current
      <4> QED BY <4>2, <4>5, NextPathNew
    <3> QED BY <3>1, <3>2
  <2>3. SavedDisk'
    BY <1>1, <2>1, <2>2, RemovalKeeps
  <2> QED BY <1>1, <1>2, <2>3, GoesDown
<1>6. CASE pc \in {"manifest", "publishManifest"}
  <2>1. jsonl' = jsonl /\ parquet' = parquet /\ temps' \subseteq temps \cup TempsOf({})
    BY <1>6 DEF Fail, TempsOf
  <2>2. SavedDisk'
    BY <1>1, <2>1 DEF DumpInv, SavedDisk, TempsOf
  <2> QED BY <1>1, <1>2, <2>2, GoesDown
<1> QED BY <1>3, <1>4, <1>5, <1>6 DEF Fail

-----------------------------------------------------------------------------
(* The whole.                                                              *)

\* Before the first dump there is nothing.
LEMMA InitKeeps == ASSUME Init PROVE DumpInv
<1> USE DEF Init
<1>1. TypeInv
  BY DumpAssumption DEF TypeInv, Saving
<1>2. SavedInv /\ MemInv /\ SavedRel /\ RunDisk /\ SavedDisk /\ ManifestInv
  BY DEF SavedInv, MemInv, SavedRel, RunDisk, SavedDisk, ManifestInv, Saving, InGraph, InScan
<1>3. ScanInv
  <2>1. <<>> \in Seq(ID)
    OBVIOUS
  <2>2. Unobserved \in [Phase -> Seq(ID)]
    BY <2>1, Zenon DEF Unobserved
  <2> QED BY <2>1, <2>2 DEF ScanInv, Place, Saving, InScan
<1> QED BY <1>1, <1>2, <1>3 DEF DumpInv

\* Nothing happens.
LEMMA StutterKeeps == ASSUME DumpInv, UNCHANGED vars PROVE DumpInv'
<1>1. /\ UNCHANGED <<source, saved, manifest, jsonl, parquet, temps, pc, mem, then, changes>> /\ UNCHANGED scan
  BY DEF vars, disk
<1>2. TypeInv' /\ SavedInv'
  BY <1>1 DEF DumpInv, TypeInv, SavedInv, Saving
<1>3. MemInv' /\ SavedRel'
  BY <1>1 DEF DumpInv, MemInv, SavedRel, Saving, Place, Count
<1>4. ScanInv' /\ RunDisk' /\ SavedDisk' /\ ManifestInv'
  BY <1>1 DEF DumpInv, ScanInv, scan, Seen, RunDisk, SavedDisk, ManifestInv, Saving, Place, Shard, Completed, Count
<1> QED BY <1>2, <1>3, <1>4 DEF DumpInv

\* Each step of a running dump keeps the invariant.
LEMMA StepKeeps == ASSUME Counting, DumpInv, Step PROVE DumpInv'
BY SaveTempKeeps, SaveRenameKeeps, NextGraphKeeps, CountGraphKeeps, RestoreKeeps, ReadBatchKeeps, HandleKeeps,
   HandleDanglingKeeps, EndOfBatchKeeps, PublishKeeps, PublishSidecarKeeps, CommitKeeps, EndOfScanKeeps,
   CompleteKeeps, ManifestTempKeeps, ManifestRenameKeeps, RemoveCheckpointKeeps, Zenon DEF Step

-----------------------------------------------------------------------------
(* The facts about numbers and finite sets, from the library's theorems.   *)
INSTANCE FiniteSetTheorems

\* The facts the lemmas assume hold.
LEMMA CountingHolds == Counting
<1>1. ASSUME NEW n \in Nat, NEW T \in SUBSET (0..n), T # {}
      PROVE  \E x \in T : \A y \in T : x <= y
  <2> DEFINE W == {0..x : x \in T}
  <2>1. W \subseteq SUBSET (0..n) /\ W # {}
    <3>1. \A x \in T : 0..x \in SUBSET (0..n)
      OBVIOUS
    <3> QED BY <1>1, <3>1, ZenonT(30)
  <2>2. IsWellFoundedOn(StrictSubsetOrdering(0..n), SUBSET (0..n))
    <3>1. IsFiniteSet(0..n)
      BY FS_Interval
    <3> QED BY <3>1, FS_FiniteSubsetsOfFinite, FS_StrictSubsetOrderingWellFounded, ZenonT(30)
  <2> HIDE DEF W
  <2>3. PICK w \in W : \A v \in W : ~(<<v, w>> \in StrictSubsetOrdering(0..n))
    BY <2>1, <2>2, WFMin, ZenonT(30)
  <2>4. PICK x \in T : w = 0..x
    BY <2>3 DEF W
  <2>5. ASSUME NEW y \in T, y < x
        PROVE  FALSE
    <3>1. 0..y \in W
      BY DEF W
    <3>2. /\ 0..y \subseteq 0..x
          /\ x \in 0..x
          /\ x \notin 0..y
      BY <2>5
    <3>3. <<0..y, w>> \in StrictSubsetOrdering(0..n)
      BY <2>1, <2>4, <3>1, <3>2 DEF StrictSubsetOrdering
    <3> QED BY <2>3, <3>1, <3>3
  <2> QED BY <2>5
<1>2. \A S \in SUBSET ID : Cardinality(S) \in Nat
  <2> SUFFICES ASSUME NEW S \in SUBSET ID PROVE Cardinality(S) \in Nat
    OBVIOUS
  <2> QED BY DumpAssumption, FS_Subset, FS_CardinalityType, ZenonT(30)
<1> QED BY <1>1, <1>2, ZenonT(30) DEF Counting

\* The invariant holds in every state of the dump, whatever it is interrupted by.
THEOREM DumpInvariant == Spec => []DumpInv
<1>1. Init => DumpInv
  BY InitKeeps
<1>2. DumpInv /\ [Next]_vars => DumpInv'
  <2> SUFFICES ASSUME DumpInv, [Next]_vars PROVE DumpInv'
    OBVIOUS
  <2>1. CASE \E force \in BOOLEAN : Start(force)
    BY <2>1, StartKeeps
  <2>2. CASE \E g \in DOMAIN source, p \in Phase, id \in ID : Change(g, p, id)
    BY <2>2, ChangeKeeps
  <2>3. CASE Done \/ UNCHANGED vars
    BY <2>3, StutterKeeps DEF Done
  <2>4. CASE Resume \/ Step \/ Crash \/ Fail
    BY <2>4, CountingHolds, ResumeKeeps, StepKeeps, CrashKeeps, FailKeeps
  <2> QED BY <2>1, <2>2, <2>3, <2>4 DEF Next
<1> QED BY <1>1, <1>2, PTL DEF Spec

\* Neither the removal of what a dump left nor the clean-up after an error takes
\* a shard that the checkpoint or the manifest names
\* (removeKnownDumpCheckpointTemps, removePublishedFragmentOutputs).
THEOREM CommittedStaysOnDisk == Spec => []CommittedOnDisk
<1>1. DumpInv => CommittedOnDisk
  <2> SUFFICES ASSUME DumpInv PROVE CommittedOnDisk
    OBVIOUS
  <2>1. saved # None => Published(Committed(saved), jsonl, parquet)
    BY DEF DumpInv, SavedDisk
  <2>2. ASSUME manifest # None, NEW g \in 1..Len(manifest), NEW f \in Range(manifest[g].files)
        PROVE  f.path \in DOMAIN jsonl /\ jsonl[f.path] = f.ids
    <3>1. Published(Committed(Completed), jsonl, parquet) /\ Completed \in Checkpoint
      BY <2>2 DEF DumpInv, ManifestInv, CheckpointInv
    <3>2. Completed.graphs = manifest
      BY DEF Completed
    <3>3. f \in Committed(Completed)
      BY <2>2, <3>1, <3>2, CheckpointParts, CommittedFiles
    <3> QED BY <3>1, <3>3 DEF Published
  <2> QED BY <2>1, <2>2 DEF CommittedOnDisk, Published
<1> QED BY <1>1, DumpInvariant, PTL

\* An interrupted dump is resumed: its checkpoint is valid
\* (validateDumpCheckpoint), and after the removal of what may have been left
\* its files are exactly those on disk (validateDumpCheckpointFiles).
THEOREM ResumeIsAccepted == Spec => []NeverRefused
<1>1. DumpInv => NeverRefused
  <2> SUFFICES ASSUME DumpInv, pc = "down", saved # None, manifest = None
               PROVE  Valid(saved) /\
                      Accepted(saved, [p \in DOMAIN jsonl \ Left(saved) |-> jsonl[p]], parquet \ Left(saved),
                               temps \ TempsOf(Left(saved)))
    BY DEF NeverRefused, TempsOf
  <2>1. CheckpointInv(saved, source, changes) /\ (saved.current # None => saved.current.count # None)
    BY DEF DumpInv, SavedInv
  <2>2. Valid(saved)
    <3>1. Len(saved.graphs) <= Len(source) /\ \A g \in 1..Len(saved.graphs) : Numbered(g, saved.graphs[g].files)
      BY <2>1 DEF CheckpointInv, GraphInv, FilesInv
    <3>2. ASSUME saved.current # None
          PROVE  LET c == saved.current IN
                 /\ Len(saved.graphs) < Len(source) /\ c.count # None
                 /\ \A i \in 1..Len(c.files) : c.files[i].ids # <<>>
                 /\ c.files = PhaseFiles(c.files, "nodes") \o PhaseFiles(c.files, "edges")
                 /\ \A p \in Phase : Total(c.files, p) <= c.count[p]
                 /\ Numbered(Len(saved.graphs) + 1, c.files)
                 /\ c.phase = "edges" => Total(c.files, "nodes") = c.count.nodes
                 /\ (Total(c.files, c.phase) > 0) = (c.last # None)
      <4> DEFINE c == saved.current
      <4>1. Len(saved.graphs) < Len(source) /\ c.count # None /\ CurrentInv(Len(saved.graphs) + 1, c, source, changes)
        BY <2>1, <3>2 DEF CheckpointInv
      <4>2. c.files \in Seq(FileEntry) /\ c.phase \in Phase
        BY <2>1, <3>2, CheckpointParts DEF CheckpointInv
      <4> DEFINE ids == Records(c.files, c.phase)
      <4>3. ids \in Seq(ID) /\ c.last = CursorOf(ids)
        BY <4>1, <4>2, CountingHolds, RecordsType DEF CurrentInv
      <4> HIDE DEF c, ids
      <4>4. (Len(ids) > 0) = (CursorOf(ids) # None)
        <5>1. CASE ids = <<>>
          BY <5>1 DEF CursorOf
        <5>2. CASE ids # <<>>
          <6>1. Len(ids) > 0 /\ ids[Len(ids)] \in ID
            BY <4>3, <5>2
          <6>2. None \notin ID
            BY DumpAssumption, ZenonT(30)
          <6> QED BY <5>2, <6>1, <6>2 DEF CursorOf
        <5> QED BY <5>1, <5>2
      <4>5. (Total(c.files, c.phase) > 0) = (c.last # None)
        BY <4>3, <4>4 DEF Total, ids
      <4> QED BY <4>1, <4>5 DEF CurrentInv, FilesInv, c
    <3> QED BY <3>1, <3>2, Zenon DEF Valid
  <2> DEFINE gone == Left(saved)
             kept == [p \in DOMAIN jsonl \ gone |-> jsonl[p]]
  <2>3. /\ Published(Committed(saved), jsonl, parquet) /\ (~Parquet => parquet = {})
        /\ DOMAIN jsonl \subseteq Paths(Committed(saved)) \cup gone
        /\ parquet \subseteq Paths(Committed(saved)) \cup gone
        /\ temps \subseteq TempsOf(gone)
    BY DEF DumpInv, SavedDisk
  <2>4. \A f \in Committed(saved) : f.path \notin gone
    BY CountingHolds, LeftIsNew
  <2>5. DOMAIN kept = DOMAIN jsonl \ gone /\ \A p \in DOMAIN jsonl \ gone : kept[p] = jsonl[p]
    OBVIOUS
  <2> HIDE DEF gone, kept
  <2>6. DOMAIN kept = Paths(Committed(saved)) /\ \A f \in Committed(saved) : kept[f.path] = f.ids
    BY <2>3, <2>4, <2>5 DEF Published, Paths
  <2>7. parquet \ gone = IF Parquet THEN DOMAIN kept ELSE {}
    BY <2>3, <2>4, <2>6 DEF Published, Paths
  <2>8. Accepted(saved, kept, parquet \ gone, temps \ TempsOf(gone))
    BY <2>3, <2>6, <2>7 DEF Accepted, Paths
  <2> QED BY <2>2, <2>8 DEF gone, kept
<1> QED BY <1>1, DumpInvariant, PTL

\* What the manifest says of a graph.
LEMMA ManifestGraph ==
    ASSUME Counting, DumpInv, manifest # None, NEW g \in DOMAIN source, NEW p \in Phase
    PROVE  /\ Total(manifest[g].files, p) = Cardinality(source[g][p])
           /\ Records(manifest[g].files, p) \in Seq(ID) /\ Ascending(Records(manifest[g].files, p))
           /\ changes = 0 => Range(Records(manifest[g].files, p)) \subseteq source[g][p]
<1>1. /\ CheckpointInv(Completed, source, changes) /\ Len(manifest) = Len(source)
      /\ \A i \in 1..Len(manifest) : manifest[i].count = Count(i)
  BY DEF DumpInv, ManifestInv
<1>2. Completed \in Checkpoint /\ Completed.graphs = manifest
  BY <1>1 DEF CheckpointInv, Completed
<1>3. g \in 1..Len(manifest)
  BY <1>1 DEF DumpInv, TypeInv
<1>4. GraphInv(g, manifest[g], source, changes) /\ manifest[g].files \in Seq(FileEntry) /\ manifest[g].count = Count(g)
  BY <1>1, <1>2, <1>3, CheckpointParts DEF CheckpointInv
<1>5. Total(manifest[g].files, p) = Count(g)[p] /\ Count(g)[p] = Cardinality(source[g][p])
  BY <1>4 DEF GraphInv, Count
<1>6. Records(manifest[g].files, p) \in Seq(ID)
  BY <1>4, RecordsType
<1>7. Ascending(Records(manifest[g].files, p)) /\ (changes = 0 => Range(Records(manifest[g].files, p)) \subseteq source[g][p])
  BY <1>4 DEF GraphInv, RecordsInv
<1> QED BY <1>5, <1>6, <1>7

\* A database whose counts changed while the dump was down is never completed
\* (validateCompletedDumpSources, and the comparison in dumpGraph).
THEOREM ManifestHasTheCounts == Spec => []CountChangesDetected
<1>1. DumpInv => CountChangesDetected
  BY CountingHolds, ManifestGraph DEF CountChangesDetected
<1> QED BY <1>1, DumpInvariant, PTL

\* An ascending sequence has as many elements as entries.
LEMMA AscendingCount ==
    ASSUME NEW s \in Seq(ID), Ascending(s)
    PROVE  IsFiniteSet(Range(s)) /\ Cardinality(Range(s)) = Len(s)
<1> DEFINE n == Len(s)
<1>1. n \in Nat /\ DOMAIN s = 1..n /\ s \in [1..n -> Range(s)] /\ \A i \in 1..n : s[i] \in ID
  BY DEF Range
<1>2. \A i \in 1..n : s[i] \in Nat
  BY <1>1, DumpAssumption, ZenonT(30)
<1> HIDE DEF n
<1>3. \A i, j \in 1..n : i < j => s[i] < s[j]
  BY DEF Ascending, n
<1>4. \A i, j \in 1..n : s[i] = s[j] => i = j
  <2> SUFFICES ASSUME NEW i \in 1..n, NEW j \in 1..n, s[i] = s[j] PROVE i = j
    OBVIOUS
  <2>1. ~(s[i] < s[j]) /\ ~(s[j] < s[i])
    BY <1>2
  <2>2. ~(i < j) /\ ~(j < i)
    BY <1>3, <2>1
  <2> QED BY <1>1, <2>2
<1>5. s \in Injection(1..n, Range(s))
  BY <1>1, <1>4, Zenon DEF Injection, IsInjective
<1>6. s \in Surjection(1..n, Range(s))
  <2>1. \A x \in Range(s) : \E i \in 1..n : s[i] = x
    BY <1>1 DEF Range
  <2> QED BY <1>1, <2>1, Zenon DEF Surjection
<1>7. IsFiniteSet(1..n) /\ Cardinality(1..n) = n
  <2>1. Cardinality(1..n) = IF 1 > n THEN 0 ELSE n - 1 + 1
    BY <1>1, FS_Interval
  <2> QED BY <1>1, <2>1, FS_Interval
<1>8. IsFiniteSet(Range(s)) /\ Cardinality(Range(s)) = Cardinality(1..n)
  BY <1>5, <1>6, <1>7, FS_Surjection
<1> QED BY <1>7, <1>8 DEF n

\* The manifest of a database that did not change is exact: however often the
\* dump was interrupted and resumed, no record is missing, repeated or out of
\* order (dumpNodePhase, dumpEdgePhase, and the counts compared at the end).
THEOREM ManifestIsExact == Spec => []ExactDump
<1>1. DumpInv => ExactDump
  <2> SUFFICES ASSUME DumpInv, manifest # None, changes = 0, NEW g \in DOMAIN source, NEW p \in Phase
               PROVE  /\ Ascending(Records(manifest[g].files, p))
                      /\ Range(Records(manifest[g].files, p)) = source[g][p]
    BY DEF ExactDump
  <2> DEFINE ids == Records(manifest[g].files, p)
  <2>1. /\ Len(ids) = Cardinality(source[g][p]) /\ ids \in Seq(ID) /\ Ascending(ids) /\ Range(ids) \subseteq source[g][p]
    BY CountingHolds, ManifestGraph DEF Total
  <2>2. IsFiniteSet(source[g][p])
    <3>1. source[g][p] \subseteq ID
      BY DEF DumpInv, TypeInv
    <3> QED BY <3>1, DumpAssumption, FS_Subset
  <2> HIDE DEF ids
  <2>3. Cardinality(Range(ids)) = Cardinality(source[g][p])
    BY <2>1, AscendingCount
  <2>4. Range(ids) = source[g][p]
    BY <2>1, <2>2, <2>3, FS_Subset
  <2> QED BY <2>1, <2>4 DEF ids
<1> QED BY <1>1, DumpInvariant, PTL
=============================================================================
