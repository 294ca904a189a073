--------------------------- MODULE DumpScanProofs ---------------------------
(***************************************************************************)
(* The resumable dump up to the end of a scan: the inductive invariant and *)
(* the steps that save a checkpoint, begin and count a graph, and scan it. *)
(*                                                                         *)
(* First the checkpoint by itself: what filterPhaseFiles and the           *)
(* concatenation of the fragments yield, what holds of every checkpoint,   *)
(* and that each change of it keeps this (a graph is begun, its counts are *)
(* set, a shard is committed, the phase is switched, the graph completed). *)
(***************************************************************************)
EXTENDS Dump, TLAPS

-----------------------------------------------------------------------------
(* Sequences of files: what filterPhaseFiles and the concatenation of the  *)
(* fragments do when a file is appended.                                   *)

\* What the lemmas take from the theory of natural numbers and of finite sets.
\* It is proved last (CountingHolds), so that the theorems of the library are not
\* in the context of the other proofs.
Counting ==
    /\ \A n \in Nat : \A T \in SUBSET (0..n) : T # {} => \E x \in T : \A y \in T : x <= y
    /\ \A S \in SUBSET ID : Cardinality(S) \in Nat

\* A set of numbers below a bound has a least one.
LEMMA LeastElement ==
    ASSUME Counting, NEW n \in Nat, NEW T \in SUBSET (0..n), T # {}
    PROVE  \E x \in T : \A y \in T : x <= y
BY ZenonT(30) DEF Counting

\* The table of results that filterPhaseFiles computes for the prefixes of a list.
IsFilter(f, files, p) ==
    f = [i \in 0..Len(files) |->
            IF i = 0 THEN <<>>
            ELSE IF files[i].path[2] = p THEN Append(f[i - 1], files[i]) ELSE f[i - 1]]

\* It exists.
LEMMA FilterExists ==
    ASSUME Counting, NEW files, Len(files) \in Nat, NEW p
    PROVE  \E f : IsFilter(f, files, p)
<1> DEFINE Upto(f, n) ==
       f = [i \in 0..n |->
               IF i = 0 THEN <<>>
               ELSE IF files[i].path[2] = p THEN Append(f[i - 1], files[i]) ELSE f[i - 1]]
           T == {n \in 0..Len(files) : ~ \E f : Upto(f, n)}
<1>1. SUFFICES T = {}
  <2>1. Len(files) \in 0..Len(files)
    OBVIOUS
  <2>2. T = {} => \E f : Upto(f, Len(files))
    BY <2>1, ZenonT(30)
  <2> QED BY <2>2, ZenonT(30) DEF IsFilter
<1>2. SUFFICES ASSUME T # {} PROVE FALSE
  OBVIOUS
<1>3. PICK n \in T : \A m \in T : n <= m
  BY <1>2, LeastElement, ZenonT(30)
<1>4. CASE n = 0
  <2>1. Upto([i \in 0..0 |-> <<>>], 0)
    OBVIOUS
  <2> QED BY <1>4, <2>1, ZenonT(30)
<1>5. CASE n # 0
  <2>1. n \in 0..Len(files) /\ n - 1 \in 0..Len(files) /\ n - 1 \notin T
    <3>1. n \in 0..Len(files)
      OBVIOUS
    <3>2. n - 1 \in 0..Len(files) /\ ~(n <= n - 1)
      BY <1>5, <3>1
    <3> HIDE DEF T
    <3> QED BY <1>3, <3>1, <3>2
  <2>2. PICK f : Upto(f, n - 1)
    BY <2>1, ZenonT(30)
  <2> DEFINE g == [i \in 0..n |->
                     IF i < n THEN f[i]
                     ELSE IF files[n].path[2] = p THEN Append(f[n - 1], files[n]) ELSE f[n - 1]]
  <2>3. \A i \in 0..n : g[i] = IF i = 0 THEN <<>>
                               ELSE IF files[i].path[2] = p THEN Append(g[i - 1], files[i]) ELSE g[i - 1]
    <3> TAKE i \in 0..n
    <3>1. CASE i < n
      <4>1. i = 0 \/ (i - 1 \in 0..n /\ i - 1 < n)
        BY <3>1
      <4>2. i \in 0..(n - 1) /\ g[i] = f[i] /\ (i # 0 => g[i - 1] = f[i - 1])
        BY <2>1, <3>1, <4>1
      <4> QED BY <2>2, <4>2
    <3>2. CASE i = n
      BY <1>5, <2>1, <3>2
    <3> QED BY <2>1, <3>1, <3>2
  <2>4. Upto(g, n)
    BY <2>3, ZenonT(30)
  <2> QED BY <1>3, <2>4, ZenonT(30)
<1> QED BY <1>4, <1>5

\* What the filter returns: the table's last entry, whose entries are computed
\* from one another.
LEMMA FilterTable ==
    ASSUME Counting, NEW files, Len(files) \in Nat, NEW p
    PROVE  \E f : /\ PhaseFiles(files, p) = f[Len(files)]
                  /\ f[0] = <<>>
                  /\ \A i \in 1..Len(files) :
                        f[i] = IF files[i].path[2] = p THEN Append(f[i - 1], files[i]) ELSE f[i - 1]
<1> DEFINE f == CHOOSE f : IsFilter(f, files, p)
<1>1. IsFilter(f, files, p)
  BY FilterExists
<1>2. PhaseFiles(files, p) = f[Len(files)]
  BY DEF PhaseFiles, IsFilter
<1> HIDE DEF f
<1>3. f[0] = <<>>
  BY <1>1 DEF IsFilter
<1>4. ASSUME NEW i \in 1..Len(files)
      PROVE  f[i] = IF files[i].path[2] = p THEN Append(f[i - 1], files[i]) ELSE f[i - 1]
  <2>1. i \in 0..Len(files) /\ i # 0
    OBVIOUS
  <2> QED BY <1>1, <2>1, Zenon DEF IsFilter
<1> QED BY <1>2, <1>3, <1>4

\* An empty list has no files of a phase.
LEMMA FilterEmpty ==
    ASSUME Counting, NEW p
    PROVE  PhaseFiles(<<>>, p) = <<>>
BY FilterTable

\* A file that is appended is appended to those of its phase.
LEMMA FilterAppend ==
    ASSUME Counting, NEW S, NEW files \in Seq(S), NEW e \in S, NEW p
    PROVE  PhaseFiles(Append(files, e), p) =
              IF e.path[2] = p THEN Append(PhaseFiles(files, p), e) ELSE PhaseFiles(files, p)
<1> DEFINE more == Append(files, e)
           n == Len(files)
<1>1. /\ n \in Nat /\ Len(more) = n + 1 /\ more[n + 1] = e
      /\ \A i \in 1..n : more[i] = files[i]
  OBVIOUS
<1>2. PICK f : /\ PhaseFiles(files, p) = f[n]
               /\ f[0] = <<>>
               /\ \A i \in 1..n : f[i] = IF files[i].path[2] = p THEN Append(f[i - 1], files[i]) ELSE f[i - 1]
  BY <1>1, FilterTable
<1>3. PICK g : /\ PhaseFiles(more, p) = g[n + 1]
               /\ g[0] = <<>>
               /\ \A i \in 1..(n + 1) : g[i] = IF more[i].path[2] = p THEN Append(g[i - 1], more[i]) ELSE g[i - 1]
  <2> HIDE DEF more, n
  <2>1. Len(more) \in Nat
    BY <1>1
  <2> QED BY <1>1, <2>1, FilterTable, SMTT(30)
<1> HIDE DEF more, n
<1> DEFINE T == {i \in 0..n : f[i] # g[i]}
<1>4. T = {}
  <2> SUFFICES ASSUME T # {} PROVE FALSE
    OBVIOUS
  <2>1. PICK i \in T : \A j \in T : i <= j
    BY <1>1, LeastElement, ZenonT(30)
  <2>2. i # 0
    BY <1>2, <1>3, <2>1
  <2>3. i \in 1..n /\ i \in 1..(n + 1) /\ i - 1 \in 0..n /\ i - 1 \notin T
    BY <1>1, <2>1, <2>2
  <2> QED BY <1>1, <1>2, <1>3, <2>1, <2>3
<1>5. f[n] = g[n] /\ n + 1 \in 1..(n + 1)
  BY <1>1, <1>4
<1>6. PhaseFiles(more, p) = IF e.path[2] = p THEN Append(PhaseFiles(files, p), e) ELSE PhaseFiles(files, p)
  BY <1>1, <1>2, <1>3, <1>5
<1> QED BY <1>6 DEF more

\* What is filtered from a list of files is such a list.
LEMMA FilterType ==
    ASSUME Counting, NEW S, NEW files \in Seq(S), NEW p
    PROVE  PhaseFiles(files, p) \in Seq(S)
<1> DEFINE n == Len(files)
<1>1. n \in Nat /\ \A i \in 1..n : files[i] \in S
  OBVIOUS
<1>2. PICK f : /\ PhaseFiles(files, p) = f[n]
               /\ f[0] = <<>>
               /\ \A i \in 1..n : f[i] = IF files[i].path[2] = p THEN Append(f[i - 1], files[i]) ELSE f[i - 1]
  <2>1. n \in Nat
    BY <1>1
  <2> QED BY <2>1, FilterTable
<1> HIDE DEF n
<1> DEFINE T == {i \in 0..n : f[i] \notin Seq(S)}
<1>3. T = {}
  <2> SUFFICES ASSUME T # {} PROVE FALSE
    OBVIOUS
  <2>1. PICK i \in T : \A j \in T : i <= j
    BY <1>1, LeastElement, ZenonT(30)
  <2>2. i # 0
    <3>1. <<>> \in Seq(S)
      OBVIOUS
    <3> QED BY <1>2, <2>1, <3>1, Zenon
  <2>3. i \in 1..n /\ i - 1 \in 0..n /\ ~(i <= i - 1)
    BY <1>1, <2>1, <2>2
  <2>4. f[i - 1] \in Seq(S)
    BY <2>1, <2>3
  <2>5. f[i] \in Seq(S)
    <3>1. files[i] \in S
      BY <1>1, <2>3
    <3>2. Append(f[i - 1], files[i]) \in Seq(S)
      BY <2>4, <3>1
    <3>3. f[i] \in {Append(f[i - 1], files[i]), f[i - 1]}
      BY <1>2, <2>3, Zenon
    <3> QED BY <2>4, <3>2, <3>3, ZenonT(30)
  <2> QED BY <2>1, <2>5
<1> QED BY <1>1, <1>2, <1>3

\* The same table for the records.
IsConcat(f, files, p) ==
    f = [i \in 0..Len(files) |->
            IF i = 0 THEN <<>>
            ELSE IF files[i].path[2] = p THEN f[i - 1] \o files[i].ids ELSE f[i - 1]]

\* It exists.
LEMMA ConcatExists ==
    ASSUME Counting, NEW files, Len(files) \in Nat, NEW p
    PROVE  \E f : IsConcat(f, files, p)
<1> DEFINE Upto(f, n) ==
       f = [i \in 0..n |->
               IF i = 0 THEN <<>>
               ELSE IF files[i].path[2] = p THEN f[i - 1] \o files[i].ids ELSE f[i - 1]]
           T == {n \in 0..Len(files) : ~ \E f : Upto(f, n)}
<1>1. SUFFICES T = {}
  <2>1. Len(files) \in 0..Len(files)
    OBVIOUS
  <2>2. T = {} => \E f : Upto(f, Len(files))
    BY <2>1, ZenonT(30)
  <2> QED BY <2>2, ZenonT(30) DEF IsConcat
<1>2. SUFFICES ASSUME T # {} PROVE FALSE
  BY ZenonT(30)
<1>3. PICK n \in T : \A m \in T : n <= m
  BY <1>2, LeastElement, ZenonT(30)
<1>4. CASE n = 0
  <2>1. Upto([i \in 0..0 |-> <<>>], 0)
    OBVIOUS
  <2> QED BY <1>4, <2>1, ZenonT(30)
<1>5. CASE n # 0
  <2>1. n \in 0..Len(files) /\ n - 1 \in 0..Len(files) /\ n - 1 \notin T
    <3>1. n \in 0..Len(files)
      OBVIOUS
    <3>2. n - 1 \in 0..Len(files) /\ ~(n <= n - 1)
      BY <1>5, <3>1, SMTT(30)
    <3> HIDE DEF T
    <3> QED BY <1>3, <3>1, <3>2
  <2>2. PICK f : Upto(f, n - 1)
    BY <2>1, ZenonT(30)
  <2> DEFINE g == [i \in 0..n |->
                     IF i < n THEN f[i]
                     ELSE IF files[n].path[2] = p THEN f[n - 1] \o files[n].ids ELSE f[n - 1]]
  <2>3. \A i \in 0..n : g[i] = IF i = 0 THEN <<>>
                               ELSE IF files[i].path[2] = p THEN g[i - 1] \o files[i].ids ELSE g[i - 1]
    <3> SUFFICES ASSUME NEW i \in 0..n
                 PROVE  g[i] = IF i = 0 THEN <<>>
                               ELSE IF files[i].path[2] = p THEN g[i - 1] \o files[i].ids ELSE g[i - 1]
      BY ZenonT(30)
    <3>1. CASE i < n
      <4>1. i = 0 \/ (i - 1 \in 0..n /\ i - 1 < n)
        BY <3>1, SMTT(30)
      <4>2. i \in 0..(n - 1) /\ g[i] = f[i] /\ (i # 0 => g[i - 1] = f[i - 1])
        BY <2>1, <3>1, <4>1, SMTT(30)
      <4> QED BY <2>2, <4>2
    <3>2. CASE i = n
      BY <1>5, <2>1, <3>2, SMTT(30)
    <3> QED BY <2>1, <3>1, <3>2, SMTT(30)
  <2>4. Upto(g, n)
    BY <2>3, ZenonT(30)
  <2> QED BY <1>3, <2>4, ZenonT(30)
<1> QED BY <1>4, <1>5, ZenonT(30)

\* The records are the last entry of the table.
LEMMA ConcatTable ==
    ASSUME Counting, NEW files, Len(files) \in Nat, NEW p
    PROVE  \E f : /\ Records(files, p) = f[Len(files)]
                  /\ f[0] = <<>>
                  /\ \A i \in 1..Len(files) :
                        f[i] = IF files[i].path[2] = p THEN f[i - 1] \o files[i].ids ELSE f[i - 1]
<1> DEFINE f == CHOOSE f : IsConcat(f, files, p)
<1>1. IsConcat(f, files, p)
  BY ConcatExists
<1>2. Records(files, p) = f[Len(files)]
  BY DEF Records, IsConcat
<1> HIDE DEF f
<1>3. f[0] = <<>>
  BY <1>1, SMTT(30) DEF IsConcat
<1>4. ASSUME NEW i \in 1..Len(files)
      PROVE  f[i] = IF files[i].path[2] = p THEN f[i - 1] \o files[i].ids ELSE f[i - 1]
  <2>1. i \in 0..Len(files) /\ i # 0
    OBVIOUS
  <2> QED BY <1>1, <2>1, Zenon DEF IsConcat
<1> QED BY <1>2, <1>3, <1>4

\* The records of a list of files are IDs.
LEMMA RecordsType ==
    ASSUME Counting, NEW files \in Seq(FileEntry), NEW p
    PROVE  Records(files, p) \in Seq(ID) /\ Total(files, p) \in Nat
<1> DEFINE n == Len(files)
<1>1. n \in Nat /\ \A i \in 1..n : files[i].ids \in Seq(ID)
  <2>1. n \in Nat /\ \A i \in 1..n : files[i] \in FileEntry
    OBVIOUS
  <2>2. \A e \in FileEntry : e.ids \in Seq(ID)
    BY DEF FileEntry
  <2> QED BY <2>1, <2>2
<1>2. PICK f : /\ Records(files, p) = f[n]
               /\ f[0] = <<>>
               /\ \A i \in 1..n : f[i] = IF files[i].path[2] = p THEN f[i - 1] \o files[i].ids ELSE f[i - 1]
  BY <1>1, ConcatTable
<1> HIDE DEF n
<1> DEFINE T == {i \in 0..n : f[i] \notin Seq(ID)}
<1>3. T = {}
  <2> SUFFICES ASSUME T # {} PROVE FALSE
    OBVIOUS
  <2>1. PICK i \in T : \A j \in T : i <= j
    BY <1>1, LeastElement, ZenonT(30)
  <2>2. i # 0
    <3>1. <<>> \in Seq(ID)
      OBVIOUS
    <3> QED BY <1>2, <2>1, <3>1, Zenon
  <2>3. i \in 1..n /\ i - 1 \in 0..n /\ ~(i <= i - 1)
    BY <1>1, <2>1, <2>2
  <2>4. f[i - 1] \in Seq(ID)
    BY <2>1, <2>3
  <2>5. f[i] \in Seq(ID)
    <3>1. f[i - 1] \o files[i].ids \in Seq(ID)
      BY <1>1, <2>3, <2>4
    <3>2. f[i] \in {f[i - 1] \o files[i].ids, f[i - 1]}
      BY <1>2, <2>3, Zenon
    <3> QED BY <2>4, <3>1, <3>2, ZenonT(30)
  <2> QED BY <2>1, <2>5
<1>4. Records(files, p) \in Seq(ID)
  BY <1>1, <1>2, <1>3
<1> QED BY <1>4 DEF Total

\* An empty list of files has no records.
LEMMA RecordsEmpty ==
    ASSUME Counting, NEW p
    PROVE  Records(<<>>, p) = <<>> /\ Total(<<>>, p) = 0
<1>1. Records(<<>>, p) = <<>>
  BY ConcatTable
<1> QED BY <1>1 DEF Total

\* The records of a file that is appended follow those of its phase.
LEMMA RecordsAppend ==
    ASSUME Counting, NEW files \in Seq(FileEntry), NEW e \in FileEntry, NEW p
    PROVE  /\ Records(Append(files, e), p) =
                 IF e.path[2] = p THEN Records(files, p) \o e.ids ELSE Records(files, p)
           /\ Total(Append(files, e), p) =
                 IF e.path[2] = p THEN Total(files, p) + Len(e.ids) ELSE Total(files, p)
<1> DEFINE more == Append(files, e)
           n == Len(files)
<1>1. /\ n \in Nat /\ Len(more) = n + 1 /\ more[n + 1] = e
      /\ \A i \in 1..n : more[i] = files[i]
  OBVIOUS
<1>2. PICK f : /\ Records(files, p) = f[n]
               /\ f[0] = <<>>
               /\ \A i \in 1..n : f[i] = IF files[i].path[2] = p THEN f[i - 1] \o files[i].ids ELSE f[i - 1]
  BY <1>1, ConcatTable
<1>3. PICK g : /\ Records(more, p) = g[n + 1]
               /\ g[0] = <<>>
               /\ \A i \in 1..(n + 1) : g[i] = IF more[i].path[2] = p THEN g[i - 1] \o more[i].ids ELSE g[i - 1]
  <2> HIDE DEF more, n
  <2>1. Len(more) \in Nat
    BY <1>1
  <2>2. \E g : /\ Records(more, p) = g[Len(more)]
               /\ g[0] = <<>>
               /\ \A i \in 1..Len(more) :
                     g[i] = IF more[i].path[2] = p THEN g[i - 1] \o more[i].ids ELSE g[i - 1]
    BY <2>1, ConcatTable
  <2> QED BY <1>1, <2>2, ZenonT(30)
<1> HIDE DEF more, n
<1> DEFINE T == {i \in 0..n : f[i] # g[i]}
<1>4. T = {}
  <2> SUFFICES ASSUME T # {} PROVE FALSE
    OBVIOUS
  <2>1. PICK i \in T : \A j \in T : i <= j
    BY <1>1, LeastElement, ZenonT(30)
  <2>2. i # 0
    BY <1>2, <1>3, <2>1
  <2>3. i \in 1..n /\ i \in 1..(n + 1) /\ i - 1 \in 0..n /\ i - 1 \notin T
    BY <1>1, <2>1, <2>2
  <2> QED BY <1>1, <1>2, <1>3, <2>1, <2>3, SMTT(30)
<1>5. f[n] = g[n] /\ n + 1 \in 1..(n + 1)
  BY <1>1, <1>4
<1>6. Records(more, p) = IF e.path[2] = p THEN Records(files, p) \o e.ids ELSE Records(files, p)
  BY <1>1, <1>2, <1>3, <1>5
<1>7. Total(more, p) = IF e.path[2] = p THEN Total(files, p) + Len(e.ids) ELSE Total(files, p)
  <2>1. Records(files, p) \in Seq(ID) /\ e.ids \in Seq(ID)
    BY RecordsType, ZenonT(30) DEF FileEntry
  <2> QED BY <1>6, <2>1 DEF Total
<1> QED BY <1>6, <1>7 DEF more

-----------------------------------------------------------------------------
(* What holds of a checkpoint k of the database db; changed says whether   *)
(* the database was altered since the dump began.                          *)

\* The last of the records, if there are any: the cursor of a scan.
CursorOf(ids) == IF ids = <<>> THEN None ELSE ids[Len(ids)]

\* The files of a graph: numbered, not empty, nodes before relationships.
FilesInv(g, files) ==
    /\ files = PhaseFiles(files, "nodes") \o PhaseFiles(files, "edges")
    /\ \A i \in 1..Len(files) : files[i].ids # <<>>
    /\ Numbered(g, files)

\* Their records: ascending, and records of the database unless it changed.
RecordsInv(files, graph, changed) ==
    \A p \in Phase : /\ Ascending(Records(files, p))
                     /\ changed = 0 => Range(Records(files, p)) \subseteq graph[p]

\* A graph that is complete.
GraphInv(g, entry, db, changed) ==
    /\ FilesInv(g, entry.files) /\ RecordsInv(entry.files, db[g], changed)
    /\ \A p \in Phase : Total(entry.files, p) = entry.count[p]

\* A graph that is being dumped.
CurrentInv(g, c, db, changed) ==
    /\ FilesInv(g, c.files) /\ RecordsInv(c.files, db[g], changed)
    /\ c.phase = "nodes" => PhaseFiles(c.files, "edges") = <<>> /\ Records(c.files, "edges") = <<>>
    /\ c.last = CursorOf(Records(c.files, c.phase))
    /\ c.count = None => c.files = <<>> /\ c.phase = "nodes"
    /\ c.count # None => /\ \A p \in Phase : Total(c.files, p) <= c.count[p]
                         /\ c.phase = "edges" => Total(c.files, "nodes") = c.count["nodes"]

CheckpointInv(k, db, changed) ==
    /\ k \in Checkpoint /\ Len(k.graphs) <= Len(db)
    /\ \A g \in 1..Len(k.graphs) : GraphInv(g, k.graphs[g], db, changed)
    /\ k.current # None => /\ Len(k.graphs) < Len(db)
                           /\ CurrentInv(Len(k.graphs) + 1, k.current, db, changed)

-----------------------------------------------------------------------------
(* The files a checkpoint names.                                           *)

\* Every file of a graph has its place among the files of its phase, and that
\* place is its number.
LEMMA FileNumber ==
    ASSUME Counting, NEW g, NEW files \in Seq(FileEntry), FilesInv(g, files), NEW f \in Range(files)
    PROVE  \E p \in Phase : \E i \in 1..Len(PhaseFiles(files, p)) : f.path = <<g, p, i>>
<1> DEFINE a == PhaseFiles(files, "nodes")
           b == PhaseFiles(files, "edges")
<1>1. a \in Seq(FileEntry) /\ b \in Seq(FileEntry) /\ files = a \o b
  BY FilterType DEF FilesInv
<1>2. PICK k \in 1..Len(files) : f = files[k]
  BY DEF Range
<1>3. /\ \A i \in 1..Len(a) : a[i].path = <<g, "nodes", i>>
      /\ \A i \in 1..Len(b) : b[i].path = <<g, "edges", i>>
  BY ZenonT(30) DEF FilesInv, Numbered, Phase
<1> HIDE DEF a, b
<1>4. CASE k <= Len(a)
  <2>1. k \in 1..Len(a) /\ f = a[k]
    BY <1>1, <1>2, <1>4
  <2> QED BY <1>3, <2>1 DEF a, Phase
<1>5. CASE k > Len(a)
  <2>1. k - Len(a) \in 1..Len(b) /\ f = b[k - Len(a)]
    BY <1>1, <1>2, <1>5
  <2> QED BY <1>3, <2>1, ZenonT(30) DEF b, Phase
<1>6. Len(a) \in Nat /\ k \in Nat
  BY <1>1
<1> QED BY <1>4, <1>5, <1>6

\* The parts of a checkpoint.
LEMMA CheckpointParts ==
    ASSUME NEW k \in Checkpoint
    PROVE  /\ k.graphs \in Seq(GraphEntry) /\ Len(k.graphs) \in Nat /\ DOMAIN k.graphs = 1..Len(k.graphs)
           /\ \A g \in 1..Len(k.graphs) : /\ k.graphs[g].files \in Seq(FileEntry)
                                          /\ k.graphs[g].count \in [Phase -> Nat]
           /\ k.current # None => /\ k.current.files \in Seq(FileEntry)
                                  /\ k.current.phase \in Phase
                                  /\ k.current.last \in ID \cup {None}
                                  /\ k.current.count \in [Phase -> Nat] \cup {None}
<1>1. k.graphs \in Seq(GraphEntry) /\ k.current \in CurrentGraph \cup {None}
  BY DEF Checkpoint
<1>2. Len(k.graphs) \in Nat /\ DOMAIN k.graphs = 1..Len(k.graphs) /\ \A g \in 1..Len(k.graphs) : k.graphs[g] \in GraphEntry
  BY <1>1
<1>3. \A e \in GraphEntry : e.files \in Seq(FileEntry) /\ e.count \in [Phase -> Nat]
  BY DEF GraphEntry
<1>4. \A c \in CurrentGraph : /\ c.files \in Seq(FileEntry) /\ c.phase \in Phase
                              /\ c.last \in ID \cup {None} /\ c.count \in [Phase -> Nat] \cup {None}
  BY DEF CurrentGraph
<1> QED BY <1>1, <1>2, <1>3, <1>4

\* The files that a checkpoint names.
LEMMA CommittedFiles ==
    ASSUME NEW k, DOMAIN k.graphs = 1..Len(k.graphs), NEW f
    PROVE  f \in Committed(k) <=>
              \/ \E g \in 1..Len(k.graphs) : f \in Range(k.graphs[g].files)
              \/ k.current # None /\ f \in Range(k.current.files)
<1> DEFINE old == UNION {Range(k.graphs[g].files) : g \in DOMAIN k.graphs}
           new == IF k.current = None THEN {} ELSE Range(k.current.files)
<1>1. f \in old <=> \E g \in 1..Len(k.graphs) : f \in Range(k.graphs[g].files)
  BY Zenon
<1>2. f \in new <=> k.current # None /\ f \in Range(k.current.files)
  BY Zenon
<1>3. Committed(k) = old \cup new
  BY Zenon DEF Committed
<1> HIDE DEF old, new
<1> QED BY <1>1, <1>2, <1>3

\* The shard that is next is none of the committed ones.
LEMMA NextPathNew ==
    ASSUME Counting, NEW k, NEW db, NEW changed, CheckpointInv(k, db, changed), k.current # None,
           NEW f \in Committed(k)
    PROVE  f.path # NextPath(k)
<1> DEFINE n == Len(k.graphs)
           c == k.current
<1>1. k \in Checkpoint
  BY DEF CheckpointInv
<1>2. /\ n \in Nat /\ DOMAIN k.graphs = 1..n
      /\ \A g \in 1..n : k.graphs[g].files \in Seq(FileEntry)
      /\ c.files \in Seq(FileEntry) /\ c.phase \in Phase
  BY <1>1, CheckpointParts
<1>3. NextPath(k) = <<n + 1, c.phase, Len(PhaseFiles(c.files, c.phase)) + 1>>
  BY DEF NextPath
<1>4. CASE f \in Range(c.files)
  <2>1. FilesInv(n + 1, c.files)
    BY DEF CheckpointInv, CurrentInv
  <2>2. PICK p \in Phase, i \in Nat : i \in 1..Len(PhaseFiles(c.files, p)) /\ f.path = <<n + 1, p, i>>
    <3> HIDE DEF n, c
    <3>1. PICK p \in Phase : \E i \in 1..Len(PhaseFiles(c.files, p)) : f.path = <<n + 1, p, i>>
      BY <1>2, <1>4, <2>1, FileNumber
    <3> QED BY <3>1
  <2>3. Len(PhaseFiles(c.files, c.phase)) \in Nat
    BY <1>2, FilterType
  <2> QED BY <1>3, <2>2, <2>3
<1>5. CASE f \notin Range(c.files)
  <2>1. PICK g \in 1..n : f \in Range(k.graphs[g].files)
    BY <1>2, <1>5, CommittedFiles
  <2>2. FilesInv(g, k.graphs[g].files)
    BY DEF CheckpointInv, GraphInv
  <2>3. PICK p, i : f.path = <<g, p, i>>
    BY <1>2, <2>1, <2>2, FileNumber
  <2> QED BY <1>2, <1>3, <2>3
<1> QED BY <1>4, <1>5

-----------------------------------------------------------------------------
(* The changes a dump makes to its checkpoint keep what holds of it.       *)

\* The checkpoint of a graph that was not begun before.
LEMMA BeginGraph ==
    ASSUME Counting, NEW k, NEW c, NEW db, NEW changed, CheckpointInv(k, db, changed), k.current = None,
           Len(k.graphs) # Len(db), Len(db) \in Nat,
           c = [count |-> None, phase |-> "nodes", last |-> None, files |-> <<>>]
    PROVE  /\ CheckpointInv([k EXCEPT !.current = c], db, changed)
           /\ Committed([k EXCEPT !.current = c]) = Committed(k)
<1> DEFINE m == [k EXCEPT !.current = c]
<1>1. k \in Checkpoint /\ Len(k.graphs) \in Nat
  BY CheckpointParts DEF CheckpointInv
<1>2. c \in CurrentGraph
  <2>1. <<>> \in Seq(FileEntry)
    OBVIOUS
  <2> QED BY <2>1 DEF CurrentGraph, Phase
<1>3. m \in Checkpoint /\ m.graphs = k.graphs /\ m.current = c
  BY <1>1, <1>2 DEF Checkpoint
<1>4. CurrentInv(Len(k.graphs) + 1, c, db, changed)
  <2>1. /\ c.files = <<>> /\ c.last = None /\ c.count = None /\ c.phase = "nodes"
        /\ \A p : PhaseFiles(<<>>, p) = <<>> /\ Records(<<>>, p) = <<>>
    BY FilterEmpty, RecordsEmpty
  <2>2. FilesInv(Len(k.graphs) + 1, c.files)
    BY <2>1 DEF FilesInv, Numbered
  <2>3. RecordsInv(c.files, db[Len(k.graphs) + 1], changed)
    BY <2>1 DEF RecordsInv, Ascending, Range
  <2> QED BY <2>1, <2>2, <2>3 DEF CurrentInv, CursorOf
<1>5. Committed(m) = Committed(k)
  <2>1. Range(c.files) = {}
    BY DEF Range
  <2> QED BY <1>1, <1>3, <2>1 DEF Committed
<1>6. CheckpointInv(m, db, changed)
  BY <1>1, <1>3, <1>4 DEF CheckpointInv
<1> QED BY <1>5, <1>6

\* The counts of a graph of which nothing is committed enter its checkpoint.
LEMMA SetCount ==
    ASSUME Counting, NEW k, NEW n \in [Phase -> Nat], NEW db, NEW changed, CheckpointInv(k, db, changed),
           k.current # None, k.current.count = None
    PROVE  /\ CheckpointInv([k EXCEPT !.current.count = n], db, changed)
           /\ Committed([k EXCEPT !.current.count = n]) = Committed(k)
<1> DEFINE m == [k EXCEPT !.current.count = n]
           c == k.current
           d == [c EXCEPT !.count = n]
<1>1. /\ k \in Checkpoint /\ c \in CurrentGraph /\ Len(k.graphs) < Len(db)
      /\ CurrentInv(Len(k.graphs) + 1, c, db, changed)
  BY DEF CheckpointInv, Checkpoint
<1>2. /\ d \in CurrentGraph /\ d.files = c.files /\ d.phase = c.phase /\ d.last = c.last /\ d.count = n
  BY <1>1, ZenonT(30) DEF CurrentGraph
<1>3. m \in Checkpoint /\ m.graphs = k.graphs /\ m.current = d
  BY <1>1, <1>2, ZenonT(30) DEF Checkpoint
<1>4. d # None /\ n # None
  BY <1>2, DumpAssumption
<1>5. c.files = <<>> /\ c.phase = "nodes"
  BY <1>1 DEF CurrentInv
<1>6. \A p \in Phase : Total(d.files, p) <= n[p]
  BY <1>2, <1>5, RecordsEmpty
<1> HIDE DEF c, d, m
<1>7. CurrentInv(Len(k.graphs) + 1, d, db, changed)
  BY <1>1, <1>2, <1>4, <1>5, <1>6 DEF CurrentInv
<1>8. Committed(m) = Committed(k)
  BY <1>2, <1>3, <1>4 DEF Committed, c
<1>9. CheckpointInv(m, db, changed)
  BY <1>1, <1>3, <1>7 DEF CheckpointInv
<1> QED BY <1>8, <1>9 DEF m

\* Nothing is appended.
LEMMA ConcatEmpty ==
    ASSUME NEW s \in Seq(ID)
    PROVE  s \o <<>> = s
OBVIOUS

\* A function on the first numbers is a sequence.
LEMMA FunctionSeq ==
    ASSUME NEW S, NEW T, S \subseteq T, NEW n \in Nat, NEW f \in [1..n -> S]
    PROVE  f \in Seq(T) /\ Len(f) = n /\ Range(f) \subseteq S
<1>1. f \in [1..n -> T] /\ \A i \in 1..n : f[i] \in S
  OBVIOUS
<1>2. f \in Seq(T)
  BY <1>1
<1>3. Len(f) = n
  BY <1>1, <1>2
<1> QED BY <1>1, <1>2, <1>3 DEF Range

\* The elements of a concatenation.
LEMMA RangeConcat ==
    ASSUME NEW S, NEW s \in Seq(S), NEW t \in Seq(S)
    PROVE  Range(s \o t) = Range(s) \cup Range(t)
<1>1. /\ Len(s) \in Nat /\ Len(t) \in Nat /\ DOMAIN (s \o t) = 1..(Len(s) + Len(t))
      /\ DOMAIN s = 1..Len(s) /\ DOMAIN t = 1..Len(t)
      /\ \A k \in 1..Len(s) : (s \o t)[k] = s[k] /\ k \in 1..(Len(s) + Len(t))
      /\ \A k \in 1..Len(t) : (s \o t)[Len(s) + k] = t[k] /\ Len(s) + k \in 1..(Len(s) + Len(t))
  OBVIOUS
<1>2. ASSUME NEW k \in 1..(Len(s) + Len(t))
      PROVE  (s \o t)[k] \in Range(s) \cup Range(t)
  <2>1. CASE k <= Len(s)
    BY <1>1, <2>1 DEF Range
  <2>2. CASE k > Len(s)
    <3>1. k - Len(s) \in 1..Len(t) /\ Len(s) + (k - Len(s)) = k
      BY <1>1, <2>2
    <3>2. (s \o t)[k] = t[k - Len(s)]
      BY <1>1, <3>1
    <3> QED BY <1>1, <3>1, <3>2 DEF Range
  <2> QED BY <1>1, <2>1, <2>2
<1>3. Range(s \o t) \subseteq Range(s) \cup Range(t)
  <2>1. \A x \in Range(s \o t) : \E k \in 1..(Len(s) + Len(t)) : x = (s \o t)[k]
    BY <1>1 DEF Range
  <2> QED BY <1>2, <2>1
<1>4. Range(s) \subseteq Range(s \o t)
  <2>1. \A x \in Range(s) : \E k \in 1..Len(s) : x = s[k]
    BY <1>1 DEF Range
  <2>2. \A k \in 1..Len(s) : s[k] \in Range(s \o t)
    BY <1>1 DEF Range
  <2> QED BY <2>1, <2>2
<1>5. Range(t) \subseteq Range(s \o t)
  <2>1. \A x \in Range(t) : \E k \in 1..Len(t) : x = t[k]
    BY <1>1 DEF Range
  <2>2. \A k \in 1..Len(t) : t[k] \in Range(s \o t)
    BY <1>1, ZenonT(30) DEF Range
  <2> QED BY <2>1, <2>2
<1> QED BY <1>3, <1>4, <1>5

\* Ascending sequences follow each other.
LEMMA AscendingConcat ==
    ASSUME NEW s \in Seq(ID), NEW t \in Seq(ID), Ascending(s), Ascending(t),
           s # <<>> => \A i \in 1..Len(t) : s[Len(s)] < t[i]
    PROVE  Ascending(s \o t)
<1> SUFFICES ASSUME NEW i \in 1..Len(s \o t), NEW j \in 1..Len(s \o t), i < j
             PROVE  (s \o t)[i] < (s \o t)[j]
  BY DEF Ascending
<1>1. /\ Len(s) \in Nat /\ Len(t) \in Nat /\ Len(s \o t) = Len(s) + Len(t)
      /\ \A k \in 1..Len(s) : (s \o t)[k] = s[k]
      /\ \A k \in 1..Len(t) : (s \o t)[Len(s) + k] = t[k]
  OBVIOUS
<1>2. (\A k \in 1..Len(s) : s[k] \in Nat) /\ \A k \in 1..Len(t) : t[k] \in Nat
  <2>1. (\A k \in 1..Len(s) : s[k] \in ID) /\ \A k \in 1..Len(t) : t[k] \in ID
    OBVIOUS
  <2> QED BY <2>1, DumpAssumption, ZenonT(30)
<1>3. CASE j <= Len(s)
  BY <1>1, <1>3 DEF Ascending
<1>4. CASE i > Len(s)
  <2>1. i - Len(s) \in 1..Len(t) /\ j - Len(s) \in 1..Len(t) /\ i - Len(s) < j - Len(s)
    BY <1>1, <1>4
  <2>2. (s \o t)[i] = t[i - Len(s)] /\ (s \o t)[j] = t[j - Len(s)]
    BY <1>1, <2>1
  <2> QED BY <2>1, <2>2, ZenonT(30) DEF Ascending
<1>5. CASE i <= Len(s) /\ j > Len(s)
  <2>1. i \in 1..Len(s) /\ Len(s) \in 1..Len(s) /\ s # <<>> /\ j - Len(s) \in 1..Len(t)
    BY <1>1, <1>5
  <2>2. (s \o t)[i] = s[i] /\ (s \o t)[j] = t[j - Len(s)]
    BY <1>1, <2>1
  <2>3. s[i] <= s[Len(s)]
    BY <1>2, <2>1 DEF Ascending
  <2>4. s[Len(s)] < t[j - Len(s)]
    BY <2>1
  <2> QED BY <1>2, <2>1, <2>2, <2>3, <2>4, SMTT(30)
<1> QED BY <1>1, <1>3, <1>4, <1>5

\* What Min chooses of two numbers.
LEMMA MinOfTwo ==
    ASSUME NEW a \in Nat, NEW b \in Nat
    PROVE  Min({a, b}) \in Nat /\ Min({a, b}) <= a /\ Min({a, b}) <= b
<1>1. \E x \in {a, b} : \A y \in {a, b} : x <= y
  <2>1. CASE a <= b
    BY <2>1
  <2>2. CASE b <= a
    BY <2>2
  <2> QED BY <2>1, <2>2
<1> QED BY <1>1 DEF Min

\* What a concatenation is, element by element; when sequences are equal.
LEMMA ConcatFacts ==
    ASSUME NEW s \in Seq(ID), NEW t \in Seq(ID)
    PROVE  /\ s \o t \in Seq(ID) /\ Len(s) \in Nat /\ Len(t) \in Nat /\ Len(s \o t) = Len(s) + Len(t)
           /\ \A i \in 1..Len(s) : (s \o t)[i] = s[i]
           /\ \A i \in 1..Len(t) : (s \o t)[Len(s) + i] = t[i]
OBVIOUS

\* What appending to a sequence yields.
LEMMA AppendFacts ==
    ASSUME NEW S, NEW s \in Seq(S), NEW e \in S
    PROVE  /\ Append(s, e) \in Seq(S) /\ Append(s, e) # <<>> /\ Len(s) \in Nat
           /\ Len(Append(s, e)) = Len(s) + 1 /\ Append(s, e)[Len(s) + 1] = e
           /\ \A i \in 1..Len(s) : Append(s, e)[i] = s[i]
OBVIOUS

\* The number after one below a bound is within it.
LEMMA NextWithin ==
    ASSUME NEW i \in Nat, NEW j \in Nat, i < j
    PROVE  i + 1 <= j
OBVIOUS

\* Sequences are equal that have the same length and the same members.
LEMMA SeqEqual ==
    ASSUME NEW s \in Seq(ID), NEW t \in Seq(ID), Len(s) = Len(t), \A i \in 1..Len(s) : s[i] = t[i]
    PROVE  s = t
OBVIOUS

\* The first record of a batch moves to the open fragment.
Moved(r, w, c) ==
    /\ Head(c) \in ID /\ Tail(c) \in Seq(ID) /\ Append(w, Head(c)) \in Seq(ID)
    /\ Append(w, Head(c)) # <<>> /\ Len(Tail(c)) = Len(c) - 1
    /\ Len(r \o Append(w, Head(c))) = Len(r \o w) + 1
    /\ (r \o Append(w, Head(c))) \o Tail(c) = (r \o w) \o c
    /\ CursorOf(r \o Append(w, Head(c))) = Head(c)

\* Handling the head of a batch moves it from the batch to the end of what was seen
\* and leaves the order of the whole as it is.
LEMMA MoveHead ==
    ASSUME NEW r \in Seq(ID), NEW w \in Seq(ID), NEW c \in Seq(ID), c # <<>>
    PROVE  Moved(r, w, c)
<1> DEFINE h == Head(c)
           t == Tail(c)
           a == r \o Append(w, h)
<1>1. /\ Len(c) \in Nat /\ Len(c) >= 1 /\ h \in ID /\ h = c[1] /\ t \in Seq(ID) /\ Len(t) = Len(c) - 1
      /\ \A i \in 1..(Len(c) - 1) : t[i] = c[i + 1]
  OBVIOUS
<1> HIDE DEF h, t
<1> DEFINE b == Append(w, h)
<1>0. /\ b \in Seq(ID) /\ b # <<>> /\ Len(b) = Len(w) + 1 /\ Len(w) \in Nat /\ b[Len(w) + 1] = h
      /\ \A i \in 1..Len(w) : b[i] = w[i]
  BY <1>1, AppendFacts
<1> HIDE DEF b
<1> DEFINE rw == r \o w
<1>2. /\ a \in Seq(ID) /\ Len(a) = Len(r) + (Len(w) + 1) /\ Len(r) \in Nat
      /\ \A i \in 1..Len(r) : a[i] = r[i]
      /\ \A i \in 1..(Len(w) + 1) : a[Len(r) + i] = b[i]
      /\ rw \in Seq(ID) /\ Len(rw) = Len(r) + Len(w)
      /\ \A i \in 1..Len(r) : rw[i] = r[i]
      /\ \A i \in 1..Len(w) : rw[Len(r) + i] = w[i]
  <2>1. /\ rw \in Seq(ID) /\ Len(rw) = Len(r) + Len(w) /\ Len(r) \in Nat
        /\ \A i \in 1..Len(r) : rw[i] = r[i]
        /\ \A i \in 1..Len(w) : rw[Len(r) + i] = w[i]
    BY ConcatFacts
  <2>2. a = r \o b
    BY DEF b
  <2> HIDE DEF a
  <2>3. /\ a \in Seq(ID) /\ Len(a) = Len(r) + Len(b)
        /\ \A i \in 1..Len(r) : a[i] = r[i]
        /\ \A i \in 1..Len(b) : a[Len(r) + i] = b[i]
    BY <1>0, <2>2, ConcatFacts, Zenon
  <2> QED BY <1>0, <2>1, <2>3
<1> HIDE DEF a, rw
<1>5. a # <<>> /\ Len(a) = Len(rw) + 1 /\ a[Len(a)] = h /\ Len(rw) \in Nat
  BY <1>0, <1>2
<1>6. ASSUME NEW i \in 1..Len(rw) PROVE a[i] = rw[i]
  <2>1. CASE i <= Len(r)
    BY <1>2, <2>1
  <2>2. CASE i > Len(r)
    <3>1. PICK j \in 1..Len(w) : j \in 1..(Len(w) + 1) /\ Len(r) + j = i
      <4>1. i - Len(r) \in 1..Len(w) /\ i - Len(r) \in 1..(Len(w) + 1) /\ Len(r) + (i - Len(r)) = i
        BY <1>0, <1>2, <2>2
      <4> QED BY <4>1, Zenon
    <3>2. a[i] = b[j] /\ rw[i] = w[j]
      BY <1>2, <3>1, Zenon
    <3>3. b[j] = w[j]
      BY <1>0, Zenon
    <3> QED BY <3>2, <3>3
  <2> QED BY <1>2, <2>1, <2>2
<1>3. a \o t = rw \o c
  <2>1. /\ a \o t \in Seq(ID) /\ Len(a \o t) = Len(a) + Len(t)
        /\ \A i \in 1..Len(a) : (a \o t)[i] = a[i]
        /\ \A i \in 1..Len(t) : (a \o t)[Len(a) + i] = t[i]
    BY <1>1, <1>2, ConcatFacts, Zenon
  <2>2. /\ rw \o c \in Seq(ID) /\ Len(rw \o c) = Len(rw) + Len(c)
        /\ \A i \in 1..Len(rw) : (rw \o c)[i] = rw[i]
        /\ \A i \in 1..Len(c) : (rw \o c)[Len(rw) + i] = c[i]
    BY <1>2, ConcatFacts, Zenon
  <2>3. Len(a \o t) = Len(rw \o c)
    BY <1>1, <1>5, <2>1, <2>2
  <2>4. ASSUME NEW i \in 1..Len(a \o t)
        PROVE  (a \o t)[i] = (rw \o c)[i]
    <3>1. CASE i <= Len(rw)
      <4>1. i \in 1..Len(rw) /\ i \in 1..Len(a)
        BY <1>5, <3>1
      <4> QED BY <1>6, <2>1, <2>2, <4>1
    <3>2. CASE i = Len(rw) + 1
      <4>1. 1 \in 1..Len(c) /\ i = Len(a) /\ i \in 1..Len(a)
        BY <1>1, <1>5, <3>2
      <4> QED BY <1>1, <1>5, <2>1, <2>2, <3>2, <4>1
    <3>3. CASE i > Len(rw) + 1
      <4>1. PICK j \in 1..Len(t) : i = Len(a) + j /\ i = Len(rw) + (j + 1) /\ j + 1 \in 1..Len(c)
        <5>1. i - Len(a) \in 1..Len(t)
          BY <1>1, <1>5, <2>1, <3>3
        <5>2. i = Len(a) + (i - Len(a)) /\ i = Len(rw) + ((i - Len(a)) + 1) /\ (i - Len(a)) + 1 \in 1..Len(c)
          BY <1>1, <1>5, <5>1
        <5> QED BY <5>1, <5>2, ZenonT(30)
      <4>2. t[j] = c[j + 1]
        BY <1>1, <4>1
      <4> QED BY <2>1, <2>2, <4>1, <4>2
    <3>4. i <= Len(rw) \/ i = Len(rw) + 1 \/ i > Len(rw) + 1
      BY <1>5
    <3> QED BY <3>1, <3>2, <3>3, <3>4, ZenonT(30)
  <2> QED BY <2>1, <2>2, <2>3, <2>4, SeqEqual, ZenonT(30)
<1>4. CursorOf(a) = h
  BY <1>5 DEF CursorOf
<1> QED BY <1>0, <1>1, <1>2, <1>3, <1>4, <1>5, ZenonT(30) DEF Moved, a, b, h, t, rw

\* Sequences of files: nothing, and one more, at the end.
LEMMA ConcatNone ==
    ASSUME NEW S, NEW s \in Seq(S)
    PROVE  s \o <<>> = s
OBVIOUS

\* What appending adds to the members of a sequence.
LEMMA RangeAppend ==
    ASSUME NEW S, NEW s \in Seq(S), NEW e \in S
    PROVE  Range(Append(s, e)) = Range(s) \cup {e}
<1>1. /\ Len(s) \in Nat /\ DOMAIN s = 1..Len(s) /\ DOMAIN Append(s, e) = 1..(Len(s) + 1)
      /\ Append(s, e)[Len(s) + 1] = e /\ \A i \in 1..Len(s) : Append(s, e)[i] = s[i]
  OBVIOUS
<1>2. 1..(Len(s) + 1) = 1..Len(s) \cup {Len(s) + 1}
  BY <1>1
<1> DEFINE more == Append(s, e)
<1> HIDE DEF more
<1> QED BY <1>1, <1>2 DEF Range, more

Joined(u, s, t) == u = s \o t

\* Appending to the second part of a concatenation appends to the whole.
LEMMA ConcatAppend ==
    ASSUME NEW S, NEW s \in Seq(S), NEW t \in Seq(S), NEW e \in S, NEW u, Joined(u, s, t)
    PROVE  Joined(Append(u, e), s, Append(t, e))
<1>1. Append(s \o t, e) = s \o Append(t, e)
  OBVIOUS
<1> QED BY <1>1, Zenon DEF Joined

\* The files of a graph when the next one of its phase is appended.
FileAdded(g, files, p, ids, e, more) ==
    /\ e \in FileEntry /\ more \in Seq(FileEntry) /\ FilesInv(g, more)
    /\ p = "nodes" => PhaseFiles(more, "edges") = <<>>
    /\ Records(more, p) = Records(files, p) \o ids
    /\ \A q \in Phase : q # p => Records(more, q) = Records(files, q)

\* A shard that is appended under the next number keeps the files of its graph
\* numbered, and nodes before relationships.
LEMMA FilesAppend ==
    ASSUME Counting, NEW g \in Nat, NEW files \in Seq(FileEntry), NEW p \in Phase, NEW ids \in Seq(ID), ids # <<>>,
           FilesInv(g, files), p = "nodes" => PhaseFiles(files, "edges") = <<>>,
           NEW shard, shard = [path |-> <<g, p, Len(PhaseFiles(files, p)) + 1>>, ids |-> ids],
           NEW longer, longer = Append(files, shard)
    PROVE  FileAdded(g, files, p, ids, shard, longer)
<1> DEFINE n == Len(PhaseFiles(files, p)) + 1
           e == [path |-> <<g, p, n>>, ids |-> ids]
           more == Append(files, e)
<1>0. shard = e /\ longer = more
  OBVIOUS
<1>1. /\ PhaseFiles(files, p) \in Seq(FileEntry) /\ n \in Nat
      /\ \A q \in Phase : PhaseFiles(files, q) \in Seq(FileEntry)
  <2>1. \A q \in Phase : PhaseFiles(files, q) \in Seq(FileEntry)
    BY FilterType
  <2> QED BY <2>1
<1>2. e \in FileEntry /\ e.path = <<g, p, n>> /\ e.ids = ids /\ e.path[2] = p
  <2> HIDE DEF n
  <2> QED BY <1>1 DEF FileEntry
<1> HIDE DEF e
<1>3. /\ more \in Seq(FileEntry) /\ Len(more) = Len(files) + 1 /\ Len(files) \in Nat
      /\ more[Len(files) + 1] = e /\ \A i \in 1..Len(files) : more[i] = files[i]
  BY <1>2, AppendFacts
<1>4. /\ PhaseFiles(more, p) = Append(PhaseFiles(files, p), e)
      /\ \A q \in Phase : q # p => PhaseFiles(more, q) = PhaseFiles(files, q)
  BY <1>2, FilterAppend
<1>5. /\ Records(more, p) = Records(files, p) \o ids
      /\ \A q \in Phase : q # p => Records(more, q) = Records(files, q)
  BY <1>2, RecordsAppend, ZenonT(30)
<1> HIDE DEF more
<1>6. more = PhaseFiles(more, "nodes") \o PhaseFiles(more, "edges")
  <2>1. files = PhaseFiles(files, "nodes") \o PhaseFiles(files, "edges")
    BY DEF FilesInv
  <2>2. CASE p = "nodes"
    <3>1. PhaseFiles(files, "edges") = <<>> /\ PhaseFiles(more, "edges") = <<>>
      BY <1>4, <2>2 DEF Phase
    <3>2. files = PhaseFiles(files, "nodes")
      BY <1>1, <2>1, <3>1, ConcatNone, ZenonT(30) DEF Phase
    <3>3. PhaseFiles(more, "nodes") = more
      BY <1>4, <2>2, <3>2 DEF more
    <3> QED BY <1>3, <3>1, <3>3, ConcatNone
  <2>3. CASE p = "edges"
    <3> DEFINE a == PhaseFiles(files, "nodes")
               b == PhaseFiles(files, "edges")
    <3>1. PhaseFiles(more, "nodes") = a /\ PhaseFiles(more, "edges") = Append(b, e)
      BY <1>4, <2>3 DEF Phase
    <3>2. a \in Seq(FileEntry) /\ b \in Seq(FileEntry)
      BY <1>1 DEF Phase
    <3>3. Joined(files, a, b) /\ more = Append(files, e)
      BY <2>1 DEF Joined, more
    <3> HIDE DEF a, b
    <3>4. Joined(more, a, Append(b, e))
      BY <1>2, <3>2, <3>3, ConcatAppend
    <3> QED BY <3>1, <3>4, Zenon DEF Joined
  <2> QED BY <2>2, <2>3 DEF Phase
<1>7. \A i \in 1..Len(more) : more[i].ids # <<>>
  <2> SUFFICES ASSUME NEW i \in 1..Len(more) PROVE more[i].ids # <<>>
    OBVIOUS
  <2>1. CASE i \in 1..Len(files)
    BY <1>3, <2>1 DEF FilesInv
  <2>2. CASE i = Len(files) + 1
    BY <1>2, <1>3, <2>2
  <2>3. i \in 1..Len(files) \/ i = Len(files) + 1
    BY <1>3
  <2> QED BY <2>1, <2>2, <2>3
<1>8. Numbered(g, more)
  <2> SUFFICES ASSUME NEW q \in Phase, NEW i \in 1..Len(PhaseFiles(more, q))
               PROVE  PhaseFiles(more, q)[i].path = <<g, q, i>>
    BY DEF Numbered
  <2>1. \A j \in 1..Len(PhaseFiles(files, q)) : PhaseFiles(files, q)[j].path = <<g, q, j>>
    BY DEF FilesInv, Numbered
  <2>2. CASE q # p
    BY <1>4, <2>1, <2>2
  <2>3. CASE q = p
    <3> DEFINE a == PhaseFiles(files, p)
    <3>1. a \in Seq(FileEntry) /\ n = Len(a) + 1 /\ PhaseFiles(more, q) = Append(a, e)
      BY <1>1, <1>4, <2>3
    <3> HIDE DEF a, n
    <3>2. /\ Len(a) \in Nat /\ Len(Append(a, e)) = Len(a) + 1 /\ Append(a, e)[Len(a) + 1] = e
          /\ \A j \in 1..Len(a) : Append(a, e)[j] = a[j]
      BY <1>2, <3>1, AppendFacts
    <3>3. i \in 1..Len(a) \/ i = Len(a) + 1
      BY <3>1, <3>2
    <3>4. CASE i \in 1..Len(a)
      BY <2>1, <2>3, <3>1, <3>2, <3>4 DEF a
    <3>5. CASE i = Len(a) + 1
      BY <1>2, <2>3, <3>1, <3>2, <3>5
    <3> QED BY <3>3, <3>4, <3>5
  <2> QED BY <2>2, <2>3
<1>9. p = "nodes" => PhaseFiles(more, "edges") = <<>>
  BY <1>4 DEF Phase
<1> QED BY <1>0, <1>2, <1>3, <1>5, <1>6, <1>7, <1>8, <1>9, Zenon DEF FilesInv, FileAdded

\* The shard that was published enters the checkpoint.
Extends(m, k, e, seen) ==
    /\ m.graphs = k.graphs /\ m.current # None
    /\ m.current.count = k.current.count /\ m.current.phase = k.current.phase
    /\ e \in FileEntry /\ m.current.files = Append(k.current.files, e) /\ m.current.files # <<>>
    /\ Records(m.current.files, m.current.phase) = seen
    /\ Committed(m) = Committed(k) \cup {e}

Committing(m, k, e, ids, seen, db, changed) ==
    /\ CheckpointInv(k, db, changed) /\ k.current # None /\ k.current.count # None
    /\ ids \in Seq(ID) /\ ids # <<>> /\ seen = Records(k.current.files, k.current.phase) \o ids
    /\ Ascending(seen) /\ (changed = 0 => Range(seen) \subseteq db[Len(k.graphs) + 1][k.current.phase])
    /\ Len(seen) <= k.current.count[k.current.phase]
    /\ e = [path |-> NextPath(k), ids |-> ids]
    /\ m = [k EXCEPT !.current.files = Append(@, e), !.current.last = CursorOf(seen)]

\* The commit of a shard (onCommit) keeps what holds of a checkpoint and adds one file.
LEMMA CommitShard ==
    ASSUME Counting, NEW m, NEW k, NEW e, NEW ids, NEW seen, NEW db, NEW changed, Committing(m, k, e, ids, seen, db, changed)
    PROVE  CheckpointInv(m, db, changed) /\ Extends(m, k, e, seen)
<1>a. /\ CheckpointInv(k, db, changed) /\ k.current # None /\ k.current.count # None
      /\ ids \in Seq(ID) /\ ids # <<>> /\ seen = Records(k.current.files, k.current.phase) \o ids
      /\ Ascending(seen) /\ (changed = 0 => Range(seen) \subseteq db[Len(k.graphs) + 1][k.current.phase])
      /\ Len(seen) <= k.current.count[k.current.phase]
  BY DEF Committing
<1>b. e = [path |-> NextPath(k), ids |-> ids]
  BY DEF Committing
<1>c. m = [k EXCEPT !.current.files = Append(@, e), !.current.last = CursorOf(seen)]
  BY Zenon DEF Committing
<1> DEFINE c == k.current
           g == Len(k.graphs) + 1
           d == [c EXCEPT !.files = Append(@, e), !.last = CursorOf(seen)]
           p == c.phase
<1>1. /\ k \in Checkpoint /\ c \in CurrentGraph /\ Len(k.graphs) < Len(db) /\ CurrentInv(g, c, db, changed)
  BY <1>a DEF CheckpointInv, Checkpoint
<1>2. /\ g \in Nat /\ c.files \in Seq(FileEntry) /\ p \in Phase /\ c.count \in [Phase -> Nat]
      /\ DOMAIN k.graphs = 1..Len(k.graphs) /\ Len(k.graphs) \in Nat
  <2>1. /\ Len(k.graphs) \in Nat /\ DOMAIN k.graphs = 1..Len(k.graphs)
        /\ c.files \in Seq(FileEntry) /\ p \in Phase /\ c.count \in [Phase -> Nat] \cup {None}
    BY <1>1, <1>a, CheckpointParts, Zenon
  <2>2. c.count # None
    BY <1>a
  <2> HIDE DEF c, p
  <2> QED BY <2>1, <2>2
<1>3. e = [path |-> <<g, p, Len(PhaseFiles(c.files, p)) + 1>>, ids |-> ids]
  BY <1>b DEF NextPath
<1>4. FilesInv(g, c.files) /\ RecordsInv(c.files, db[g], changed) /\ (p = "nodes" => PhaseFiles(c.files, "edges") = <<>>)
  BY <1>1 DEF CurrentInv
<1> DEFINE more == Append(c.files, e)
<1>0. more = Append(c.files, e)
  OBVIOUS
<1> HIDE DEF c, g, p, more
<1>5. /\ e \in FileEntry /\ more \in Seq(FileEntry) /\ FilesInv(g, more)
      /\ p = "nodes" => PhaseFiles(more, "edges") = <<>>
      /\ Records(more, p) = Records(c.files, p) \o ids
      /\ \A q \in Phase : q # p => Records(more, q) = Records(c.files, q)
  <2>1. g \in Nat /\ c.files \in Seq(FileEntry) /\ p \in Phase /\ ids \in Seq(ID) /\ ids # <<>>
    BY <1>2, <1>a
  <2>2. FileAdded(g, c.files, p, ids, e, more)
    BY <1>0, <1>3, <1>4, <2>1, FilesAppend, Zenon
  <2> QED BY <2>2, Zenon DEF FileAdded
<1>6. Records(more, p) = seen
  BY <1>5, <1>a DEF c, p
<1>7. seen \in Seq(ID) /\ CursorOf(seen) \in ID \cup {None}
  <2>1. seen \in Seq(ID)
    BY <1>2, <1>5, <1>6, RecordsType
  <2>2. seen # <<>> => seen[Len(seen)] \in ID
    BY <2>1
  <2> QED BY <2>1, <2>2 DEF CursorOf
<1> HIDE DEF more
<1>8. /\ d \in CurrentGraph /\ d.files = more /\ d.last = CursorOf(seen) /\ d.phase = p /\ d.count = c.count
  <2>1. d = [c EXCEPT !.files = more, !.last = CursorOf(seen)]
    BY <1>1 DEF CurrentGraph, more
  <2> HIDE DEF d
  <2> QED BY <1>1, <1>5, <1>7, <2>1, ZenonT(30) DEF CurrentGraph, p
<1>9. m = [k EXCEPT !.current = d]
  BY <1>1, <1>c, ZenonT(30) DEF Checkpoint, CurrentGraph, c
<1> HIDE DEF d
<1>10. m \in Checkpoint /\ m.graphs = k.graphs /\ m.current = d
  BY <1>1, <1>8, <1>9 DEF Checkpoint
<1>11. d # None
  BY <1>8, DumpAssumption
<1>12. RecordsInv(more, db[g], changed)
  BY <1>4, <1>5, <1>6, <1>a, ZenonT(30) DEF RecordsInv, g, p, c
<1>13. \A q \in Phase : Total(more, q) <= c.count[q]
  BY <1>1, <1>2, <1>5, <1>6, <1>a, ZenonT(30) DEF CurrentInv, Total, p, c
<1>14. p = "edges" => Total(more, "nodes") = c.count["nodes"]
  BY <1>1, <1>2, <1>5, <1>a DEF CurrentInv, Total, p, c, Phase
<1>15. CurrentInv(g, d, db, changed)
  <2>1. d.last = CursorOf(Records(d.files, d.phase)) /\ d.count # None
    BY <1>6, <1>8, <1>a, ZenonT(30) DEF c
  <2>2. p = "nodes" => Records(more, "edges") = <<>>
    BY <1>1, <1>5 DEF CurrentInv, p, c, Phase
  <2> QED BY <1>5, <1>8, <1>12, <1>13, <1>14, <2>1, <2>2 DEF CurrentInv
<1>16. CheckpointInv(m, db, changed)
  BY <1>1, <1>10, <1>15, <1>a DEF CheckpointInv, g
<1>17. Committed(m) = Committed(k) \cup {e}
  <2>1. Range(more) = Range(c.files) \cup {e}
    BY <1>2, <1>5, RangeAppend, SMTT(30) DEF more
  <2> QED BY <1>8, <1>10, <1>11, <1>a, <2>1 DEF Committed, c
<1>18. more # <<>>
  <2>1. Len(more) = Len(c.files) + 1 /\ Len(c.files) \in Nat
    BY <1>0, <1>2, <1>5, AppendFacts
  <2> QED BY <2>1
<1> QED BY <1>5, <1>6, <1>8, <1>10, <1>11, <1>16, <1>17, <1>18, ZenonT(30) DEF c, p, more, Extends

\* What precedes the rest of a batch.
LEMMA PrefixOf ==
    ASSUME NEW s \in Seq(ID), NEW t \in Seq(ID), Ascending(s \o t)
    PROVE  Ascending(s) /\ Range(s) \subseteq Range(s \o t)
<1>1. Range(s) \subseteq Range(s \o t)
  BY RangeConcat
<1>2. /\ Len(s) \in Nat /\ Len(t) \in Nat /\ Len(s \o t) = Len(s) + Len(t)
      /\ \A i \in 1..Len(s) : (s \o t)[i] = s[i]
  BY ConcatFacts
<1>3. Ascending(s)
  <2>1. \A i, j \in 1..Len(s) : i < j => (s \o t)[i] < (s \o t)[j]
    BY <1>2 DEF Ascending
  <2> QED BY <1>2, <2>1 DEF Ascending
<1> QED BY <1>1, <1>3

\* The nodes are done: the relationships are next.
SwitchesPhase(m, k) ==
    /\ m.graphs = k.graphs /\ m.current # None /\ m.current.count = k.current.count
    /\ m.current.files = k.current.files /\ m.current.phase = "edges" /\ Committed(m) = Committed(k)
    /\ Records(m.current.files, "edges") = <<>>

\* Going over from the nodes to the relationships keeps what holds of a checkpoint.
LEMMA SwitchPhase ==
    ASSUME NEW k, NEW db, NEW changed, CheckpointInv(k, db, changed), k.current # None, k.current.count # None,
           k.current.phase = "nodes", Total(k.current.files, "nodes") = k.current.count["nodes"],
           NEW m, m = [k EXCEPT !.current.phase = "edges", !.current.last = None]
    PROVE  CheckpointInv(m, db, changed) /\ SwitchesPhase(m, k)
<1> DEFINE c == k.current
           d == [c EXCEPT !.phase = "edges", !.last = None]
<1>1. /\ k \in Checkpoint /\ c \in CurrentGraph /\ Len(k.graphs) < Len(db)
      /\ CurrentInv(Len(k.graphs) + 1, c, db, changed)
  BY DEF CheckpointInv, Checkpoint
<1>2. /\ d \in CurrentGraph /\ d.files = c.files /\ d.phase = "edges" /\ d.last = None /\ d.count = c.count
  BY <1>1, ZenonT(30) DEF CurrentGraph, Phase
<1>3. m = [k EXCEPT !.current = d]
  BY <1>1, ZenonT(30) DEF Checkpoint, CurrentGraph
<1> HIDE DEF d
<1>4. m \in Checkpoint /\ m.graphs = k.graphs /\ m.current = d
  BY <1>1, <1>2, <1>3, ZenonT(30) DEF Checkpoint
<1>5. d # None
  BY <1>2, DumpAssumption
<1>6. Records(c.files, "edges") = <<>>
  BY <1>1 DEF CurrentInv
<1>7. CurrentInv(Len(k.graphs) + 1, d, db, changed)
  BY <1>1, <1>2, <1>6 DEF CurrentInv, CursorOf
<1>8. Committed(m) = Committed(k)
  BY <1>2, <1>4, <1>5 DEF Committed
<1>9. CheckpointInv(m, db, changed)
  BY <1>1, <1>4, <1>7 DEF CheckpointInv
<1> QED BY <1>2, <1>4, <1>5, <1>6, <1>8, <1>9, Zenon DEF SwitchesPhase

\* The graph is complete: it enters the list of the graphs.
Completes(m, k) ==
    /\ m.current = None /\ Len(m.graphs) = Len(k.graphs) + 1 /\ Committed(m) = Committed(k)
    /\ \A g \in 1..Len(k.graphs) : m.graphs[g] = k.graphs[g]
    /\ m.graphs[Len(k.graphs) + 1].count = k.current.count

\* A graph with all its records enters the list of graphs, and no file is lost.
LEMMA CompleteGraph ==
    ASSUME NEW k, NEW db, NEW changed, CheckpointInv(k, db, changed), k.current # None, k.current.count # None,
           Len(db) \in Nat, \A p \in Phase : Total(k.current.files, p) = k.current.count[p],
           NEW seen \in [Phase -> Seq(ID)], NEW entry,
           entry = [count |-> k.current.count, files |-> k.current.files, metrics |-> seen],
           NEW m, m = [graphs |-> Append(k.graphs, entry), current |-> None]
    PROVE  CheckpointInv(m, db, changed) /\ Completes(m, k)
<1> DEFINE c == k.current
           n == Len(k.graphs)
           more == Append(k.graphs, entry)
<1>1. /\ k \in Checkpoint /\ n < Len(db) /\ CurrentInv(n + 1, c, db, changed)
      /\ \A g \in 1..n : GraphInv(g, k.graphs[g], db, changed)
  BY DEF CheckpointInv
<1>2. /\ k.graphs \in Seq(GraphEntry) /\ n \in Nat /\ DOMAIN k.graphs = 1..n /\ c.files \in Seq(FileEntry)
      /\ c.count \in [Phase -> Nat]
  BY <1>1, CheckpointParts
<1> HIDE DEF c, n
<1>3. /\ entry \in GraphEntry /\ entry.count = c.count /\ entry.files = c.files
  BY <1>2 DEF GraphEntry, c
<1>4. GraphInv(n + 1, entry, db, changed)
  BY <1>1, <1>3 DEF GraphInv, CurrentInv, c
<1>5. /\ more \in Seq(GraphEntry) /\ Len(more) = n + 1 /\ more[n + 1] = entry /\ \A g \in 1..n : more[g] = k.graphs[g]
  <2>1. k.graphs \in Seq(GraphEntry) /\ entry \in GraphEntry
    BY <1>2, <1>3
  <2>2. /\ Append(k.graphs, entry) \in Seq(GraphEntry) /\ Len(Append(k.graphs, entry)) = Len(k.graphs) + 1
        /\ Append(k.graphs, entry)[Len(k.graphs) + 1] = entry
        /\ \A g \in 1..Len(k.graphs) : Append(k.graphs, entry)[g] = k.graphs[g]
    BY <2>1
  <2> QED BY <2>2, Zenon DEF n
<1>6. m.graphs = more /\ m.current = None
  OBVIOUS
<1> HIDE DEF more
<1>7. m \in Checkpoint
  <2>1. m = [graphs |-> more, current |-> None]
    BY DEF more
  <2>2. more \in Seq(GraphEntry)
    BY <1>5
  <2>3. \A s \in Seq(GraphEntry) : [graphs |-> s, current |-> None] \in Checkpoint
    BY Zenon DEF Checkpoint
  <2> QED BY <2>1, <2>2, <2>3, Zenon
<1>8. \A g \in 1..(n + 1) : g \in 1..n \/ g = n + 1
  BY <1>2
<1>9. \A g \in 1..Len(m.graphs) : GraphInv(g, m.graphs[g], db, changed)
  BY <1>1, <1>4, <1>5, <1>6, <1>8
<1>10. Len(m.graphs) <= Len(db)
  <2>1. n \in Nat /\ n < Len(db) /\ Len(m.graphs) = n + 1
    BY <1>1, <1>2, <1>5, <1>6, Zenon
  <2> QED BY <2>1, NextWithin, Zenon
<1>11. CheckpointInv(m, db, changed)
  BY <1>6, <1>7, <1>9, <1>10 DEF CheckpointInv
<1>12. Committed(m) = Committed(k)
  <2>1. DOMAIN m.graphs = 1..Len(m.graphs)
    BY <1>7, CheckpointParts
  <2>2. ASSUME NEW f PROVE f \in Committed(m) <=> f \in Committed(k)
    <3>1. f \in Committed(m) <=> \E g \in 1..(n + 1) : f \in Range(more[g].files)
      BY <1>5, <1>6, <2>1, CommittedFiles, ZenonT(30)
    <3>2. f \in Committed(k) <=> \/ \E g \in 1..n : f \in Range(k.graphs[g].files)
                                 \/ f \in Range(c.files)
      BY <1>2, CommittedFiles DEF c, n
    <3>3. (\E g \in 1..(n + 1) : f \in Range(more[g].files)) <=>
             \/ \E g \in 1..n : f \in Range(more[g].files)
             \/ f \in Range(more[n + 1].files)
      <4>1. n + 1 \in 1..(n + 1) /\ \A g \in 1..n : g \in 1..(n + 1)
        BY <1>2
      <4> QED BY <1>8, <4>1, Zenon
    <3>4. more[n + 1].files = c.files /\ \A g \in 1..n : more[g].files = k.graphs[g].files
      BY <1>3, <1>5, Zenon
    <3> QED BY <3>1, <3>2, <3>3, <3>4, Zenon
  <2> QED BY <2>2, ZenonT(30)
<1> QED BY <1>3, <1>5, <1>6, <1>11, <1>12, Zenon DEF Completes, n, c

\* A checkpoint without a graph names nothing.
LEMMA NothingCommitted ==
    ASSUME NEW db, Len(db) \in Nat, NEW changed
    PROVE  CheckpointInv(NoCheckpoint, db, changed) /\ Committed(NoCheckpoint) = {}
<1>1. NoCheckpoint.graphs = <<>> /\ NoCheckpoint.current = None /\ Len(<<>>) = 0 /\ DOMAIN <<>> = {}
  BY DEF NoCheckpoint
<1>2. NoCheckpoint \in Checkpoint
  <2>1. <<>> \in Seq(GraphEntry)
    OBVIOUS
  <2>2. \A s \in Seq(GraphEntry) : [graphs |-> s, current |-> None] \in Checkpoint
    BY Zenon DEF Checkpoint
  <2> QED BY <2>1, <2>2, Zenon DEF NoCheckpoint
<1>3. CheckpointInv(NoCheckpoint, db, changed)
  BY <1>1, <1>2 DEF CheckpointInv
<1>4. \A f : f \notin Committed(NoCheckpoint)
  <2>1. DOMAIN NoCheckpoint.graphs = 1..Len(NoCheckpoint.graphs) /\ 1..Len(NoCheckpoint.graphs) = {}
    BY <1>1
  <2> QED BY <1>1, <2>1, CommittedFiles
<1> QED BY <1>3, <1>4

-----------------------------------------------------------------------------
(* The invariant of the dump: memory, the scan and the disk.               *)

\* Where the process is, or will be once the checkpoint is saved.
Saving == pc \in {"save", "rename"}
Place == IF Saving THEN then ELSE pc
InScan == {"scan", "handle", "publish", "sidecar", "commit"}
InGraph == InScan \cup {"restore", "complete"}
AtEnd == {"manifest", "publishManifest", "removeCheckpoint", "done"}

TypeInv ==
    /\ source \in Seq([Phase -> SUBSET ID]) /\ changes \in Nat
    /\ pc \in {"down", "graph", "count", "save", "rename"} \cup InGraph \cup AtEnd
    /\ Saving => then \in {"graph", "restore", "handle", "scan"}

\* The checkpoint on disk has counts, and satisfies the above.
SavedInv == saved # None => CheckpointInv(saved, source, changes) /\ (saved.current # None => saved.current.count # None)

\* The checkpoint in memory satisfies it too, and its counts are those of the
\* database once they have been compared.
MemInv ==
    pc # "down" =>
        /\ CheckpointInv(mem, source, changes)
        /\ \A g \in 1..Len(mem.graphs) : mem.graphs[g].count = Count(g)
        /\ Place \in InGraph => mem.current # None /\ mem.current.count = Count(Len(mem.graphs) + 1)
        /\ Place = "count" => mem.current # None
        /\ Place \in AtEnd => Len(mem.graphs) = Len(source) /\ mem.current = None
        /\ Saving /\ then = "graph" => mem.current = None

\* The scan: what was read of the phase follows what is committed.
Seen == Records(mem.current.files, mem.current.phase) \o writer

ScanInv ==
    /\ writer \in Seq(ID) /\ cursor \in Seq(ID) /\ observed \in [Phase -> Seq(ID)]
    /\ Place \notin {"handle", "publish", "sidecar", "commit"} => cursor = <<>>
    /\ Place \notin InScan => writer = <<>>
    /\ Saving => writer = <<>>
    /\ pc \in {"publish", "sidecar", "commit"} => writer # <<>>
    /\ Place \in InScan =>
          /\ processed = Len(Seen) /\ last = CursorOf(Seen)
          /\ processed + Len(cursor) <= mem.current.count[mem.current.phase]
          /\ Ascending(Seen \o cursor)
          /\ changes = 0 => Range(Seen \o cursor) \subseteq source[Len(mem.graphs) + 1][mem.current.phase]

\* Memory and disk: the checkpoint on disk names the same files, or all but the
\* last one, which was published under the number that is next.
SavedRel ==
    /\ pc \in {"graph", "manifest", "publishManifest"} \cup InGraph => saved = mem
    /\ pc \in {"removeCheckpoint", "done"} => saved \in {None, mem}
    /\ pc = "count" => /\ saved = None \/ Committed(saved) = Committed(mem)
                       /\ mem.current.count # None => saved = mem
    /\ Saving /\ then # "handle" => saved = None \/ Committed(saved) = Committed(mem)
    /\ Saving /\ then = "handle" /\ saved # None =>
          /\ saved.current # None
          /\ mem.current.files # <<>>
          /\ \E e \in FileEntry :
                /\ e.path = NextPath(saved)
                /\ mem.current.files = Append(saved.current.files, e)
                /\ Committed(mem) = Committed(saved) \cup {e}

\* Some files are published, with their sidecars.
Published(files, fragments, sidecars) ==
    \A f \in files : /\ f.path \in DOMAIN fragments /\ fragments[f.path] = f.ids
                     /\ Parquet => f.path \in sidecars
Paths(files) == {f.path : f \in files}
TempsOf(paths) == (UNION {Staged(p) : p \in paths}) \cup {CheckpointTemp, ManifestTempFile}

\* While the dump runs, the files of the checkpoint in memory are on disk, and
\* nothing else but the open shard.
RunDisk ==
    pc # "down" =>
        /\ Published(Committed(mem), jsonl, parquet)
        /\ DOMAIN jsonl \subseteq Paths(Committed(mem)) \cup (IF pc \in {"sidecar", "commit"} THEN {Shard} ELSE {})
        /\ parquet \subseteq Paths(Committed(mem)) \cup IF pc = "commit" THEN {Shard} ELSE {}
        /\ pc \in {"sidecar", "commit"} => Shard \in DOMAIN jsonl /\ jsonl[Shard] = writer
        /\ (pc = "sidecar" => Parquet) /\ (pc = "commit" /\ Parquet => Shard \in parquet)
        /\ temps \subseteq TempsOf({}) \cup
              IF pc \in {"scan", "handle", "publish"} /\ writer # <<>> THEN Staged(Shard)
              ELSE IF pc = "sidecar" THEN {<<"parquet", Shard>>} ELSE {}

\* The files of the checkpoint on disk are there, and nothing else but what the
\* next dump removes.
SavedDisk ==
    /\ ~Parquet => parquet = {}
    /\ saved # None =>
        /\ Published(Committed(saved), jsonl, parquet)
        /\ DOMAIN jsonl \subseteq Paths(Committed(saved)) \cup Left(saved)
        /\ parquet \subseteq Paths(Committed(saved)) \cup Left(saved)
        /\ temps \subseteq TempsOf(Left(saved))

\* A manifest is the checkpoint of a dump whose graphs are all complete.
Completed == [graphs |-> manifest, current |-> None]
ManifestInv ==
    manifest # None =>
        /\ pc \in {"down", "removeCheckpoint", "done"}
        /\ pc # "down" => manifest = mem.graphs
        /\ CheckpointInv(Completed, source, changes) /\ Len(manifest) = Len(source)
        /\ \A g \in 1..Len(manifest) : manifest[g].count = Count(g)
        /\ Published(Committed(Completed), jsonl, parquet)

DumpInv == TypeInv /\ SavedInv /\ MemInv /\ ScanInv /\ SavedRel /\ RunDisk /\ SavedDisk /\ ManifestInv

-----------------------------------------------------------------------------
(* The counts.                                                             *)

\* A record set of the database has a number of records.
LEMMA CountType ==
    ASSUME Counting, source \in Seq([Phase -> SUBSET ID]), NEW g \in 1..Len(source)
    PROVE  Count(g) \in [Phase -> Nat] /\ Count(g) # None
<1>1. \A p \in Phase : source[g][p] \in SUBSET ID
  OBVIOUS
<1>2. \A p \in Phase : Cardinality(source[g][p]) \in Nat
  BY <1>1 DEF Counting
<1>3. Count(g) \in [Phase -> Nat]
  BY <1>2 DEF Count
<1> QED BY <1>3, DumpAssumption

-----------------------------------------------------------------------------
(* The steps up to the end of a batch, and the end of the process.         *)

\* The process ends: memory is gone, and what is on disk stands for itself.
LEMMA GoesDown ==
    ASSUME DumpInv, Down, UNCHANGED <<source, saved, manifest, changes>>, SavedDisk',
           manifest # None => jsonl' = jsonl /\ parquet' = parquet
    PROVE  DumpInv'
<1>1. TypeInv'
  BY DEF DumpInv, TypeInv, Down, Saving
<1>2. SavedInv'
  BY DEF DumpInv, SavedInv
<1>3. MemInv' /\ SavedRel' /\ RunDisk'
  BY DEF Down, MemInv, SavedRel, RunDisk, Saving, InGraph, InScan
<1>4. ScanInv'
  <2>1. <<>> \in Seq(ID)
    OBVIOUS
  <2>2. Unobserved \in [Phase -> Seq(ID)]
    BY <2>1, Zenon DEF Unobserved
  <2> QED BY <2>1, <2>2 DEF Down, ScanInv, Place, Saving, InScan
<1>5. ManifestInv'
  BY DEF DumpInv, ManifestInv, Down, Count, Completed
<1> QED BY <1>1, <1>2, <1>3, <1>4, <1>5 DEF DumpInv

\* The process dies.
LEMMA CrashKeeps == ASSUME DumpInv, Crash PROVE DumpInv'
<1>1. SavedDisk'
  BY DEF DumpInv, Crash, SavedDisk, disk
<1> QED BY <1>1, GoesDown DEF Crash, disk

\* The checkpoint is written to its temporary file.
LEMMA SaveTempKeeps == ASSUME DumpInv, SaveTemp PROVE DumpInv'
<1> USE DEF SaveTemp, Goto
<1>1. TypeInv'
  BY DEF DumpInv, TypeInv, Saving
<1>2. SavedInv'
  BY DEF DumpInv, SavedInv
<1>3. MemInv'
  BY DEF DumpInv, MemInv, Place, Saving, Count
<1>4. ScanInv'
  BY DEF DumpInv, ScanInv, scan, Place, Saving, Seen
<1>5. SavedRel'
  BY DEF DumpInv, SavedRel, Saving, InGraph, InScan
<1>6. RunDisk'
  BY DEF DumpInv, RunDisk, Shard, TempsOf
<1>7. SavedDisk'
  BY DEF DumpInv, SavedDisk, TempsOf
<1>8. ManifestInv'
  BY DEF DumpInv, ManifestInv, Count, Completed
<1> QED BY <1>1, <1>2, <1>3, <1>4, <1>5, <1>6, <1>7, <1>8 DEF DumpInv

\* The temporary file replaces the checkpoint on disk, which then is the one in memory.
LEMMA SaveRenameKeeps == ASSUME Counting, DumpInv, SaveRename PROVE DumpInv'
<1> USE DEF SaveRename, Goto
<1>1. /\ pc # "down" /\ Saving /\ Place = then /\ pc' = then /\ then' = then
      /\ then \in {"graph", "restore", "handle", "scan"}
      /\ UNCHANGED <<source, changes, mem, manifest, jsonl, parquet>> /\ UNCHANGED scan
  BY DEF DumpInv, TypeInv, Saving, Place
<1>2. TypeInv'
  BY <1>1 DEF DumpInv, TypeInv, Saving, InGraph, InScan
<1>3. CheckpointInv(mem, source, changes)
  BY <1>1 DEF DumpInv, MemInv
<1>4. mem.current # None => mem.current.count # None
  <2>1. then \in InGraph \/ then = "graph"
    BY <1>1 DEF InGraph, InScan
  <2>2. mem.current # None => mem.current.count = Count(Len(mem.graphs) + 1)
    BY <1>1, <2>1 DEF DumpInv, MemInv
  <2>3. mem.current # None => Count(Len(mem.graphs) + 1) # None
    BY <1>3, CountType DEF DumpInv, TypeInv, CheckpointInv, Checkpoint
  <2> QED BY <2>2, <2>3
<1>5. SavedInv'
  BY <1>1, <1>3, <1>4 DEF SavedInv
<1>6. MemInv'
  <2>1. Place' = then /\ ~Saving' /\ \A g : Count(g)' = Count(g)
    BY <1>1 DEF Place, Saving, Count
  <2>2. MemInv
    BY DEF DumpInv
  <2> QED BY <1>1, <2>1, <2>2 DEF MemInv
<1>7. ScanInv'
  BY <1>1 DEF DumpInv, ScanInv, scan, Place, Saving, Seen, InScan
<1>8. SavedRel'
  BY <1>1 DEF SavedRel, Saving, InGraph, InScan
<1>9. RunDisk'
  BY <1>1 DEF DumpInv, RunDisk, Shard, TempsOf
<1>10. SavedDisk'
  BY <1>1, <1>3 DEF DumpInv, SavedDisk, RunDisk, TempsOf
<1>11. ManifestInv'
  BY <1>1 DEF DumpInv, ManifestInv, Saving
<1> QED BY <1>2, <1>5, <1>6, <1>7, <1>8, <1>9, <1>10, <1>11 DEF DumpInv

\* The next graph is begun, continued from the checkpoint, or there is none left.
LEMMA NextGraphKeeps == ASSUME Counting, DumpInv, NextGraph PROVE DumpInv'
<1> USE DEF NextGraph, Goto
<1>1. /\ pc = "graph" /\ pc' \in {"manifest", "count"} /\ then' = then /\ saved = mem
      /\ UNCHANGED <<source, changes>> /\ UNCHANGED disk /\ UNCHANGED scan
      /\ CheckpointInv(mem, source, changes) /\ Len(source) \in Nat
  BY DEF DumpInv, TypeInv, MemInv, SavedRel
<1>2. TypeInv' /\ SavedInv' /\ SavedDisk'
  BY <1>1 DEF DumpInv, TypeInv, SavedInv, SavedDisk, Saving, InGraph, InScan, AtEnd, disk
<1>3. ScanInv'
  BY <1>1 DEF DumpInv, ScanInv, scan, Place, Saving, InScan
<1>4. ManifestInv'
  BY <1>1 DEF DumpInv, ManifestInv, disk
<1>5. CASE Len(mem.graphs) = Len(source) \/ mem.current # None
  <2>0. mem' = mem
    BY <1>5 DEF Current
  <2>1. pc' = "manifest" => Len(mem.graphs) = Len(source)
    BY <1>1
  <2>2. mem.current # None => Len(mem.graphs) < Len(source) /\ Len(mem.graphs) \in Nat
    BY <1>1, CheckpointParts DEF CheckpointInv
  <2>3. pc' = "manifest" => mem.current = None
    BY <1>1, <2>1, <2>2
  <2>4. pc' = "count" => mem.current # None
    BY <1>1, <1>5
  <2>5. MemInv'
    BY <1>1, <2>0, <2>1, <2>3, <2>4 DEF DumpInv, MemInv, Place, Saving, Count, InGraph, InScan, AtEnd
  <2>6. SavedRel'
    BY <1>1, <2>0 DEF SavedRel, Saving, disk, InGraph, InScan
  <2>7. RunDisk'
    BY <1>1, <2>0 DEF DumpInv, RunDisk, disk
  <2> QED BY <1>2, <1>3, <1>4, <2>5, <2>6, <2>7 DEF DumpInv
<1>6. CASE Len(mem.graphs) # Len(source) /\ mem.current = None
  <2> DEFINE c == [count |-> None, phase |-> "nodes", last |-> None, files |-> <<>>]
  <2>1. /\ Len(mem.graphs) # Len(source) /\ mem.current = None /\ pc' = "count"
        /\ mem' = [mem EXCEPT !.current = c]
    BY <1>6 DEF Current
  <2> HIDE DEF c
  <2>2. CheckpointInv(mem', source', changes') /\ Committed(mem') = Committed(mem)
    BY <1>1, <2>1, BeginGraph, Zenon DEF c
  <2>3. mem \in Checkpoint
    BY <1>1 DEF CheckpointInv
  <2>4. mem'.graphs = mem.graphs /\ mem'.current = c
    BY <2>1, <2>3 DEF Checkpoint
  <2>5. c # None /\ c.count = None
    <3>1. mem' \in Checkpoint
      BY <2>2 DEF CheckpointInv
    <3>2. <<>> \in Seq(FileEntry)
      OBVIOUS
    <3>3. c \in CurrentGraph
      BY <3>2 DEF c, CurrentGraph, Phase
    <3> QED BY <3>3, DumpAssumption DEF c
  <2>6. MemInv'
    BY <1>1, <2>1, <2>2, <2>4, <2>5 DEF DumpInv, MemInv, Place, Saving, Count, InGraph, InScan, AtEnd
  <2>7. SavedRel'
    BY <1>1, <2>1, <2>2, <2>4, <2>5 DEF SavedRel, Saving, disk, InGraph, InScan
  <2>8. RunDisk'
    BY <1>1, <2>1, <2>2 DEF DumpInv, RunDisk, disk
  <2> QED BY <1>2, <1>3, <1>4, <2>6, <2>7, <2>8 DEF DumpInv
<1> QED BY <1>5, <1>6

\* The records of the graph are counted, or compared with the counts of the checkpoint.
LEMMA CountGraphKeeps == ASSUME Counting, DumpInv, CountGraph PROVE DumpInv'
<1> USE DEF CountGraph, Goto, Save
<1>1. /\ pc = "count" /\ mem.current # None /\ CheckpointInv(mem, source, changes)
      /\ UNCHANGED <<source, changes>> /\ UNCHANGED disk
      /\ Len(mem.graphs) + 1 \in 1..Len(source) /\ mem \in Checkpoint
  <2>1. pc = "count" /\ mem.current # None /\ CheckpointInv(mem, source, changes)
    BY DEF DumpInv, MemInv, Place, Saving
  <2>2. Len(mem.graphs) < Len(source) /\ mem \in Checkpoint /\ Len(source) \in Nat
    BY <2>1 DEF CheckpointInv, DumpInv, TypeInv
  <2>3. Len(mem.graphs) \in Nat
    BY <2>2, CheckpointParts
  <2> QED BY <2>1, <2>2, <2>3
<1>2. Count(Len(mem.graphs) + 1) \in [Phase -> Nat]
  BY <1>1, CountType DEF DumpInv, TypeInv
<1>3. SavedInv' /\ SavedDisk'
  BY <1>1 DEF DumpInv, SavedInv, SavedDisk, disk
<1>4. ManifestInv'
  BY <1>1 DEF DumpInv, ManifestInv, disk
<1>5. CASE Down
  BY <1>1, <1>3, <1>5, GoesDown DEF disk
<1>6. CASE Current.count = None /\ mem' = [mem EXCEPT !.current.count = Count(Index)] /\ Save("restore") /\ UNCHANGED scan
  <2> DEFINE n == Count(Len(mem.graphs) + 1)
  <2>1. /\ mem.current.count = None /\ mem' = [mem EXCEPT !.current.count = n]
        /\ pc' = "save" /\ then' = "restore" /\ UNCHANGED scan
    BY <1>6 DEF Current, Index
  <2> HIDE DEF n
  <2>2. CheckpointInv(mem', source', changes') /\ Committed(mem') = Committed(mem)
    BY <1>1, <1>2, <2>1, SetCount, ZenonT(30) DEF n
  <2>3. mem'.graphs = mem.graphs /\ mem'.current = [mem.current EXCEPT !.count = n] /\ mem'.current.count = n
    BY <1>1, <2>1 DEF Checkpoint, CurrentGraph
  <2>4. mem'.current # None
    BY <1>1, <1>2, <2>3, DumpAssumption, ZenonT(30) DEF Checkpoint, CurrentGraph, n
  <2>5. Count(Len(mem.graphs) + 1)' = n /\ \A g : Count(g)' = Count(g)
    BY <1>1, <2>3 DEF Count, n
  <2>6. TypeInv'
    BY <1>1, <2>1 DEF DumpInv, TypeInv, Saving
  <2>7. MemInv'
    BY <1>1, <2>1, <2>2, <2>3, <2>4, <2>5 DEF DumpInv, MemInv, Place, Saving, InGraph, InScan, AtEnd
  <2>8. ScanInv'
    BY <1>1, <2>1 DEF DumpInv, ScanInv, scan, Place, Saving, InScan
  <2>9. SavedRel'
    BY <1>1, <2>1, <2>2 DEF DumpInv, SavedRel, Saving, disk, InGraph, InScan
  <2>10. RunDisk'
    BY <1>1, <2>1, <2>2 DEF DumpInv, RunDisk, disk
  <2> QED BY <1>3, <1>4, <2>6, <2>7, <2>8, <2>9, <2>10 DEF DumpInv
<1>7. CASE Current.count # None /\ Current.count = Count(Index) /\ Goto("restore") /\ UNCHANGED <<mem, scan>>
  <2>1. /\ mem.current.count # None /\ mem.current.count = Count(Len(mem.graphs) + 1) /\ mem' = mem
        /\ pc' = "restore" /\ then' = then /\ UNCHANGED scan
    BY <1>7 DEF Current, Index
  <2>2. TypeInv'
    BY <1>1, <2>1 DEF DumpInv, TypeInv, Saving, InGraph, InScan
  <2>3. MemInv'
    BY <1>1, <2>1 DEF DumpInv, MemInv, Place, Saving, InGraph, InScan, AtEnd, Count
  <2>4. ScanInv'
    BY <1>1, <2>1 DEF DumpInv, ScanInv, scan, Place, Saving, InScan
  <2>5. SavedRel'
    BY <1>1, <2>1 DEF DumpInv, SavedRel, Saving, disk, InGraph, InScan
  <2>6. RunDisk'
    BY <1>1, <2>1 DEF DumpInv, RunDisk, disk
  <2> QED BY <1>3, <1>4, <2>2, <2>3, <2>4, <2>5, <2>6 DEF DumpInv
<1> QED BY <1>5, <1>6, <1>7

\* The graph being dumped, while it is.
LEMMA InGraphParts ==
    ASSUME Counting, DumpInv, Place \in InGraph
    PROVE  /\ pc # "down" /\ mem \in Checkpoint /\ mem.current # None /\ mem.current \in CurrentGraph
           /\ CheckpointInv(mem, source, changes)
           /\ Len(mem.graphs) \in Nat /\ Len(mem.graphs) + 1 \in 1..Len(source)
           /\ mem.current.phase \in Phase /\ mem.current.files \in Seq(FileEntry)
           /\ mem.current.count \in [Phase -> Nat] /\ mem.current.count # None
           /\ CurrentInv(Len(mem.graphs) + 1, mem.current, source, changes)
           /\ Records(mem.current.files, mem.current.phase) \in Seq(ID) /\ Seen \in Seq(ID)
<1>1. /\ pc # "down" /\ mem.current # None /\ CheckpointInv(mem, source, changes)
      /\ mem.current.count = Count(Len(mem.graphs) + 1)
  BY DEF DumpInv, TypeInv, MemInv, Place, Saving, InGraph, InScan
<1>2. /\ mem \in Checkpoint /\ mem.current \in CurrentGraph /\ Len(mem.graphs) < Len(source) /\ Len(source) \in Nat
      /\ CurrentInv(Len(mem.graphs) + 1, mem.current, source, changes)
  BY <1>1 DEF CheckpointInv, Checkpoint, DumpInv, TypeInv
<1>3. /\ Len(mem.graphs) \in Nat /\ mem.current.phase \in Phase /\ mem.current.files \in Seq(FileEntry)
  BY <1>1, <1>2, CheckpointParts
<1>4. Len(mem.graphs) + 1 \in 1..Len(source)
  BY <1>2, <1>3
<1>5. mem.current.count \in [Phase -> Nat] /\ mem.current.count # None
  BY <1>1, <1>4, CountType DEF DumpInv, TypeInv
<1>6. Records(mem.current.files, mem.current.phase) \in Seq(ID)
  BY <1>3, RecordsType
<1>7. Seen \in Seq(ID)
  BY <1>6 DEF Seen, DumpInv, ScanInv
<1> QED BY <1>1, <1>2, <1>3, <1>4, <1>5, <1>6, <1>7

\* A phase begins, or goes on after the files that are committed.
LEMMA RestoreKeeps == ASSUME Counting, DumpInv, Restore PROVE DumpInv'
<1> USE DEF Restore, Goto
<1>1. pc = "restore" /\ Place = "restore" /\ UNCHANGED <<source, changes>> /\ UNCHANGED disk
  BY DEF Place, Saving
<1>2. SavedInv' /\ SavedDisk' /\ ManifestInv'
  BY <1>1 DEF DumpInv, SavedInv, SavedDisk, disk, ManifestInv
<1>3. CASE Down
  BY <1>1, <1>2, <1>3, GoesDown DEF disk
<1>4. CASE ~Down
  <2> DEFINE ids == Records(mem.current.files, mem.current.phase)
  <2>1. /\ pc' = "scan" /\ then' = then /\ mem' = mem /\ writer' = writer /\ cursor' = cursor
        /\ observed' = Restored /\ last' = mem.current.last /\ processed' = Len(ids)
    BY <1>4 DEF Current, AlreadyProcessed, Total
  <2>2. /\ writer = <<>> /\ cursor = <<>> /\ Place \in InGraph
    BY <1>1 DEF DumpInv, ScanInv, InGraph, InScan
  <2>3. /\ mem.current.phase \in Phase /\ mem.current.files \in Seq(FileEntry) /\ ids \in Seq(ID)
        /\ CurrentInv(Len(mem.graphs) + 1, mem.current, source, changes)
        /\ mem.current.count \in [Phase -> Nat] /\ mem.current.count # None
    BY <2>2, InGraphParts
  <2>4. /\ Ascending(ids) /\ mem.current.last = CursorOf(ids) /\ Len(ids) <= mem.current.count[mem.current.phase]
        /\ changes = 0 => Range(ids) \subseteq source[Len(mem.graphs) + 1][mem.current.phase]
    BY <2>3 DEF CurrentInv, RecordsInv, Total
  <2>5. Seen' = ids /\ Seen' \o cursor' = ids
    BY <2>1, <2>2, <2>3 DEF Seen
  <2>6. observed' \in [Phase -> Seq(ID)]
    <3>1. \A p \in Phase : Records(mem.current.files, p) \in Seq(ID)
      BY <2>3, RecordsType
    <3> QED BY <2>1, <3>1 DEF Restored, Current
  <2> HIDE DEF ids
  <2>7. ScanInv'
    <3>1. Place' = "scan" /\ ~Saving'
      BY <2>1 DEF Place, Saving
    <3>2. processed' + Len(cursor') <= mem.current.count[mem.current.phase]
      BY <2>1, <2>2, <2>3, <2>4
    <3>3. writer' \in Seq(ID) /\ cursor' \in Seq(ID)
      BY <2>1 DEF DumpInv, ScanInv
    <3> QED BY <1>1, <2>1, <2>2, <2>4, <2>5, <2>6, <3>1, <3>2, <3>3 DEF ScanInv, InScan
  <2>8. TypeInv'
    BY <1>1, <2>1 DEF DumpInv, TypeInv, Saving, InGraph, InScan
  <2>9. MemInv'
    BY <1>1, <2>1 DEF DumpInv, MemInv, Place, Saving, InGraph, InScan, AtEnd, Count
  <2>10. SavedRel'
    BY <1>1, <2>1 DEF DumpInv, SavedRel, Saving, disk, InGraph, InScan
  <2>11. RunDisk'
    BY <1>1, <2>1 DEF DumpInv, RunDisk, disk
  <2> QED BY <1>2, <2>7, <2>8, <2>9, <2>10, <2>11 DEF DumpInv
<1> QED BY <1>3, <1>4

\* A step within a scan that commits nothing.
LEMMA InScanStep ==
    ASSUME DumpInv, pc \in InScan, pc' \in InScan, UNCHANGED <<source, changes, mem, saved, manifest>>
    PROVE  /\ TypeInv' /\ SavedInv' /\ MemInv' /\ SavedRel' /\ ManifestInv'
           /\ Place = pc /\ Place' = pc' /\ ~Saving /\ ~Saving' /\ Place \in InGraph
           /\ saved = mem /\ Shard' = Shard /\ (Seen = Records(mem.current.files, mem.current.phase) \o writer)
           /\ Seen' = Records(mem.current.files, mem.current.phase) \o writer'
<1>1. Place = pc /\ Place' = pc' /\ ~Saving /\ ~Saving' /\ Place \in InGraph /\ manifest = None
  BY DEF Place, Saving, InScan, InGraph, DumpInv, ManifestInv
<1>2. saved = mem /\ Shard' = Shard /\ SavedRel'
  BY <1>1 DEF DumpInv, SavedRel, Shard, InGraph, InScan
<1>3. TypeInv'
  BY <1>1 DEF DumpInv, TypeInv, InGraph, InScan
<1>4. MemInv'
  BY <1>1, SMTT(30) DEF DumpInv, MemInv, InGraph, InScan, AtEnd, Count
<1>5. SavedInv' /\ ManifestInv'
  BY <1>1 DEF DumpInv, SavedInv, ManifestInv
<1> QED BY <1>1, <1>2, <1>3, <1>4, <1>5 DEF Seen

\* A batch is read after the last ID: it ascends, and follows what was seen.
LEMMA ReadBatchKeeps == ASSUME Counting, DumpInv, ReadBatch PROVE DumpInv'
<1> DEFINE phase == mem.current.phase
           all == source[Len(mem.graphs) + 1][phase]
           rest == {i \in all : last = None \/ i > last}
           requested == Min({mem.current.count[phase] - processed, BatchSize})
<1>1. /\ pc = "scan" /\ pc' = "handle" /\ pc \in InScan /\ pc' \in InScan
      /\ UNCHANGED <<source, changes, mem, saved, manifest>> /\ UNCHANGED <<jsonl, parquet, temps>>
      /\ UNCHANGED <<writer, last, processed, observed>>
      /\ processed < mem.current.count[phase]
  BY DEF ReadBatch, Goto, InScan, disk, Current
<1>2. PICK batch \in [1..Min({requested, Cardinality(rest)}) -> rest] : Least(batch, rest) /\ cursor' = batch
  BY DEF ReadBatch, Current, Index
<1>3. /\ TypeInv' /\ SavedInv' /\ MemInv' /\ SavedRel' /\ ManifestInv'
      /\ Place = pc /\ Place' = pc' /\ ~Saving /\ ~Saving' /\ Place \in InGraph
      /\ saved = mem /\ Shard' = Shard /\ Seen' = Seen
  BY <1>1, InScanStep, Zenon
<1>4. /\ phase \in Phase /\ Seen \in Seq(ID) /\ Len(mem.graphs) + 1 \in 1..Len(source)
      /\ mem.current.count \in [Phase -> Nat]
  BY <1>3, InGraphParts
<1>5. /\ writer \in Seq(ID) /\ observed \in [Phase -> Seq(ID)] /\ cursor = <<>>
      /\ processed = Len(Seen) /\ last = CursorOf(Seen) /\ Ascending(Seen \o cursor)
      /\ changes = 0 => Range(Seen \o cursor) \subseteq all
  BY <1>1, <1>3 DEF DumpInv, ScanInv, InScan
<1>6. Seen \o cursor = Seen
  BY <1>4, <1>5, ConcatEmpty
<1>7. all \in SUBSET ID /\ rest \in SUBSET ID /\ Cardinality(rest) \in Nat
  <2>1. all \in SUBSET ID
    BY <1>4 DEF DumpInv, TypeInv
  <2>2. rest \in SUBSET ID
    BY <2>1
  <2> QED BY <2>1, <2>2 DEF Counting
<1>p. processed \in Nat /\ mem.current.count[phase] \in Nat
  <2>1. Seen \in Seq(ID) /\ processed = Len(Seen)
    BY <1>4, <1>5, Zenon
  <2>2. mem.current.count[phase] \in Nat
    BY <1>4, Zenon
  <2> QED BY <2>1, <2>2
<1>8. requested \in Nat /\ requested <= mem.current.count[phase] - processed
  <2>1. mem.current.count[phase] - processed \in Nat /\ BatchSize \in Nat
    <3>1. processed < mem.current.count[phase]
      BY <1>1, Zenon
    <3> HIDE DEF phase
    <3> QED BY <1>p, <3>1, DumpAssumption
  <2> HIDE DEF phase
  <2> QED BY <2>1, MinOfTwo
<1> DEFINE n == Min({requested, Cardinality(rest)})
<1>9. n \in Nat /\ n <= requested
  <2> HIDE DEF requested, rest
  <2> QED BY <1>7, <1>8, MinOfTwo
<1> HIDE DEF n, requested
<1>10. batch \in [1..n -> rest]
  BY <1>2 DEF n
<1> HIDE DEF rest
<1>11. batch \in Seq(ID) /\ Len(batch) = n /\ Range(batch) \subseteq rest /\ \A i \in 1..n : batch[i] \in rest
  BY <1>7, <1>9, <1>10, FunctionSeq, ZenonT(30)
<1>12. Ascending(Seen \o batch)
  <2>1. Ascending(Seen) /\ Ascending(batch)
    BY <1>2, <1>5, <1>6 DEF Least
  <2>2. Seen # <<>> => \A i \in 1..Len(batch) : Seen[Len(Seen)] < batch[i]
    <3>1. ASSUME Seen # <<>>, NEW i \in 1..Len(batch)
          PROVE  Seen[Len(Seen)] < batch[i]
      <4>1. last = Seen[Len(Seen)] /\ last \in ID
        BY <1>4, <1>5, <3>1 DEF CursorOf
      <4>2. last # None /\ last \in Nat
        BY <4>1, DumpAssumption
      <4>3. batch[i] > last /\ batch[i] \in Nat
        BY <1>7, <1>11, <4>2, DumpAssumption, ZenonT(30) DEF rest
      <4> QED BY <4>1, <4>2, <4>3
    <3> QED BY <3>1, ZenonT(30)
  <2>3. Seen \in Seq(ID) /\ batch \in Seq(ID)
    BY <1>4, <1>11
  <2> QED BY <2>1, <2>2, <2>3, AscendingConcat, Zenon
<1>13. changes = 0 => Range(Seen \o batch) \subseteq all
  <2>1. Range(Seen \o batch) = Range(Seen) \cup Range(batch) /\ rest \subseteq all
    BY <1>4, <1>11, RangeConcat DEF rest
  <2> QED BY <1>5, <1>6, <1>11, <2>1
<1>14. ScanInv'
  <2>1. processed' + Len(cursor') <= mem.current.count[phase]
    <3>1. /\ processed' = processed /\ Len(cursor') = n /\ processed \in Nat /\ mem.current.count[phase] \in Nat
          /\ n \in Nat /\ requested \in Nat /\ n <= requested /\ requested <= mem.current.count[phase] - processed
      BY <1>1, <1>2, <1>p, <1>8, <1>9, <1>11, Zenon
    <3> HIDE DEF phase
    <3> QED BY <3>1
  <2> QED BY <1>1, <1>2, <1>3, <1>5, <1>11, <1>12, <1>13, <2>1 DEF ScanInv, InScan
<1>15. RunDisk' /\ SavedDisk'
  BY <1>1, <1>3 DEF DumpInv, RunDisk, SavedDisk
<1> QED BY <1>3, <1>14, <1>15 DEF DumpInv

\* A record of the batch is written to the open shard.
LEMMA HandleKeeps == ASSUME Counting, DumpInv, Handle PROVE DumpInv'
<1> DEFINE phase == mem.current.phase
           ids == Records(mem.current.files, phase)
           h == Head(cursor)
<1>1. /\ pc = "handle" /\ pc' \in {"publish", "handle"} /\ pc \in InScan /\ pc' \in InScan
      /\ UNCHANGED <<source, changes, mem, saved, manifest>> /\ UNCHANGED <<jsonl, parquet>>
      /\ cursor # <<>> /\ cursor' = Tail(cursor) /\ writer' = Append(writer, h)
      /\ last' = h /\ processed' = processed + 1
      /\ observed' = [observed EXCEPT ![phase] = Append(@, h)]
      /\ temps' = IF writer = <<>> THEN temps \cup Staged(Shard) ELSE temps
  BY DEF Handle, Goto, InScan, Current
<1>2. /\ TypeInv' /\ SavedInv' /\ MemInv' /\ SavedRel' /\ ManifestInv'
      /\ Place = pc /\ Place' = pc' /\ ~Saving /\ ~Saving' /\ Place \in InGraph
      /\ saved = mem /\ Shard' = Shard /\ Seen = ids \o writer /\ Seen' = ids \o writer'
  BY <1>1, InScanStep, Zenon
<1>3. /\ phase \in Phase /\ ids \in Seq(ID) /\ mem.current.count \in [Phase -> Nat] /\ mem.current # None
  BY <1>2, InGraphParts
<1>4. /\ writer \in Seq(ID) /\ cursor \in Seq(ID) /\ observed \in [Phase -> Seq(ID)]
      /\ processed = Len(Seen) /\ Ascending(Seen \o cursor)
      /\ processed + Len(cursor) <= mem.current.count[phase]
      /\ changes = 0 => Range(Seen \o cursor) \subseteq source[Len(mem.graphs) + 1][phase]
  BY <1>1, <1>2, ZenonT(30) DEF DumpInv, ScanInv, InScan
<1> HIDE DEF ids, h, phase
<1>5. /\ h \in ID /\ cursor' \in Seq(ID) /\ writer' \in Seq(ID) /\ writer' # <<>>
      /\ Len(cursor') = Len(cursor) - 1 /\ Len(Seen') = Len(Seen) + 1
      /\ Seen' \o cursor' = Seen \o cursor /\ CursorOf(Seen') = h
  <2> DEFINE w == Append(writer, Head(cursor))
  <2>0. ids \in Seq(ID) /\ writer \in Seq(ID) /\ cursor \in Seq(ID) /\ cursor # <<>>
    BY <1>1, <1>3, <1>4
  <2>1. /\ Head(cursor) \in ID /\ Tail(cursor) \in Seq(ID) /\ w \in Seq(ID) /\ w # <<>>
        /\ Len(Tail(cursor)) = Len(cursor) - 1 /\ Len(ids \o w) = Len(ids \o writer) + 1
        /\ (ids \o w) \o Tail(cursor) = (ids \o writer) \o cursor
        /\ CursorOf(ids \o w) = Head(cursor)
    <3>1. Moved(ids, writer, cursor)
      BY <2>0, MoveHead
    <3> QED BY <3>1, Zenon DEF Moved
  <2>2. writer' = w
    BY <1>1 DEF h
  <2> HIDE DEF w
  <2> QED BY <1>1, <1>2, <2>1, <2>2, ZenonT(30) DEF h
<1>6. observed' \in [Phase -> Seq(ID)]
  <2>1. Append(observed[phase], h) \in Seq(ID)
    BY <1>3, <1>4, <1>5
  <2> QED BY <1>1, <1>3, <1>4, <2>1
<1>7. ScanInv'
  <2>1. processed' = Len(Seen') /\ processed' + Len(cursor') <= mem.current.count[phase]
    <3>1. Len(cursor) \in Nat /\ processed \in Nat /\ mem.current.count[phase] \in Nat
      BY <1>2, <1>3, <1>4
    <3> QED BY <1>1, <1>4, <1>5, <3>1
  <2> QED BY <1>1, <1>2, <1>4, <1>5, <1>6, <2>1, ZenonT(30) DEF ScanInv, InScan, phase
<1>8. RunDisk'
  <2>1. temps' \subseteq TempsOf({}) \cup Staged(Shard)
    BY <1>1 DEF DumpInv, RunDisk
  <2> QED BY <1>1, <1>2, <1>5, <2>1 DEF DumpInv, RunDisk
<1>9. SavedDisk'
  <2>1. Left(saved) = {Shard}
    BY <1>2, <1>3 DEF Left, Shard
  <2>2. temps' \subseteq temps \cup Staged(Shard) /\ Staged(Shard) \subseteq TempsOf({Shard})
    BY <1>1 DEF TempsOf
  <2> QED BY <1>1, <2>1, <2>2, ZenonT(30) DEF DumpInv, SavedDisk
<1> QED BY <1>2, <1>7, <1>8, <1>9 DEF DumpInv

\* A relationship without its nodes ends the dump.
LEMMA HandleDanglingKeeps == ASSUME DumpInv, HandleDangling PROVE DumpInv'
<1>1. SavedDisk'
  BY DEF DumpInv, HandleDangling, SavedDisk
<1> QED BY <1>1, GoesDown DEF HandleDangling

\* A batch is used up; one that was too short ends the dump.
LEMMA EndOfBatchKeeps == ASSUME DumpInv, EndOfBatch PROVE DumpInv'
<1> USE DEF EndOfBatch, Goto
<1>1. CASE Down
  <2>1. SavedDisk'
    BY DEF DumpInv, SavedDisk
  <2> QED BY <1>1, <2>1, GoesDown
<1>2. CASE ~Down
  <2>1. /\ pc = "handle" /\ pc' = "scan" /\ pc \in InScan /\ pc' \in InScan /\ cursor = <<>>
        /\ UNCHANGED <<source, changes, mem, saved, manifest>> /\ UNCHANGED <<jsonl, parquet, temps>> /\ UNCHANGED scan
    BY <1>2 DEF InScan
  <2>2. /\ TypeInv' /\ SavedInv' /\ MemInv' /\ SavedRel' /\ ManifestInv'
        /\ Place = pc /\ Place' = pc' /\ ~Saving /\ ~Saving' /\ Place \in InGraph
        /\ saved = mem /\ Shard' = Shard /\ Seen' = Seen
    BY <2>1, InScanStep DEF scan
  <2>3. ScanInv'
    BY <2>1, <2>2 DEF DumpInv, ScanInv, scan, InScan
  <2>4. RunDisk' /\ SavedDisk'
    BY <2>1, <2>2 DEF DumpInv, RunDisk, SavedDisk, scan
  <2> QED BY <2>2, <2>3, <2>4 DEF DumpInv
<1> QED BY <1>1, <1>2
=============================================================================
