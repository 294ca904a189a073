--------------------------- MODULE SessionsProofs ---------------------------
(***************************************************************************)
(* Proofs about the sessions of the PostgreSQL driver, for any number of   *)
(* goroutines, kinds, graphs, connections and failures.                    *)
(***************************************************************************)
EXTENDS Sessions, FiniteSetTheorems, TLAPS

Place == {"idle", "resolve", "lock", "assert", "setDefault", "open", "failed"}
Purpose == {"none", "write", "default", "assertDefault", "setDefault"}
OrNone(S) == S \cup {None}

\* The kinds: the table, the maps in memory and the goroutines.
KindTypes ==
    /\ rows \in [Kind -> OrNone(ID)] /\ inserted \in [Kind -> OrNone(ID)]
    /\ nextID \in Nat \ {0}
    /\ kindsByID \in [Kind -> OrNone(ID)] /\ kindIDsByKind \in [ID -> OrNone(Kind)]
    /\ pc \in [Actor -> {"idle", "check", "lock", "connect", "fetch", "define"}]
    /\ op \in [Actor -> Op] /\ want \in [Actor -> SUBSET (Kind \cup ID)]
    /\ \A a \in Actor : want[a] \subseteq IF op[a] = "MapKindIDs" THEN ID ELSE Kind
    /\ todo \in SUBSET Kind /\ failures \in Nat

\* The graphs.
GraphTypes ==
    /\ graphRows \in [Graph -> OrNone(Nat)] /\ graphID \in Nat
    /\ created \in [Actor -> [Graph -> OrNone(Nat)]] /\ graphs \in [Graph -> OrNone(Nat)]
    /\ place \in [Actor -> Place] /\ purpose \in [Actor -> Purpose]
    /\ target \in [Actor -> OrNone(Graph)] /\ given \in [Actor -> OrNone(Nat)]
    /\ defaultGraph # None => defaultGraph[2] \in Nat

\* A transaction that is to resolve a graph has its name, and one that sets the
\* default has its ID.
TargetInv ==
    \A a \in Actor :
        /\ place[a] \in {"lock", "assert", "setDefault"} => target[a] \in Graph
        /\ place[a] = "resolve" /\ purpose[a] # "default" => target[a] \in Graph
        /\ place[a] = "setDefault" => given[a] \in Nat

\* The lock is held by whoever is past it, and a goroutine uses kinds only
\* while it is not resolving its graph.  Rows are inserted under the lock.
LockInv ==
    /\ \A a \in Actor :
          /\ pc[a] \in {"connect", "fetch", "define"} => lock = a
          /\ place[a] = "assert" => lock = a
          /\ pc[a] # "idle" => place[a] \in {"idle", "open"}
    /\ \A k \in Kind : inserted[k] # None => \E a \in Actor : pc[a] = "define"

\* The graph that is about to be asserted is not in memory.
AbsentInv == \A a \in Actor : place[a] = "assert" => graphs[target[a]] = None

\* What an open transaction has created is in memory, and one has created it.
CreatedInv ==
    /\ \A a \in Actor, g \in Graph : created[a][g] # None => graphs[g] # None
    /\ \A a, b \in Actor, g \in Graph : created[a][g] # None /\ created[b][g] # None => a = b

GraphInv == TargetInv /\ AbsentInv /\ CreatedInv

\* Kind k has ID i somewhere.
Named(k, i) == rows[k] = i \/ inserted[k] = i \/ kindsByID[k] = i \/ kindIDsByKind[i] = k

\* Every ID in use was drawn from the sequence, and stands for one kind.
NameInv ==
    /\ \A k \in Kind, i \in ID : Named(k, i) => i < nextID
    /\ \A j, k \in Kind, i \in ID : Named(j, i) /\ Named(k, i) => j = k

\* The ID of k as the open transaction sees it.
Effective(k) == IF inserted[k] # None THEN inserted[k] ELSE rows[k]

\* Until a transaction fails the maps hold what the open transaction sees.
MemoryInv ==
    failures = 0 /\ nextID <= MaxID =>
        /\ \A k \in Kind : kindsByID[k] # None => kindsByID[k] = Effective(k)
        /\ \A i \in ID : kindIDsByKind[i] # None => Effective(kindIDsByKind[i]) = i

\* What AssertKinds has still to define is not inserted, and the rest of what
\* it was asked for is in memory.
TodoInv ==
    /\ \A k \in todo : inserted[k] = None
    /\ \A a \in Actor :
          /\ pc[a] = "fetch" => op[a] # "AssertKinds"
          /\ pc[a] = "define" /\ op[a] = "AssertKinds" =>
                \A k \in want[a] : k \notin todo => kindsByID[k] # None

AnswerInv == AssertedComplete /\ ReturnedIsDefined

KindInv == NameInv /\ MemoryInv /\ TodoInv
IInv == KindTypes /\ GraphTypes /\ LockInv /\ GraphInv /\ KindInv /\ AnswerInv
-----------------------------------------------------------------------------
\* A step that leaves the graphs alone keeps what is known of them
\* (the kinds' half of SchemaManager).
LEMMA GraphsUntouched ==
    ASSUME GraphTypes, GraphInv, UNCHANGED registry
    PROVE  GraphTypes' /\ GraphInv'
BY DEF GraphTypes, GraphInv, TargetInv, AbsentInv, CreatedInv, registry

\* A step that creates no graph and forgets none (Close ends a transaction's
\* own creations).
LEMMA CreatedKept ==
    ASSUME CreatedInv, \A b \in Actor, g \in Graph : created'[b][g] # None => created[b][g] # None,
           \A g \in Graph : graphs[g] # None => graphs'[g] # None
    PROVE  CreatedInv'
BY DEF CreatedInv

\* A step that leaves the kinds alone keeps what is known of them (the graphs'
\* half of SchemaManager).
LEMMA KindsUntouched ==
    ASSUME KindTypes, KindInv, UNCHANGED kinds, UNCHANGED <<op, want>>
    PROVE  KindTypes' /\ KindInv'
<1> USE DEF kinds, dbVars, memory
<1>1. KindTypes'
  BY DEF KindTypes
<1>2. NameInv'
  BY DEF KindInv, NameInv, Named
<1>3. MemoryInv'
  BY DEF KindInv, MemoryInv, Effective
<1>4. TodoInv'
  BY DEF KindInv, TodoInv
<1> QED
  BY <1>1, <1>2, <1>3, <1>4 DEF KindInv

\* A transaction that ends without a commit takes back what it inserted, and no
\* ID gets another kind (Release).
LEMMA NamesKept ==
    ASSUME NameInv, rows' = rows, nextID' = nextID, kindsByID' = kindsByID, kindIDsByKind' = kindIDsByKind,
           \A k \in Kind : inserted'[k] \in {inserted[k], None}
    PROVE  NameInv'
<1>1. \A i \in ID : i # None
  BY ManagerAssumption DEF ID
<1>2. \A k \in Kind, i \in ID : Named(k, i)' => Named(k, i)
  BY <1>1 DEF Named
<1> QED
  BY <1>2 DEF NameInv

\* A step that returns nothing, or an error, to a caller.
LEMMA NoAnswer ==
    ASSUME answer' = None \/ answer'.pairs = None
    PROVE  AnswerInv'
BY DEF AnswerInv, AssertedComplete, ReturnedIsDefined, Succeeded

\* Whoever holds the lock is past it alone; without a holder nothing is
\* inserted (defineKinds runs under the write lock).
LEMMA Exclusive ==
    ASSUME LockInv, NEW a \in Actor, lock = a \/ lock = None
    PROVE  /\ \A b \in Actor : b # a => pc[b] \notin {"connect", "fetch", "define"} /\ place[b] # "assert"
           /\ lock = None => \A k \in Kind : inserted[k] = None
           /\ lock = a /\ pc[a] # "define" => \A k \in Kind : inserted[k] = None
BY ManagerAssumption DEF LockInv

\* What mapKinds and mapKindIDs return while no transaction is open is in the
\* table.
LEMMA MappedIsDefined ==
    ASSUME KindTypes, MemoryInv, NEW a \in Actor, \A k \in Kind : inserted[k] = None,
           failures = 0, nextID <= MaxID, NEW p \in Mapped(op[a], want[a])
    PROVE  rows[p[1]] = p[2]
<1>1. CASE op[a] = "MapKindIDs"
  BY <1>1 DEF KindTypes, MemoryInv, Effective, Mapped, Missing, OrNone
<1>2. CASE op[a] # "MapKindIDs"
  BY <1>2 DEF KindTypes, MemoryInv, Effective, Mapped, Missing, OrNone
<1> QED
  BY <1>1, <1>2

\* What they return has every kind that was asked for, if none is missing.
LEMMA MappedIsComplete ==
    ASSUME NEW a \in Actor, op[a] = "AssertKinds", Missing(op[a], want[a]) = {}
    PROVE  {p[1] : p \in Mapped(op[a], want[a])} = want[a]
<1>1. Mapped(op[a], want[a]) = {<<w, kindsByID[w]>> : w \in want[a]}
  BY DEF Mapped
<1> DEFINE S == {<<w, kindsByID[w]>> : w \in want[a]}
<1>2. \A p \in S : p[1] \in want[a]
  OBVIOUS
<1>3. ASSUME NEW w \in want[a] PROVE \E p \in S : p[1] = w
  <2>1. <<w, kindsByID[w]>> \in S /\ <<w, kindsByID[w]>>[1] = w
    OBVIOUS
  <2> QED
    BY <2>1, ZenonT(30)
<1> HIDE DEF S
<1>4. {p[1] : p \in S} = want[a]
  BY <1>2, <1>3
<1> QED
  BY <1>1, <1>4 DEF S

\* An operation that returns what it finds in memory: if AssertKinds misses
\* nothing the answer is complete.
LEMMA CompleteAnswer ==
    ASSUME NEW a \in Actor,
           answer' = [op |-> op[a], want |-> want[a], pairs |-> Mapped(op[a], want[a])],
           op[a] = "AssertKinds" => Missing(op[a], want[a]) = {}
    PROVE  AssertedComplete'
<1>1. answer'.op = op[a] /\ answer'.want = want[a] /\ answer'.pairs = Mapped(op[a], want[a])
  OBVIOUS
<1> QED
  BY <1>1, MappedIsComplete, ZenonT(30) DEF AssertedComplete, Succeeded

\* An operation that returns leaves its caller idle and without arguments (Return).
LEMMA ReturnTypes ==
    ASSUME KindTypes, NEW a \in Actor, pc' = [pc EXCEPT ![a] = "idle"],
           op' = [op EXCEPT ![a] = "MapKinds"], want' = [want EXCEPT ![a] = {}]
    PROVE  /\ pc' \in [Actor -> {"idle", "check", "lock", "connect", "fetch", "define"}]
           /\ op' \in [Actor -> Op] /\ want' \in [Actor -> SUBSET (Kind \cup ID)]
           /\ \A b \in Actor : want'[b] \subseteq IF op'[b] = "MapKindIDs" THEN ID ELSE Kind
<1>1. pc' \in [Actor -> {"idle", "check", "lock", "connect", "fetch", "define"}]
  BY DEF KindTypes
<1>2. op' \in [Actor -> Op] /\ want' \in [Actor -> SUBSET (Kind \cup ID)]
  BY DEF KindTypes, Op
<1>3. ASSUME NEW b \in Actor PROVE want'[b] \subseteq IF op'[b] = "MapKindIDs" THEN ID ELSE Kind
  <2>1. CASE b = a
    BY <2>1 DEF KindTypes
  <2>2. CASE b # a
    BY <2>2 DEF KindTypes
  <2> QED
    BY <2>1, <2>2
<1> QED
  BY <1>1, <1>2, <1>3

\* An operation begins: nothing but its caller's place and arguments change (Begin).
LEMMA BeginKeeps ==
    ASSUME IInv, NEW a \in Actor, place[a] \in {"idle", "open"}, UNCHANGED registry, NEW o \in Op, NEW ws \in Arguments(o), Begin(a, o, ws)
    PROVE  IInv'
<1> USE ManagerAssumption DEF dbVars, memory, Goto, Onwards, Return
<1>1. ws \subseteq IF o = "MapKindIDs" THEN ID ELSE Kind
  BY DEF IInv, KindTypes, OrNone, Arguments, Op
<1>2. KindTypes'
  BY <1>1 DEF IInv, KindTypes, Begin
<1>3. LockInv'
  BY DEF IInv, KindTypes, LockInv, Begin, registry
<1>4. NameInv'
  BY DEF IInv, KindInv, NameInv, Named, Begin
<1>5. MemoryInv'
  BY DEF IInv, KindInv, MemoryInv, Effective, Begin
<1>6. TodoInv'
  BY DEF IInv, KindTypes, KindInv, TodoInv, Begin
<1>7. AnswerInv'
  BY NoAnswer DEF Begin
<1> QED
  BY <1>1, <1>2, <1>3, <1>4, <1>5, <1>6, <1>7, GraphsUntouched DEF IInv, KindInv

\* The fast path: what it returns is complete and, as no transaction is open, defined
\* (Check).
LEMMA CheckKeeps ==
    ASSUME IInv, NEW a \in Actor, place[a] \in {"idle", "open"}, UNCHANGED registry, Check(a)
    PROVE  IInv'
<1> USE ManagerAssumption DEF dbVars, memory, Goto, Onwards, Return
<1>1. KindTypes'
  BY DEF IInv, KindTypes, Check, Op
<1>2. LockInv'
  BY DEF IInv, KindTypes, LockInv, Check, registry
<1>3. NameInv'
  BY DEF IInv, KindInv, NameInv, Named, Check
<1>4. MemoryInv'
  BY DEF IInv, KindInv, MemoryInv, Effective, Check
<1>5. TodoInv'
  BY DEF IInv, KindTypes, KindInv, TodoInv, Check
<1>6. \A k \in Kind : inserted[k] = None
  BY Exclusive DEF IInv, Check
<1>7. AssertedComplete'
  BY NoAnswer, CompleteAnswer DEF AnswerInv, Check
<1>8. ReturnedIsDefined'
  BY <1>6, MappedIsDefined DEF IInv, KindInv, Check, ReturnedIsDefined, Succeeded
<1>9. AnswerInv'
  BY <1>7, <1>8 DEF AnswerInv
<1> QED
  BY <1>1, <1>2, <1>3, <1>4, <1>5, <1>6, <1>7, <1>8, <1>9, GraphsUntouched DEF IInv, KindInv

\* The write lock is taken, or AssertKinds finds its kinds on its second look (Lock).
LEMMA LockKeeps ==
    ASSUME IInv, NEW a \in Actor, place[a] \in {"idle", "open"}, UNCHANGED registry, Lock(a)
    PROVE  IInv'
<1> USE ManagerAssumption DEF dbVars, memory, Goto, Onwards, Return
<1>1. KindTypes'
  BY SMTT(30) DEF IInv, KindTypes, OrNone, Lock, Op
<1>2. LockInv'
  BY Exclusive DEF IInv, KindTypes, LockInv, Lock, registry
<1>3. NameInv'
  BY DEF IInv, KindInv, NameInv, Named, Lock
<1>4. MemoryInv'
  BY DEF IInv, KindInv, MemoryInv, Effective, Lock
<1>5. TodoInv'
  BY DEF IInv, KindTypes, KindInv, TodoInv, Lock
<1>6. \A k \in Kind : inserted[k] = None
  BY Exclusive DEF IInv, Lock
<1>7. AssertedComplete'
  BY NoAnswer, CompleteAnswer DEF AnswerInv, Lock
<1>8. ReturnedIsDefined'
  BY <1>6, MappedIsDefined DEF IInv, KindInv, Lock, ReturnedIsDefined, Succeeded
<1>9. AnswerInv'
  BY <1>7, <1>8 DEF AnswerInv
<1> QED
  BY <1>1, <1>2, <1>3, <1>4, <1>5, <1>6, <1>7, <1>8, <1>9, GraphsUntouched DEF IInv, KindInv

\* A transaction begins, with nothing inserted yet (Connect).
LEMMA ConnectKeeps ==
    ASSUME IInv, NEW a \in Actor, place[a] \in {"idle", "open"}, UNCHANGED registry, Connect(a)
    PROVE  IInv'
<1> USE ManagerAssumption DEF dbVars, memory, Goto, Onwards, Return
<1>1. KindTypes'
  BY DEF IInv, KindTypes, Connect, Missing
<1>2. LockInv'
  BY DEF IInv, KindTypes, LockInv, Connect, registry
<1>3. NameInv'
  BY DEF IInv, KindInv, NameInv, Named, Connect
<1>4. MemoryInv'
  BY DEF IInv, KindInv, MemoryInv, Effective, Connect
<1>5. \A k \in Kind : inserted[k] = None
  BY Exclusive DEF IInv, LockInv, Connect
<1>6. TodoInv'
  BY <1>5, Exclusive DEF IInv, KindTypes, LockInv, KindInv, TodoInv, Connect, Missing
<1>7. AnswerInv'
  BY NoAnswer DEF Connect
<1> QED
  BY <1>1, <1>2, <1>3, <1>4, <1>5, <1>6, <1>7, GraphsUntouched DEF IInv, KindInv

\* The map of IDs becomes the table; AssertKinds, which relies on the map, does not
\* fetch (fetch).
LEMMA FetchKeeps ==
    ASSUME IInv, NEW a \in Actor, place[a] \in {"idle", "open"}, UNCHANGED registry, fetch(a)
    PROVE  IInv'
<1> USE ManagerAssumption DEF dbVars, memory, Goto, Onwards, Return
<1>1. \A k \in Kind : inserted[k] = None
  BY Exclusive DEF IInv, LockInv, fetch
<1>2. KindTypes'
  BY DEF IInv, KindTypes, OrNone, fetch, Fetched
<1>3. LockInv'
  BY DEF IInv, KindTypes, LockInv, fetch, registry
<1>4. NameInv'
  BY DEF IInv, KindTypes, OrNone, KindInv, NameInv, Named, fetch, Fetched
<1>5. MemoryInv'
  BY <1>1 DEF IInv, KindTypes, OrNone, KindInv, MemoryInv, Effective, fetch, Fetched
<1>6. TodoInv'
  BY <1>1, Exclusive DEF IInv, KindTypes, LockInv, KindInv, TodoInv, fetch
<1>7. AnswerInv'
  BY NoAnswer DEF fetch
<1> QED
  BY <1>1, <1>2, <1>3, <1>4, <1>5, <1>6, <1>7, GraphsUntouched DEF IInv, KindInv

\* A kind gets the ID of its row or the next one of the sequence, which no kind has
\* (defineKinds).
LEMMA DefineKeeps ==
    ASSUME IInv, NEW a \in Actor, place[a] \in {"idle", "open"}, UNCHANGED registry, NEW k \in Kind, defineKind(a, k)
    PROVE  IInv'
<1> USE ManagerAssumption DEF dbVars, memory, Goto, Onwards, Return
<1>1. lock = a /\ k \in todo /\ inserted[k] = None
  BY DEF IInv, LockInv, KindInv, TodoInv, defineKind
<1>2. InsertOrGetKind(k) \in ID /\ InsertOrGetKind(k) # None
  BY DEF IInv, KindTypes, OrNone, ID, InsertOrGetKind, defineKind
<1>3. KindTypes'
  BY <1>2 DEF IInv, KindTypes, OrNone, defineKind
<1>4. LockInv'
  BY DEF IInv, KindTypes, LockInv, defineKind, registry
<1>5. NameInv'
  BY <1>1, <1>2 DEF IInv, KindTypes, OrNone, ID, KindInv, NameInv, Named, defineKind, InsertOrGetKind
<1>6. MemoryInv'
  <2> DEFINE New(j) == IF inserted'[j] # None THEN inserted'[j] ELSE rows'[j]
  <2>1. SUFFICES ASSUME failures = 0, nextID <= MaxID
        PROVE  /\ \A j \in Kind : kindsByID'[j] # None => kindsByID'[j] = New(j)
               /\ \A i \in ID : kindIDsByKind'[i] # None => New(kindIDsByKind'[i]) = i
    BY DEF IInv, KindTypes, MemoryInv, Effective, defineKind
  <2>2. New(k) = InsertOrGetKind(k) /\ \A j \in Kind : j # k => New(j) = Effective(j)
    BY <1>1, <1>2 DEF IInv, KindTypes, Effective, defineKind, InsertOrGetKind
  <2>3. Effective(k) = None \/ Effective(k) = InsertOrGetKind(k)
    BY <1>1 DEF IInv, KindTypes, OrNone, Effective, InsertOrGetKind
  <2> HIDE DEF New
  <2>4. \A j \in Kind : kindsByID[j] # None => kindsByID[j] = Effective(j)
    BY <2>1 DEF IInv, KindInv, MemoryInv
  <2>5. \A i \in ID : kindIDsByKind[i] # None => Effective(kindIDsByKind[i]) = i
    BY <2>1 DEF IInv, KindInv, MemoryInv
  <2>6. \A j \in Kind : kindsByID'[j] # None => kindsByID'[j] = New(j)
    BY <2>2, <2>4 DEF IInv, KindTypes, defineKind
  <2>7. ASSUME NEW i \in ID, kindIDsByKind'[i] # None PROVE New(kindIDsByKind'[i]) = i
    <3>1. CASE i = InsertOrGetKind(k)
      BY <3>1, <2>2 DEF IInv, KindTypes, defineKind
    <3>2. CASE i # InsertOrGetKind(k)
      <4>1. kindIDsByKind'[i] = kindIDsByKind[i] /\ kindIDsByKind[i] \in Kind
        BY <2>7, <3>2, <1>2 DEF IInv, KindTypes, OrNone, defineKind
      <4>2. kindIDsByKind[i] # k
        BY <4>1, <3>2, <2>3, <2>5, <2>7 DEF ID
      <4> QED
        BY <4>1, <4>2, <2>2, <2>5, <2>7
    <3> QED
      BY <3>1, <3>2
  <2> QED
    BY <2>6, <2>7
<1>7. TodoInv'
  BY <1>1, <1>2, Exclusive DEF IInv, KindTypes, LockInv, KindInv, TodoInv, defineKind
<1>8. AnswerInv'
  BY NoAnswer DEF defineKind
<1> QED
  BY <1>1, <1>2, <1>3, <1>4, <1>5, <1>6, <1>7, <1>8, GraphsUntouched DEF IInv, KindInv

\* The transaction commits: the table is what the maps have become (the deferred
\* commit of AssertKinds and its like).
LEMMA CommitKeeps ==
    ASSUME IInv, NEW a \in Actor, place[a] \in {"idle", "open"}, UNCHANGED registry, Commit(a)
    PROVE  IInv'
<1> USE ManagerAssumption DEF dbVars, memory, Goto, Onwards, Return
<1>1. lock = a /\ todo = {}
  BY DEF IInv, LockInv, Commit
<1>2. KindTypes'
  <2>1. /\ pc' = [pc EXCEPT ![a] = "idle"] /\ op' = [op EXCEPT ![a] = "MapKinds"]
        /\ want' = [want EXCEPT ![a] = {}]
    BY DEF Commit
  <2>2. rows' \in [Kind -> OrNone(ID)] /\ inserted' \in [Kind -> OrNone(ID)]
    BY DEF IInv, KindTypes, OrNone, Commit, Release
  <2>3. nextID' = nextID /\ kindsByID' = kindsByID /\ kindIDsByKind' = kindIDsByKind
    BY DEF Commit
  <2>4. todo' \in SUBSET Kind /\ failures' \in Nat
    BY DEF IInv, KindTypes, Commit, Release
  <2> QED
    BY <2>1, <2>2, <2>3, <2>4, ReturnTypes, ZenonT(30) DEF IInv, KindTypes
<1>3. LockInv'
  BY <1>1, Exclusive DEF IInv, KindTypes, LockInv, Commit, Release, registry
<1>4. NameInv'
  BY DEF IInv, KindTypes, ID, KindInv, NameInv, Named, Commit, Release
<1>5. MemoryInv'
  BY DEF IInv, KindTypes, OrNone, KindInv, MemoryInv, Effective, Commit, Release
<1>6. TodoInv'
  BY <1>1, Exclusive DEF IInv, KindTypes, KindInv, TodoInv, Commit, Release
<1>7. AssertedComplete'
  BY <1>1, NoAnswer, CompleteAnswer DEF AnswerInv, IInv, KindTypes, KindInv, TodoInv, Commit, Answer, Missing
<1>8. ASSUME failures = 0, nextID <= MaxID, NEW p \in Mapped(op[a], want[a]) PROVE rows'[p[1]] = p[2]
  <2>1. \A k \in Kind : rows'[k] = Effective(k)
    BY DEF Effective, Commit
  <2>2. CASE op[a] = "MapKindIDs"
    <3>1. want[a] \subseteq ID /\ \A i \in ID : kindIDsByKind[i] # None => kindIDsByKind[i] \in Kind
      BY <2>2 DEF IInv, KindTypes, OrNone
    <3>2. \A i \in ID : kindIDsByKind[i] # None => Effective(kindIDsByKind[i]) = i
      BY <1>8 DEF IInv, KindInv, MemoryInv
    <3>3. PICK i \in want[a] : kindIDsByKind[i] # None /\ p = <<kindIDsByKind[i], i>>
      BY <1>8, <2>2 DEF Mapped, Missing
    <3> QED
      BY <2>1, <3>1, <3>2, <3>3
  <2>3. CASE op[a] # "MapKindIDs"
    <3>1. want[a] \subseteq Kind
      BY <2>3 DEF IInv, KindTypes
    <3>2. \A k \in Kind : kindsByID[k] # None => kindsByID[k] = Effective(k)
      BY <1>8 DEF IInv, KindInv, MemoryInv
    <3>3. PICK k \in want[a] : kindsByID[k] # None /\ p = <<k, kindsByID[k]>>
      BY <1>8, <2>3 DEF Mapped, Missing
    <3> QED
      BY <2>1, <3>1, <3>2, <3>3
  <2> QED
    BY <2>2, <2>3
<1>9. ReturnedIsDefined'
  BY <1>8 DEF ReturnedIsDefined, Succeeded, Commit, Answer
<1>10. AnswerInv'
  BY <1>7, <1>9 DEF AnswerInv
<1> QED
  BY <1>1, <1>2, <1>3, <1>4, <1>5, <1>6, <1>7, <1>8, <1>9, <1>10, GraphsUntouched DEF IInv, KindInv

\* A statement or the commit fails: the rows are rolled back and the maps stay as they
\* are (Fail).
LEMMA FailKeeps ==
    ASSUME IInv, NEW a \in Actor, place[a] \in {"idle", "open"}, UNCHANGED registry, Fail(a)
    PROVE  IInv'
<1> USE ManagerAssumption DEF dbVars, memory, Goto, Onwards, Return
<1>1. lock = a
  BY DEF IInv, LockInv, Fail
<1>2. KindTypes'
  <2>1. /\ pc' = [pc EXCEPT ![a] = "idle"] /\ op' = [op EXCEPT ![a] = "MapKinds"]
        /\ want' = [want EXCEPT ![a] = {}]
    BY DEF Fail
  <2>2. rows' \in [Kind -> OrNone(ID)] /\ inserted' \in [Kind -> OrNone(ID)]
    BY DEF IInv, KindTypes, OrNone, Fail, Release
  <2>3. nextID' = nextID /\ kindsByID' = kindsByID /\ kindIDsByKind' = kindIDsByKind
    BY DEF Fail
  <2>4. todo' \in SUBSET Kind /\ failures' \in Nat
    BY DEF IInv, KindTypes, Fail, Release
  <2> QED
    BY <2>1, <2>2, <2>3, <2>4, ReturnTypes, ZenonT(30) DEF IInv, KindTypes
<1>3. LockInv'
  BY <1>1, Exclusive DEF IInv, KindTypes, LockInv, Fail, Release, registry
<1>4. NameInv'
  <2>1. rows' = rows /\ nextID' = nextID /\ kindsByID' = kindsByID /\ kindIDsByKind' = kindIDsByKind
    BY DEF Fail
  <2>2. \A k \in Kind : inserted'[k] \in {inserted[k], None}
    BY DEF Fail, Release
  <2> QED
    BY <2>1, <2>2, NamesKept DEF IInv, KindInv
<1>5. MemoryInv'
  <2>1. failures \in Nat
    BY DEF IInv, KindTypes
  <2>2. failures' = failures + 1
    BY DEF Fail
  <2>3. failures' # 0
    BY <2>1, <2>2
  <2> QED
    BY <2>3 DEF MemoryInv
<1>6. TodoInv'
  BY <1>1, Exclusive DEF IInv, KindTypes, KindInv, TodoInv, Fail, Release
<1>7. AnswerInv'
  BY NoAnswer DEF Fail
<1> QED
  BY <1>1, <1>2, <1>3, <1>4, <1>5, <1>6, <1>7, GraphsUntouched DEF IInv, KindInv

\* The insert fails at the end of the sequence (Exhausted).
LEMMA ExhaustedKeeps ==
    ASSUME IInv, NEW a \in Actor, place[a] \in {"idle", "open"}, UNCHANGED registry, Exhausted(a)
    PROVE  IInv'
<1> USE ManagerAssumption DEF dbVars, memory, Goto, Onwards, Return
<1>1. lock = a
  BY DEF IInv, LockInv, Exhausted
<1>2. KindTypes'
  <2>1. /\ pc' = [pc EXCEPT ![a] = "idle"] /\ op' = [op EXCEPT ![a] = "MapKinds"]
        /\ want' = [want EXCEPT ![a] = {}]
    BY DEF Exhausted
  <2>2. rows' \in [Kind -> OrNone(ID)] /\ inserted' \in [Kind -> OrNone(ID)]
    BY DEF IInv, KindTypes, OrNone, Exhausted, Release
  <2>3. nextID' = nextID /\ kindsByID' = kindsByID /\ kindIDsByKind' = kindIDsByKind
    BY DEF Exhausted
  <2>4. todo' \in SUBSET Kind /\ failures' \in Nat
    BY DEF IInv, KindTypes, Exhausted, Release
  <2> QED
    BY <2>1, <2>2, <2>3, <2>4, ReturnTypes DEF IInv, KindTypes
<1>3. LockInv'
  BY <1>1, Exclusive DEF IInv, KindTypes, LockInv, Exhausted, Release, registry
<1>4. NameInv'
  <2>1. rows' = rows /\ nextID' = nextID /\ kindsByID' = kindsByID /\ kindIDsByKind' = kindIDsByKind
    BY DEF Exhausted
  <2>2. \A k \in Kind : inserted'[k] \in {inserted[k], None}
    BY DEF Exhausted, Release
  <2> QED
    BY <2>1, <2>2, NamesKept DEF IInv, KindInv
<1>5. MemoryInv'
  <2>1. nextID' = nextID /\ nextID > MaxID /\ nextID \in Nat
    BY DEF IInv, KindTypes, Exhausted
  <2>2. ~(nextID' <= MaxID)
    BY <2>1
  <2> QED
    BY <2>2 DEF MemoryInv
<1>6. TodoInv'
  BY <1>1, Exclusive DEF IInv, KindTypes, KindInv, TodoInv, Exhausted, Release
<1>7. AnswerInv'
  BY NoAnswer DEF Exhausted
<1> QED
  BY <1>1, <1>2, <1>3, <1>4, <1>5, <1>6, <1>7, GraphsUntouched DEF IInv, KindInv

\* There is no connection for the transaction (ConnectFails).
LEMMA ConnectFailsKeeps ==
    ASSUME IInv, NEW a \in Actor, place[a] \in {"idle", "open"}, UNCHANGED registry, ConnectFails(a)
    PROVE  IInv'
<1> USE ManagerAssumption DEF dbVars, memory, Goto, Onwards, Return
<1>1. lock = a
  BY DEF IInv, LockInv, ConnectFails
<1>2. KindTypes'
  <2>1. /\ pc' = [pc EXCEPT ![a] = "idle"] /\ op' = [op EXCEPT ![a] = "MapKinds"]
        /\ want' = [want EXCEPT ![a] = {}]
    BY DEF ConnectFails
  <2>2. rows' \in [Kind -> OrNone(ID)] /\ inserted' \in [Kind -> OrNone(ID)]
    BY DEF IInv, KindTypes, OrNone, ConnectFails
  <2>3. nextID' = nextID /\ kindsByID' = kindsByID /\ kindIDsByKind' = kindIDsByKind
    BY DEF ConnectFails
  <2>4. todo' \in SUBSET Kind /\ failures' \in Nat
    BY DEF IInv, KindTypes, ConnectFails
  <2> QED
    BY <2>1, <2>2, <2>3, <2>4, ReturnTypes DEF IInv, KindTypes
<1>3. LockInv'
  BY <1>1, Exclusive DEF IInv, KindTypes, LockInv, ConnectFails, registry
<1>4. NameInv'
  <2>1. rows' = rows /\ nextID' = nextID /\ kindsByID' = kindsByID /\ kindIDsByKind' = kindIDsByKind
    BY DEF ConnectFails
  <2>2. \A k \in Kind : inserted'[k] \in {inserted[k], None}
    BY DEF ConnectFails
  <2> QED
    BY <2>1, <2>2, NamesKept DEF IInv, KindInv
<1>5. MemoryInv'
  <2>1. failures \in Nat
    BY DEF IInv, KindTypes
  <2>2. failures' = failures + 1
    BY DEF ConnectFails
  <2>3. failures' # 0
    BY <2>1, <2>2
  <2> QED
    BY <2>3 DEF MemoryInv
<1>6. TodoInv'
  BY <1>1, Exclusive DEF IInv, KindTypes, KindInv, TodoInv, ConnectFails
<1>7. AnswerInv'
  BY NoAnswer DEF ConnectFails
<1> QED
  BY <1>1, <1>2, <1>3, <1>4, <1>5, <1>6, <1>7, GraphsUntouched DEF IInv, KindInv

\* Another process defines a kind, with an ID no kind has (DefinedElsewhere).
LEMMA DefinedElsewhereKeeps ==
    ASSUME IInv, NEW k \in Kind, UNCHANGED registry, DefinedElsewhere(k)
    PROVE  IInv'
<1> USE ManagerAssumption DEF dbVars, memory, Onwards
<1>1. nextID \in ID
  BY DEF IInv, KindTypes, ID, DefinedElsewhere
<1>2. KindTypes'
  BY <1>1 DEF IInv, KindTypes, OrNone, DefinedElsewhere
<1>3. LockInv'
  BY DEF IInv, LockInv, DefinedElsewhere, registry
<1>4. NameInv'
  BY <1>1 DEF IInv, KindTypes, OrNone, ID, KindInv, NameInv, Named, DefinedElsewhere
<1>5. MemoryInv'
  BY <1>1 DEF IInv, KindTypes, OrNone, ID, KindInv, MemoryInv, Effective, DefinedElsewhere
<1>6. TodoInv'
  BY DEF IInv, KindInv, TodoInv, DefinedElsewhere
<1>7. AnswerInv'
  BY NoAnswer DEF DefinedElsewhere
<1> QED
  BY <1>2, <1>3, <1>4, <1>5, <1>6, <1>7, GraphsUntouched DEF IInv, KindInv
-----------------------------------------------------------------------------

\* A transaction begins (Driver.WriteTransaction).
LEMMA BeginSessionKeeps ==
    ASSUME GraphTypes, GraphInv, LockInv, NEW a \in Actor, UNCHANGED <<pc, inserted>>,
           pc[a] = "idle", NEW o \in G!Operation, NEW g \in OrNone(Graph), G!Begin(a, o, g)
    PROVE  GraphTypes' /\ GraphInv' /\ LockInv'
<1> USE ManagerAssumption, SessionsAssumption DEF G!Goto, G!Resolved, Place, Purpose, OrNone
<1>1. GraphTypes'
  BY DEF GraphTypes, GraphInv, TargetInv, G!Begin, G!Operation
<1>2. TargetInv'
  BY DEF GraphTypes, GraphInv, TargetInv, G!Begin, G!Operation
<1>3. AbsentInv'
  BY DEF GraphTypes, GraphInv, AbsentInv, LockInv, G!Begin, G!Operation
<1>4. CreatedInv'
  BY DEF GraphInv, CreatedInv, G!Begin
<1>5. LockInv'
  BY DEF GraphTypes, LockInv, G!Begin, G!Operation
<1> QED
  BY <1>1, <1>2, <1>3, <1>4, <1>5 DEF GraphInv

\* The default graph is read (DefaultGraph).
LEMMA DefaultGraphKeeps ==
    ASSUME GraphTypes, GraphInv, LockInv, NEW a \in Actor, UNCHANGED <<pc, inserted>>,
           G!DefaultGraph(a)
    PROVE  GraphTypes' /\ GraphInv' /\ LockInv'
<1> USE ManagerAssumption, SessionsAssumption DEF G!Goto, G!Resolved, Place, Purpose, OrNone
<1>1. GraphTypes'
  BY DEF GraphTypes, GraphInv, TargetInv, G!DefaultGraph
<1>2. TargetInv'
  BY DEF GraphTypes, GraphInv, TargetInv, G!DefaultGraph
<1>3. AbsentInv'
  BY DEF GraphTypes, GraphInv, AbsentInv, LockInv, G!DefaultGraph
<1>4. CreatedInv'
  BY DEF GraphInv, CreatedInv, G!DefaultGraph
<1>5. LockInv'
  BY DEF GraphTypes, LockInv, G!DefaultGraph
<1> QED
  BY <1>1, <1>2, <1>3, <1>4, <1>5 DEF GraphInv

\* The fast path of AssertGraph.
LEMMA AssertGraphKeeps ==
    ASSUME GraphTypes, GraphInv, LockInv, NEW a \in Actor, UNCHANGED <<pc, inserted>>,
           G!AssertGraph(a)
    PROVE  GraphTypes' /\ GraphInv' /\ LockInv'
<1> USE ManagerAssumption, SessionsAssumption DEF G!Goto, G!Resolved, Place, Purpose, OrNone
<1>1. GraphTypes'
  BY ZenonT(30) DEF GraphTypes, GraphInv, TargetInv, G!AssertGraph, G!After
<1>2. TargetInv'
  BY DEF GraphTypes, GraphInv, TargetInv, G!AssertGraph, G!After
<1>3. AbsentInv'
  BY DEF GraphTypes, GraphInv, AbsentInv, LockInv, G!AssertGraph, G!After
<1>4. CreatedInv'
  BY DEF GraphInv, CreatedInv, G!AssertGraph
<1>5. LockInv'
  BY DEF GraphTypes, LockInv, G!AssertGraph, G!After
<1> QED
  BY <1>1, <1>2, <1>3, <1>4, <1>5 DEF GraphInv

\* The second look of AssertGraph: the graph is not in memory when the lock is kept.
LEMMA LockAndLookAgainKeeps ==
    ASSUME GraphTypes, GraphInv, LockInv, NEW a \in Actor, UNCHANGED <<pc, inserted>>,
           G!LockAndLookAgain(a)
    PROVE  GraphTypes' /\ GraphInv' /\ LockInv'
<1> USE ManagerAssumption, SessionsAssumption DEF G!Goto, G!Resolved, Place, Purpose, OrNone
<1>1. GraphTypes'
  BY ZenonT(30) DEF GraphTypes, GraphInv, TargetInv, G!LockAndLookAgain, G!After
<1>2. TargetInv'
  BY DEF GraphTypes, GraphInv, TargetInv, G!LockAndLookAgain, G!After
<1>3. AbsentInv'
  BY DEF GraphTypes, GraphInv, AbsentInv, LockInv, G!LockAndLookAgain, G!After
<1>4. CreatedInv'
  BY DEF GraphInv, CreatedInv, G!LockAndLookAgain
<1>5. LockInv'
  BY DEF GraphTypes, LockInv, G!LockAndLookAgain, G!After
<1> QED
  BY <1>1, <1>2, <1>3, <1>4, <1>5 DEF GraphInv

\* The graph is found or created: no other transaction has created it, as it would
\* be in memory (assertGraph).
LEMMA AssertKeeps ==
    ASSUME GraphTypes, GraphInv, LockInv, NEW a \in Actor, UNCHANGED <<pc, inserted>>,
           G!assertGraph(a)
    PROVE  GraphTypes' /\ GraphInv' /\ LockInv'
<1> USE ManagerAssumption, SessionsAssumption DEF G!Goto, G!Resolved, G!Remember, Place, Purpose, OrNone
<1> DEFINE g == target[a]
<1>1. /\ g \in Graph /\ graphs[g] = None /\ lock = a /\ place[a] = "assert"
      /\ \A b \in Actor : created[b][g] = None
  <2>1. g \in Graph /\ place[a] = "assert" /\ lock = a
    BY DEF GraphInv, TargetInv, LockInv, G!assertGraph
  <2>2. graphs[g] = None
    BY <2>1 DEF GraphInv, AbsentInv
  <2>3. \A b \in Actor : created[b][g] = None
    BY <2>1, <2>2 DEF GraphInv, CreatedInv
  <2> QED
    BY <2>1, <2>2, <2>3
<1>2. PICK id \in Nat :
         /\ graphs' = [graphs EXCEPT ![g] = id] /\ given' = [given EXCEPT ![a] = id]
         /\ created' \in {created, [created EXCEPT ![a][g] = id]} /\ graphID' \in Nat
  <2>1. CASE G!Creates(a)
    BY <2>1 DEF GraphTypes, G!assertGraph
  <2>2. CASE ~G!Creates(a)
    <3>1. graphRows[g] \in Nat
      BY <2>2, <1>1 DEF GraphTypes, G!Creates, G!Visible
    <3> QED
      BY <2>2, <3>1 DEF GraphTypes, G!assertGraph
  <2> QED
    BY <2>1, <2>2
<1>3. UNCHANGED <<graphRows, defaultGraph, target, purpose>> /\ lock' = None
  BY DEF G!assertGraph
<1>4. PICK where \in {"setDefault", "open"} : place' = [place EXCEPT ![a] = where]
  BY ZenonT(30) DEF G!assertGraph, G!After
<1> HIDE DEF g
<1>5. \A b \in Actor, h \in Graph : created'[b][h] # None => created[b][h] # None \/ (b = a /\ h = g)
  <2>1. CASE created' = created
    BY <2>1
  <2>2. CASE created' = [created EXCEPT ![a][g] = id]
    BY <2>2, <1>1 DEF GraphTypes
  <2> QED
    BY <1>2, <2>1, <2>2
<1>6. created' \in [Actor -> [Graph -> OrNone(Nat)]]
  <2>1. created[a] \in [Graph -> OrNone(Nat)] /\ [created[a] EXCEPT ![g] = id] \in [Graph -> OrNone(Nat)]
    BY <1>1, <1>2 DEF GraphTypes
  <2>2. [created EXCEPT ![a][g] = id] = [created EXCEPT ![a] = [created[a] EXCEPT ![g] = id]]
    BY DEF GraphTypes
  <2> HIDE DEF OrNone
  <2> QED
    BY <1>2, <2>1, <2>2, ZenonT(30) DEF GraphTypes
<1>7. GraphTypes'
  BY <1>1, <1>2, <1>3, <1>4, <1>6, ZenonT(30) DEF GraphTypes
<1>8. TargetInv'
  BY <1>1, <1>2, <1>3, <1>4 DEF GraphTypes, GraphInv, TargetInv, g
<1>9. GraphInv'
  <2>1. AbsentInv'
    <3>1. \A b \in Actor : place'[b] # "assert"
      BY <1>1, <1>4 DEF GraphTypes, LockInv
    <3> QED
      BY <3>1 DEF AbsentInv
  <2>2. graphs'[g] # None /\ \A h \in Graph : h # g => graphs'[h] = graphs[h]
    BY <1>1, <1>2 DEF GraphTypes
  <2>3. \A b \in Actor, h \in Graph : created'[b][h] # None => graphs'[h] # None
    BY <1>5, <2>2 DEF GraphInv, CreatedInv
  <2>4. \A b, c \in Actor, h \in Graph : created'[b][h] # None /\ created'[c][h] # None => b = c
    <3>1. \A b, c \in Actor, h \in Graph : created[b][h] # None /\ created[c][h] # None => b = c
      BY DEF GraphInv, CreatedInv
    <3>2. \A b \in Actor : created[b][g] = None
      BY <1>1
    <3>3. ASSUME NEW b \in Actor, NEW c \in Actor, NEW h \in Graph, created'[b][h] # None, created'[c][h] # None
          PROVE  b = c
      <4>1. CASE h = g
        BY <4>1, <3>2, <3>3, <1>5
      <4>2. CASE h # g
        BY <4>2, <3>1, <3>3, <1>5
      <4> QED
        BY <4>1, <4>2
    <3> QED
      BY <3>3
  <2> QED
    BY <1>8, <2>1, <2>3, <2>4 DEF GraphInv, CreatedInv
<1>10. LockInv'
  BY <1>1, <1>3, <1>4, Exclusive DEF GraphTypes, LockInv
<1> QED
  BY <1>7, <1>9, <1>10

\* A statement of assertGraph fails.
LEMMA AssertFailsKeeps ==
    ASSUME GraphTypes, GraphInv, LockInv, NEW a \in Actor, UNCHANGED <<pc, inserted>>,
           G!AssertFails(a)
    PROVE  GraphTypes' /\ GraphInv' /\ LockInv'
<1> USE ManagerAssumption, SessionsAssumption DEF G!Goto, G!Resolved, Place, Purpose, OrNone
<1>1. GraphTypes'
  BY DEF GraphTypes, GraphInv, TargetInv, G!AssertFails
<1>2. TargetInv'
  BY DEF GraphTypes, GraphInv, TargetInv, G!AssertFails
<1>3. AbsentInv'
  BY DEF GraphTypes, GraphInv, AbsentInv, LockInv, G!AssertFails
<1>4. CreatedInv'
  BY DEF GraphInv, CreatedInv, G!AssertFails
<1>5. LockInv'
  BY DEF GraphTypes, LockInv, G!AssertFails
<1> QED
  BY <1>1, <1>2, <1>3, <1>4, <1>5 DEF GraphInv

\* The default graph is set (AssertDefaultGraph).
LEMMA AssertDefaultKeeps ==
    ASSUME GraphTypes, GraphInv, LockInv, NEW a \in Actor, UNCHANGED <<pc, inserted>>,
           G!AssertDefaultGraph(a)
    PROVE  GraphTypes' /\ GraphInv' /\ LockInv'
<1> USE ManagerAssumption, SessionsAssumption DEF G!Goto, G!Resolved, Place, Purpose, OrNone
<1>1. target[a] \in Graph /\ given[a] \in Nat /\ place[a] = "setDefault" /\ lock = None
  BY DEF GraphInv, TargetInv, G!AssertDefaultGraph
<1>2. \/ defaultGraph' = <<target[a], given[a]>> /\ graphs' = [graphs EXCEPT ![target[a]] = given[a]]
      \/ defaultGraph' = defaultGraph /\ graphs' = graphs
  BY DEF G!AssertDefaultGraph, G!setDefaultGraph
<1>3. /\ place' = [place EXCEPT ![a] = "open"]
      /\ UNCHANGED <<graphRows, graphID, created, purpose, target, given, lock>>
  BY DEF G!AssertDefaultGraph
<1>4. GraphTypes'
  <2>1. graphs' \in [Graph -> OrNone(Nat)]
    BY <1>1, <1>2 DEF GraphTypes
  <2>2. defaultGraph' # None => defaultGraph'[2] \in Nat
    BY <1>1, <1>2 DEF GraphTypes
  <2>3. place' \in [Actor -> Place]
    BY <1>3 DEF GraphTypes
  <2> QED
    BY <1>3, <2>1, <2>2, <2>3 DEF GraphTypes
<1>5. TargetInv'
  BY <1>1, <1>3 DEF GraphTypes, GraphInv, TargetInv
<1>6. AbsentInv'
  <2>1. \A b \in Actor : place'[b] # "assert"
    BY <1>1, <1>3 DEF GraphTypes, LockInv
  <2> QED
    BY <2>1 DEF AbsentInv
<1>7. CreatedInv'
  <2>1. \A g \in Graph : graphs[g] # None => graphs'[g] # None
    BY <1>1, <1>2 DEF GraphTypes
  <2> QED
    BY <1>3, <2>1, CreatedKept DEF GraphInv
<1>8. LockInv'
  BY <1>1, <1>3 DEF GraphTypes, LockInv
<1> QED
  BY <1>4, <1>5, <1>6, <1>7, <1>8 DEF GraphInv

\* The graph that is to be the default is read (SetDefaultGraph).
LEMMA SetDefaultKeeps ==
    ASSUME GraphTypes, GraphInv, LockInv, NEW a \in Actor, UNCHANGED <<pc, inserted>>,
           G!SetDefaultGraph(a)
    PROVE  GraphTypes' /\ GraphInv' /\ LockInv'
<1> USE ManagerAssumption, SessionsAssumption DEF G!Goto, G!Resolved, Place, Purpose, OrNone
<1>1. GraphTypes'
  <2>1. target[a] \in Graph
    BY DEF GraphInv, TargetInv, G!SetDefaultGraph
  <2>2. created[a] \in [Graph -> OrNone(Nat)] /\ graphRows \in [Graph -> OrNone(Nat)]
    BY DEF GraphTypes
  <2>3. G!Visible(a, target[a]) \in OrNone(Nat)
    BY <2>1, <2>2 DEF G!Visible
  <2>4. place' \in [Actor -> Place]
    <3>1. place \in [Actor -> Place]
      BY DEF GraphTypes
    <3>2. place' \in {[place EXCEPT ![a] = "setDefault"], [place EXCEPT ![a] = "failed"]}
      BY DEF G!SetDefaultGraph
    <3> QED
      BY <3>1, <3>2
  <2>5. given' \in [Actor -> OrNone(Nat)]
    BY <2>3 DEF GraphTypes, G!SetDefaultGraph
  <2>6. UNCHANGED <<graphRows, graphID, created, graphs, defaultGraph, target, purpose>>
    BY DEF G!SetDefaultGraph
  <2> QED
    BY <2>4, <2>5, <2>6 DEF GraphTypes
<1>2. TargetInv'
  <2>1. target[a] \in Graph /\ target' = target /\ purpose' = purpose
    BY DEF GraphInv, TargetInv, G!SetDefaultGraph
  <2>2. /\ given[a] \in OrNone(Nat)
        /\ given' = [given EXCEPT ![a] = given'[a]] /\ place' = [place EXCEPT ![a] = place'[a]]
        /\ place'[a] \in {"setDefault", "failed"}
    BY DEF GraphTypes, G!SetDefaultGraph
  <2>3. place'[a] = "setDefault" => given'[a] \in Nat
    <3>1. created[a][target[a]] \in OrNone(Nat) /\ graphRows[target[a]] \in OrNone(Nat)
      BY <2>1 DEF GraphTypes
    <3>2. G!Visible(a, target[a]) \in OrNone(Nat)
      BY <3>1 DEF G!Visible
    <3> QED
      BY <3>2 DEF GraphTypes, G!SetDefaultGraph, OrNone
  <2>4. ASSUME NEW b \in Actor, b # a PROVE place'[b] = place[b] /\ given'[b] = given[b]
    BY <2>2, <2>4 DEF GraphTypes
  <2> QED
    BY <2>1, <2>2, <2>3, <2>4 DEF GraphInv, TargetInv
<1>3. AbsentInv'
  BY DEF GraphTypes, GraphInv, AbsentInv, LockInv, G!SetDefaultGraph, G!Visible
<1>4. CreatedInv'
  BY DEF GraphInv, CreatedInv, G!SetDefaultGraph
<1>5. LockInv'
  BY DEF GraphTypes, LockInv, G!SetDefaultGraph, G!Visible
<1> QED
  BY <1>1, <1>2, <1>3, <1>4, <1>5 DEF GraphInv

\* A transaction commits.
LEMMA CommitSessionKeeps ==
    ASSUME GraphTypes, GraphInv, LockInv, NEW a \in Actor, UNCHANGED <<pc, inserted>>,
           G!Commit(a)
    PROVE  GraphTypes' /\ GraphInv' /\ LockInv'
<1> USE ManagerAssumption, SessionsAssumption DEF G!Goto, G!Resolved, Place, Purpose, OrNone
<1>1. GraphTypes'
  <2>1. graphRows' \in [Graph -> OrNone(Nat)]
    <3>1. \A g \in Graph : G!Visible(a, g) \in OrNone(Nat)
      BY DEF GraphTypes, G!Visible
    <3> QED
      BY <3>1 DEF G!Commit
  <2>2. created' \in [Actor -> [Graph -> OrNone(Nat)]]
    BY DEF GraphTypes, G!Commit, G!Close, G!NoGraphs
  <2>3. place' \in [Actor -> Place] /\ purpose' \in [Actor -> Purpose]
    BY DEF GraphTypes, G!Commit, G!Close
  <2>4. target' \in [Actor -> OrNone(Graph)] /\ given' \in [Actor -> OrNone(Nat)]
    BY DEF GraphTypes, G!Commit, G!Close
  <2>5. UNCHANGED <<graphID, graphs, defaultGraph>>
    BY DEF G!Commit
  <2> QED
    BY <2>1, <2>2, <2>3, <2>4, <2>5 DEF GraphTypes
<1>2. TargetInv'
  BY DEF GraphTypes, GraphInv, TargetInv, G!Commit, G!Close, G!Visible, G!NoGraphs
<1>3. AbsentInv'
  BY DEF GraphTypes, GraphInv, AbsentInv, LockInv, G!Commit, G!Close, G!Visible, G!NoGraphs
<1>4. CreatedInv'
  <2>1. \A b \in Actor, g \in Graph : created'[b][g] # None => created[b][g] # None
    BY DEF GraphTypes, G!Commit, G!Close, G!NoGraphs
  <2>2. graphs' = graphs
    BY DEF G!Commit
  <2> QED
    BY <2>1, <2>2, CreatedKept DEF GraphInv
<1>5. LockInv'
  BY DEF GraphTypes, LockInv, G!Commit, G!Close, G!Visible, G!NoGraphs
<1> QED
  BY <1>1, <1>2, <1>3, <1>4, <1>5 DEF GraphInv

\* A transaction is rolled back; its graphs stay in memory.
LEMMA RollbackKeeps ==
    ASSUME GraphTypes, GraphInv, LockInv, NEW a \in Actor, UNCHANGED <<pc, inserted>>,
           G!Rollback(a)
    PROVE  GraphTypes' /\ GraphInv' /\ LockInv'
<1> USE ManagerAssumption, SessionsAssumption DEF G!Goto, G!Resolved, Place, Purpose, OrNone
<1>1. GraphTypes'
  <2>1. graphRows' \in [Graph -> OrNone(Nat)]
    BY DEF GraphTypes, G!Rollback
  <2>2. created' \in [Actor -> [Graph -> OrNone(Nat)]]
    BY DEF GraphTypes, G!Rollback, G!Close, G!NoGraphs
  <2>3. place' \in [Actor -> Place] /\ purpose' \in [Actor -> Purpose]
    BY DEF GraphTypes, G!Rollback, G!Close
  <2>4. target' \in [Actor -> OrNone(Graph)] /\ given' \in [Actor -> OrNone(Nat)]
    BY DEF GraphTypes, G!Rollback, G!Close
  <2>5. UNCHANGED <<graphID, graphs, defaultGraph>>
    BY DEF G!Rollback
  <2> QED
    BY <2>1, <2>2, <2>3, <2>4, <2>5 DEF GraphTypes
<1>2. TargetInv'
  BY DEF GraphTypes, GraphInv, TargetInv, G!Rollback, G!Close, G!NoGraphs
<1>3. AbsentInv'
  BY DEF GraphTypes, GraphInv, AbsentInv, LockInv, G!Rollback, G!Close, G!NoGraphs
<1>4. CreatedInv'
  <2>1. \A b \in Actor, g \in Graph : created'[b][g] # None => created[b][g] # None
    BY DEF GraphTypes, G!Rollback, G!Close, G!NoGraphs
  <2>2. graphs' = graphs
    BY DEF G!Rollback
  <2> QED
    BY <2>1, <2>2, CreatedKept DEF GraphInv
<1>5. LockInv'
  BY DEF GraphTypes, LockInv, G!Rollback, G!Close, G!NoGraphs
<1> QED
  BY <1>1, <1>2, <1>3, <1>4, <1>5 DEF GraphInv

\* Another process creates a graph (CreatedElsewhere).
LEMMA CreatedElsewhereKeeps ==
    ASSUME GraphTypes, GraphInv, LockInv, UNCHANGED <<pc, inserted>>, NEW g \in Graph, G!CreatedElsewhere(g)
    PROVE  GraphTypes' /\ GraphInv' /\ LockInv'
<1>1. GraphTypes'
  <2>1. graphRows' \in [Graph -> OrNone(Nat)] /\ graphID' \in Nat
    <3>1. graphRows \in [Graph -> OrNone(Nat)] /\ graphID \in Nat
      BY DEF GraphTypes
    <3>2. graphRows' = [graphRows EXCEPT ![g] = graphID] /\ graphID' = graphID + 1
      BY DEF G!CreatedElsewhere
    <3> QED
      BY <3>1, <3>2 DEF OrNone
  <2>2. UNCHANGED <<created, graphs, defaultGraph, place, purpose, target, given>>
    BY DEF G!CreatedElsewhere
  <2> QED
    BY <2>1, <2>2 DEF GraphTypes
<1>2. GraphInv'
  BY DEF GraphInv, TargetInv, AbsentInv, CreatedInv, G!CreatedElsewhere
<1>3. LockInv'
  BY DEF LockInv, G!CreatedElsewhere
<1> QED
  BY <1>1, <1>2, <1>3

\* A step of the graphs' half of SchemaManager keeps what is known of the kinds.
LEMMA GraphStepKeeps ==
    ASSUME IInv, UNCHANGED kinds, Onwards, GraphTypes' /\ GraphInv' /\ LockInv'
    PROVE  IInv'
BY KindsUntouched, NoAnswer DEF IInv, Onwards

-----------------------------------------------------------------------------
\* The invariant holds at first (NewSchemaManager).
LEMMA InitIInv == Init => IInv
<1> SUFFICES ASSUME Init PROVE IInv
  OBVIOUS
<1> USE ManagerAssumption DEF Init, NewSchemaManager
<1>1. KindTypes
  BY DEF KindTypes, OrNone, Op
<1>2. GraphTypes /\ GraphInv
  BY DEF GraphTypes, GraphInv, TargetInv, AbsentInv, CreatedInv, OrNone, Place, Purpose, G!Init, G!NoGraphs
<1>3. LockInv
  BY DEF LockInv, G!Init
<1>4. NameInv
  BY DEF NameInv, Named, ID
<1>5. MemoryInv /\ TodoInv
  BY DEF MemoryInv, Effective, TodoInv
<1>6. AnswerInv
  BY DEF AnswerInv, AssertedComplete, ReturnedIsDefined, Succeeded
<1> QED
  BY <1>1, <1>2, <1>3, <1>4, <1>5, <1>6 DEF IInv, KindInv

\* Every step of a session keeps the invariant.
LEMMA StepIInv == IInv /\ [Sessions]_<<vars, registry>> => IInv'
<1> SUFFICES ASSUME IInv, [Sessions]_<<vars, registry>> PROVE IInv'
  OBVIOUS
<1>1. ASSUME NEW a \in Actor, NEW o \in G!Operation, NEW g \in Graph \cup {None}, BeginSession(a, o, g)
      PROVE  IInv'
  BY <1>1, BeginSessionKeeps, GraphStepKeeps DEF BeginSession, kinds, dbVars, IInv, OrNone
<1>2. ASSUME NEW a \in Actor, ResolveGraph(a) PROVE IInv'
  <2>1. GraphTypes' /\ GraphInv' /\ LockInv'
    BY <1>2, DefaultGraphKeeps, AssertGraphKeeps, LockAndLookAgainKeeps, AssertKeeps, AssertFailsKeeps,
       AssertDefaultKeeps, SetDefaultKeeps
    DEF ResolveGraph, G!Resolve, kinds, dbVars, IInv
  <2> QED
    BY <1>2, <2>1, GraphStepKeeps DEF ResolveGraph
<1>3. ASSUME NEW a \in Actor, EndSession(a) PROVE IInv'
  BY <1>3, CommitSessionKeeps, RollbackKeeps, GraphStepKeeps DEF EndSession, kinds, dbVars, IInv
<1>4. ASSUME NEW a \in Actor, UseKinds(a) PROVE IInv'
  BY <1>4, BeginKeeps, CheckKeeps, LockKeeps, ConnectKeeps, FetchKeeps, DefineKeeps, CommitKeeps,
     ExhaustedKeeps, FailKeeps, ConnectFailsKeeps
  DEF UseKinds, Step
<1>5. CASE Elsewhere
  BY <1>5, DefinedElsewhereKeeps, CreatedElsewhereKeeps, GraphStepKeeps DEF Elsewhere, kinds, dbVars, IInv
<1>6. CASE UNCHANGED <<vars, registry>>
  <2>1. UNCHANGED registry /\ UNCHANGED kinds /\ UNCHANGED <<op, want, lock, answer>>
    BY <1>6 DEF vars, kinds, dbVars, memory
  <2>2. LockInv'
    BY <2>1 DEF IInv, LockInv, kinds, dbVars, registry
  <2>3. AnswerInv'
    BY <2>1 DEF IInv, AnswerInv, AssertedComplete, ReturnedIsDefined, Succeeded, kinds, dbVars
  <2> QED
    BY <2>1, <2>2, <2>3, GraphsUntouched, KindsUntouched DEF IInv
<1> QED
  BY <1>1, <1>2, <1>3, <1>4, <1>5, <1>6 DEF Sessions

\* The invariant holds in every session: the lock of SchemaManager orders its two
\* halves, and the maps in memory agree with the open transaction.
THEOREM SessionsInvariant == SessionSpec => []IInv
<1> QED
  BY InitIInv, StepIInv, PTL DEF SessionSpec

\* In every session of the driver an ID stands for one kind, in the table kind,
\* in what a transaction has inserted and in both maps of SchemaManager.
THEOREM SessionsOneKindPerID == SessionSpec => []OneKindPerID
<1>1. ASSUME NEW S, \A x, y \in S : x = y PROVE Cardinality(S) <= 1
  <2>1. CASE S = {}
    BY <2>1, FS_EmptySet
  <2>2. CASE S # {}
    <3>1. PICK x \in S : S = {x}
      BY <2>2, <1>1
    <3> QED
      BY <3>1, FS_Singleton
  <2> QED
    BY <2>1, <2>2
<1>2. IInv => OneKindPerID
  BY <1>1 DEF IInv, KindInv, NameInv, Named, OneKindPerID
<1> QED
  BY <1>2, SessionsInvariant, PTL

\* AssertKinds answers for every kind it was asked for.
THEOREM SessionsAssertComplete == SessionSpec => []AssertedComplete
<1>1. IInv => AssertedComplete
  BY DEF IInv, AnswerInv
<1> QED
  BY <1>1, SessionsInvariant, PTL

\* Until a transaction of the manager fails every answer is in the committed
\* table (AssertKinds, MapKinds, MapKindIDs).
THEOREM SessionsAnswersDefined == SessionSpec => []ReturnedIsDefined
<1>1. IInv => ReturnedIsDefined
  BY DEF IInv, AnswerInv
<1> QED
  BY <1>1, SessionsInvariant, PTL

\* Two open transactions never both insert one graph (AssertGraph).
THEOREM SessionsOneCreator == SessionSpec => []OneCreator
<1>1. IInv => OneCreator
  BY DEF IInv, GraphInv, CreatedInv, OneCreator, G!OneCreator
<1> QED
  BY <1>1, SessionsInvariant, PTL

\* A kind that is in memory with the ID of the committed table stays there (fetch, defineKinds).
THEOREM SessionsKnownStaysKnown == SessionSpec => KnownStaysKnown
<1> DEFINE Stays == \A k \in Kind : kindsByID[k] # None /\ kindsByID[k] = rows[k] => kindsByID'[k] = kindsByID[k]
<1>1. IInv /\ [Sessions]_<<vars, registry>> => [Stays]_vars
  <2> SUFFICES ASSUME IInv, Sessions PROVE Stays
    BY DEF vars
  <2>1. ASSUME UNCHANGED kindsByID PROVE Stays
    BY <2>1
  <2>2. ASSUME NEW a \in Actor, UseKinds(a) PROVE Stays
    <3>1. CASE fetch(a)
      BY <3>1 DEF fetch, Fetched
    <3>2. ASSUME NEW k \in Kind, defineKind(a, k) PROVE Stays
      BY <3>2 DEF defineKind, InsertOrGetKind, IInv, KindTypes
    <3>3. fetch(a) \/ (\E k \in Kind : defineKind(a, k)) \/ UNCHANGED kindsByID
      BY <2>2 DEF UseKinds, Step, Begin, Check, Lock, Connect, Commit, Exhausted, Fail, ConnectFails, memory
    <3> QED
      BY <3>1, <3>2, <3>3, <2>1
  <2>3. (\E a \in Actor : UseKinds(a)) \/ UNCHANGED kindsByID
    BY DEF Sessions, BeginSession, ResolveGraph, EndSession, Elsewhere, DefinedElsewhere, kinds, memory
  <2> QED
    BY <2>1, <2>2, <2>3
<1> QED
  BY <1>1, SessionsInvariant, PTL DEF SessionSpec, KnownStaysKnown
=============================================================================
