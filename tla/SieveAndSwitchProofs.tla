------------------------ MODULE SieveAndSwitchProofs ------------------------
(***************************************************************************)
(* Proofs about two components that stand on their own.                    *)
(*                                                                         *)
(* The clock-hand cache, for every set of keys and values and every        *)
(* capacity: its types, the agreement of its map with its eviction queue,  *)
(* the validity of its hand, the second chance, and that it implements the *)
(* abstract bounded cache.                                                 *)
(*                                                                         *)
(* graph.DatabaseSwitch, for any number of operations and of switches one  *)
(* after the other.                                                        *)
(***************************************************************************)
EXTENDS Sieve, DatabaseSwitch, FiniteSetTheorems, SequenceTheorems, WellFoundedInduction, TLAPS

-----------------------------------------------------------------------------
(* The cache.                                                              *)

\* The invariant the other facts follow from.  It is inductive: the hand and
\* the victim are positions of the queue because the hand is in the queue,
\* and the queue and the map change by the same key because the queue holds
\* every key once.
Inv == TypeOK /\ QueueMatchesStore /\ HandInQueue

\* Every set of numbers up to n that is not empty has a least element.
LEMMA LeastElement ==
    ASSUME NEW n \in Nat, NEW T \in SUBSET (0..n), T # {}
    PROVE  \E x \in T : \A y \in T : x <= y
<1> DEFINE W == {0..x : x \in T}
<1>1. W \subseteq SUBSET (0..n) /\ W # {}
  <2>1. \A x \in T : 0..x \in SUBSET (0..n)
    OBVIOUS
  <2> QED BY <2>1, ZenonT(30)
<1>2. IsWellFoundedOn(StrictSubsetOrdering(0..n), SUBSET (0..n))
  <2>1. IsFiniteSet(0..n)
    BY FS_Interval
  <2> QED BY <2>1, FS_FiniteSubsetsOfFinite, FS_StrictSubsetOrderingWellFounded, ZenonT(30)
<1> HIDE DEF W
<1>3. PICK w \in W : \A v \in W : ~(<<v, w>> \in StrictSubsetOrdering(0..n))
  BY <1>1, <1>2, WFMin, ZenonT(30)
<1>4. PICK x \in T : w = 0..x
  BY <1>3 DEF W
<1>5. ASSUME NEW y \in T, y < x
      PROVE  FALSE
  <2>1. 0..y \in W
    BY DEF W
  <2>2. /\ 0..y \subseteq 0..x
        /\ x \in 0..x
        /\ x \notin 0..y
    BY <1>5
  <2>3. <<0..y, w>> \in StrictSubsetOrdering(0..n)
    BY <1>1, <1>4, <2>1, <2>2 DEF StrictSubsetOrdering
  <2> QED BY <1>3, <2>1, <2>3
<1> QED BY <1>5

\* What RemoveAt, the removal of a list element, does to a sequence.
LEMMA RemoveAtProperties ==
    ASSUME NEW S, NEW s \in Seq(S), NEW i \in 1..Len(s)
    PROVE  /\ RemoveAt(s, i) \in Seq(S)
           /\ Len(RemoveAt(s, i)) = Len(s) - 1
           /\ \A j \in 1..(Len(s) - 1) :
                 RemoveAt(s, i)[j] = IF j < i THEN s[j] ELSE s[j + 1]
<1> DEFINE a == SubSeq(s, 1, i - 1)
           b == SubSeq(s, i + 1, Len(s))
<1>1. /\ Len(s) \in Nat
      /\ \A j \in 1..Len(s) : s[j] \in S
  BY LenProperties
<1>2. /\ a \in Seq(S)
      /\ Len(a) = i - 1
      /\ \A j \in 1..(i - 1) : a[j] = s[j]
  <2>1. \A j \in 1..(i - 1) : s[j] \in S
    BY <1>1
  <2> HIDE DEF a
  <2> QED BY <1>1, <2>1, SubSeqProperties DEF a
<1>3. /\ b \in Seq(S)
      /\ Len(b) = Len(s) - i
      /\ \A j \in 1..(Len(s) - i) : b[j] = s[i + j]
  <2>1. \A j \in (i + 1)..Len(s) : s[j] \in S
    BY <1>1
  <2> HIDE DEF b
  <2> QED BY <1>1, <2>1, SubSeqProperties DEF b
<1> HIDE DEF a, b
<1>4. /\ a \o b \in Seq(S)
      /\ Len(a \o b) = Len(a) + Len(b)
      /\ \A j \in 1..(Len(a) + Len(b)) :
            (a \o b)[j] = IF j <= Len(a) THEN a[j] ELSE b[j - Len(a)]
  BY <1>2, <1>3, ConcatProperties, ZenonT(30)
<1>5. RemoveAt(s, i) = a \o b
  BY DEF RemoveAt, a, b
<1>6. Len(a) + Len(b) = Len(s) - 1
  BY <1>1, <1>2, <1>3
<1>7. ASSUME NEW j \in 1..(Len(s) - 1)
      PROVE  (a \o b)[j] = IF j < i THEN s[j] ELSE s[j + 1]
  <2>1. CASE j < i
    BY <2>1, <1>1, <1>2, <1>4, <1>6
  <2>2. CASE i <= j
    <3>1. j - Len(a) \in 1..(Len(s) - i) /\ i + (j - Len(a)) = j + 1
      BY <2>2, <1>1, <1>2
    <3>2. (a \o b)[j] = b[j - Len(a)]
      BY <2>2, <1>1, <1>2, <1>4, <1>6
    <3>3. b[j - Len(a)] = s[i + (j - Len(a))]
      BY <3>1, <1>3, ZenonT(30)
    <3> QED BY <2>2, <3>1, <3>2, <3>3, SMTT(30)
  <2>3. j < i \/ i <= j
    BY <1>1
  <2> QED BY <2>1, <2>2, <2>3, ZenonT(30)
<1> QED BY <1>4, <1>5, <1>6, <1>7

\* What PushFront does to a sequence.
LEMMA PushFrontProperties ==
    ASSUME NEW S, NEW s \in Seq(S), NEW k \in S
    PROVE  /\ <<k>> \o s \in Seq(S)
           /\ Len(<<k>> \o s) = Len(s) + 1
           /\ \A j \in 1..(Len(s) + 1) :
                 (<<k>> \o s)[j] = IF j = 1 THEN k ELSE s[j - 1]
<1>1. <<k>> \in Seq(S) /\ Len(<<k>>) = 1 /\ <<k>>[1] = k
  OBVIOUS
<1>2. Len(s) \in Nat
  BY LenProperties
<1> QED BY <1>1, <1>2, ConcatProperties

\* Removing an element of a list without duplicates removes its key and
\* leaves no duplicates.
LEMMA RemoveAtSet ==
    ASSUME NEW S, NEW s \in Seq(S), NEW i \in 1..Len(s), IsInjective(s)
    PROVE  /\ ToSet(RemoveAt(s, i)) = ToSet(s) \ {s[i]}
           /\ IsInjective(RemoveAt(s, i))
<1> DEFINE r == RemoveAt(s, i)
<1>1. Len(s) \in Nat /\ DOMAIN s = 1..Len(s)
  BY LenProperties
<1>2. /\ r \in Seq(S)
      /\ Len(r) = Len(s) - 1
      /\ \A j \in 1..(Len(s) - 1) : r[j] = IF j < i THEN s[j] ELSE s[j + 1]
  BY RemoveAtProperties
<1> HIDE DEF r
<1>3. DOMAIN r = 1..(Len(s) - 1)
  BY <1>2, LenProperties
<1>4. \A a, b \in 1..Len(s) : s[a] = s[b] => a = b
  BY <1>1 DEF IsInjective
<1>5. IsInjective(r)
  <2> SUFFICES ASSUME NEW a \in 1..(Len(s) - 1), NEW b \in 1..(Len(s) - 1), r[a] = r[b]
               PROVE  a = b
    BY <1>3 DEF IsInjective
  <2>1. r[a] = s[IF a < i THEN a ELSE a + 1] /\ r[b] = s[IF b < i THEN b ELSE b + 1]
    BY <1>2
  <2>2. /\ (IF a < i THEN a ELSE a + 1) \in 1..Len(s)
        /\ (IF b < i THEN b ELSE b + 1) \in 1..Len(s)
    BY <1>1
  <2>3. (IF a < i THEN a ELSE a + 1) = (IF b < i THEN b ELSE b + 1)
    BY <2>1, <2>2, <1>4, ZenonT(30)
  <2> QED BY <2>3, <1>1
<1>6. ToSet(r) \subseteq ToSet(s) \ {s[i]}
  <2> SUFFICES ASSUME NEW j \in 1..(Len(s) - 1)
               PROVE  r[j] \in ToSet(s) /\ r[j] # s[i]
    BY <1>3 DEF ToSet
  <2> DEFINE m == IF j < i THEN j ELSE j + 1
  <2>1. m \in 1..Len(s) /\ m # i
    BY <1>1
  <2>2. r[j] = s[m]
    BY <1>2
  <2> HIDE DEF m
  <2> QED BY <2>1, <2>2, <1>1, <1>4 DEF ToSet
<1>7. ToSet(s) \ {s[i]} \subseteq ToSet(r)
  <2> SUFFICES ASSUME NEW m \in 1..Len(s), s[m] # s[i]
               PROVE  s[m] \in ToSet(r)
    BY <1>1 DEF ToSet
  <2> DEFINE j == IF m < i THEN m ELSE m - 1
  <2>1. m # i
    OBVIOUS
  <2>2. j \in 1..(Len(s) - 1) /\ m = IF j < i THEN j ELSE j + 1
    BY <1>1, <2>1
  <2>3. r[j] = s[m]
    BY <1>2, <2>2
  <2> HIDE DEF j
  <2> QED BY <1>3, <2>2, <2>3 DEF ToSet
<1> QED BY <1>5, <1>6, <1>7 DEF r

\* Pushing a key that is not in the list adds it and keeps the list without
\* duplicates.
LEMMA PushFrontSet ==
    ASSUME NEW S, NEW s \in Seq(S), NEW k \in S, IsInjective(s), k \notin ToSet(s)
    PROVE  /\ ToSet(<<k>> \o s) = {k} \cup ToSet(s)
           /\ IsInjective(<<k>> \o s)
<1> DEFINE r == <<k>> \o s
<1>1. Len(s) \in Nat /\ DOMAIN s = 1..Len(s)
  BY LenProperties
<1>2. /\ r \in Seq(S)
      /\ Len(r) = Len(s) + 1
      /\ \A j \in 1..(Len(s) + 1) : r[j] = IF j = 1 THEN k ELSE s[j - 1]
  BY PushFrontProperties
<1> HIDE DEF r
<1>3. DOMAIN r = 1..(Len(s) + 1)
  BY <1>2, LenProperties
<1>4. /\ \A a, b \in 1..Len(s) : s[a] = s[b] => a = b
      /\ \A a \in 1..Len(s) : s[a] # k
  BY <1>1 DEF IsInjective, ToSet
<1>5. \A j \in 2..(Len(s) + 1) : j - 1 \in 1..Len(s) /\ r[j] = s[j - 1]
  BY <1>1, <1>2
<1>6. r[1] = k
  BY <1>1, <1>2
<1>7. IsInjective(r)
  BY <1>1, <1>3, <1>4, <1>5, <1>6 DEF IsInjective
<1>8. ToSet(r) \subseteq {k} \cup ToSet(s)
  <2> SUFFICES ASSUME NEW j \in 1..(Len(s) + 1), j # 1
               PROVE  r[j] \in ToSet(s)
    BY <1>3, <1>6 DEF ToSet
  <2> QED BY <1>1, <1>5 DEF ToSet
<1>9. ToSet(s) \subseteq ToSet(r)
  <2> SUFFICES ASSUME NEW m \in 1..Len(s)
               PROVE  s[m] \in ToSet(r)
    BY <1>1 DEF ToSet
  <2>1. m + 1 \in 2..(Len(s) + 1) /\ (m + 1) - 1 = m
    BY <1>1
  <2>2. r[m + 1] = s[m]
    BY <1>5, <2>1
  <2>3. m + 1 \in DOMAIN r
    BY <1>1, <1>3
  <2> QED BY <2>2, <2>3 DEF ToSet
<1>10. k \in ToSet(r)
  BY <1>1, <1>3, <1>6 DEF ToSet
<1> QED BY <1>7, <1>8, <1>9, <1>10 DEF r

\* The capacity is at least one.
LEMMA CapacityPositive == Capacity \in Nat \ {0}
BY CapacityAssumption DEF Capacity

\* The position of a key of the queue is one, and holds that key.
LEMMA IndexOfProperties ==
    ASSUME Inv, NEW k \in ToSet(queue)
    PROVE  IndexOf(k) \in 1..Len(queue) /\ queue[IndexOf(k)] = k
<1>1. DOMAIN queue = 1..Len(queue)
  BY LenProperties DEF Inv, TypeOK
<1>2. \E i \in 1..Len(queue) : queue[i] = k
  BY <1>1 DEF ToSet
<1> QED BY <1>2 DEF IndexOf

\* evict starts at a position of the queue.
LEMMA HandIndexProperties ==
    ASSUME Inv, Len(queue) > 0
    PROVE  HandIndex \in 1..Len(queue)
<1>1. Len(queue) \in Nat
  BY LenProperties DEF Inv, TypeOK
<1>2. CASE hand = Nil
  BY <1>1, <1>2 DEF HandIndex
<1>3. CASE hand # Nil
  <2>1. hand \in ToSet(queue)
    BY <1>3 DEF Inv, HandInQueue
  <2> QED BY <1>3, <2>1, IndexOfProperties DEF HandIndex
<1> QED BY <1>2, <1>3

\* evict stops at a position of the queue, at an unvisited entry if there is
\* one: the walk is bounded, so one of the unvisited entries comes first.
LEMMA VictimIndexProperties ==
    ASSUME Inv, Len(queue) > 0
    PROVE  /\ VictimIndex \in 1..Len(queue)
           /\ Unvisited # {} => VictimIndex \in Unvisited
<1>1. Len(queue) \in Nat
  BY LenProperties DEF Inv, TypeOK
<1>2. HandIndex \in 1..Len(queue)
  BY HandIndexProperties
<1>3. CASE Unvisited = {}
  BY <1>2, <1>3 DEF VictimIndex
<1>4. CASE Unvisited # {}
  <2>1. \A i \in 1..Len(queue) : Passed(i) \in 0..Len(queue)
    BY <1>1, <1>2 DEF Passed
  <2>2. Unvisited \subseteq 1..Len(queue)
    BY DEF Unvisited
  <2> DEFINE T == {Passed(i) : i \in Unvisited}
  <2>3. T \in SUBSET (0..Len(queue)) /\ T # {}
    BY <2>1, <2>2, <1>4, ZenonT(30)
  <2>4. PICK p \in T : \A q \in T : p <= q
    <3> HIDE DEF T
    <3> QED BY <1>1, <2>3, LeastElement, ZenonT(30)
  <2>5. \E i \in Unvisited : \A j \in Unvisited : Passed(i) <= Passed(j)
    BY <2>4
  <2>6. VictimIndex \in Unvisited
    BY <1>4, <2>5 DEF VictimIndex
  <2> QED BY <2>2, <2>6
<1> QED BY <1>3, <1>4

\* The element before a position of the queue is nil or another key of it.
LEMMA PrevProperties ==
    ASSUME Inv, NEW i \in 1..Len(queue)
    PROVE  Prev(i) = Nil \/ Prev(i) \in ToSet(queue) \ {queue[i]}
<1>1. Len(queue) \in Nat /\ DOMAIN queue = 1..Len(queue)
  BY LenProperties DEF Inv, TypeOK
<1>2. CASE i # 1
  <2>1. i - 1 \in 1..Len(queue) /\ i - 1 # i
    BY <1>1, <1>2
  <2>2. queue[i - 1] # queue[i]
    BY <1>1, <2>1 DEF Inv, QueueMatchesStore, IsInjective
  <2> QED BY <1>1, <1>2, <2>1, <2>2 DEF Prev, ToSet
<1> QED BY <1>2 DEF Prev

\* The queue has a length and the keys of the map.
LEMMA QueueFacts ==
    ASSUME Inv
    PROVE  /\ Len(queue) \in Nat
           /\ queue \in Seq(Key)
           /\ IsInjective(queue)
           /\ \A k \in Key : k \in ToSet(queue) <=> store[k] # Absent
           /\ ToSet(queue) \subseteq Key
<1>1. queue \in Seq(Key) /\ IsInjective(queue) /\ ToSet(queue) = Held
  BY DEF Inv, TypeOK, QueueMatchesStore
<1> QED BY <1>1, LenProperties DEF Held

\* Put of a key that is in the cache keeps the invariant.
LEMMA UpdateInv ==
    ASSUME Inv, NEW k \in Key, NEW v \in Value, Update(k, v)
    PROVE  Inv'
<1>1. TypeOK'
  BY DEF Inv, TypeOK, Update, Call
<1>2. v # Absent
  BY AbsentAssumption
<1>3. Held' = Held
  BY <1>2 DEF Inv, TypeOK, Update, Held
<1>4. QueueMatchesStore'
  BY <1>3 DEF Inv, Update, QueueMatchesStore
<1>5. HandInQueue'
  BY QueueFacts DEF Inv, Update, HandInQueue
<1> QED BY <1>1, <1>4, <1>5 DEF Inv

\* Put of a new key keeps it while there is room.
LEMMA InsertInv ==
    ASSUME Inv, NEW k \in Key, NEW v \in Value, Insert(k, v)
    PROVE  Inv'
<1> USE DEF Insert
<1>1. k \notin ToSet(queue)
  BY QueueFacts
<1>2. /\ queue' \in Seq(Key)
      /\ Len(queue') = Len(queue) + 1
      /\ ToSet(queue') = {k} \cup ToSet(queue)
      /\ IsInjective(queue')
  BY <1>1, QueueFacts, PushFrontProperties, PushFrontSet
<1>3. TypeOK'
  BY <1>2 DEF Inv, TypeOK, Call
<1>4. v # Absent
  BY AbsentAssumption
<1>5. Held' = {k} \cup Held
  BY <1>4 DEF Inv, TypeOK, Held
<1>6. size' = Len(queue') /\ size' <= Capacity
  BY <1>2, QueueFacts, CapacityPositive DEF Inv, QueueMatchesStore, Full
<1>7. QueueMatchesStore'
  BY <1>2, <1>5, <1>6 DEF Inv, QueueMatchesStore
<1>8. HandInQueue'
  BY <1>2 DEF Inv, HandInQueue
<1> QED BY <1>3, <1>7, <1>8 DEF Inv

\* Put of a new key keeps it when an entry has to go.
LEMMA EvictAndInsertInv ==
    ASSUME Inv, NEW k \in Key, NEW v \in Value, EvictAndInsert(k, v)
    PROVE  Inv'
<1> USE DEF EvictAndInsert
<1> DEFINE i == VictimIndex
           x == queue[i]
           r == RemoveAt(queue, i)
<1>1. Len(queue) > 0
  BY QueueFacts, CapacityPositive DEF Full
<1>2. i \in 1..Len(queue) /\ (Unvisited # {} => i \in Unvisited)
  BY <1>1, VictimIndexProperties
<1> HIDE DEF i
<1>3. x \in ToSet(queue) /\ x \in Key
  BY <1>2, QueueFacts, LenProperties DEF ToSet
<1>4. k \notin ToSet(queue) /\ x # k
  BY <1>3, QueueFacts
<1>5. /\ r \in Seq(Key)
      /\ Len(r) = Len(queue) - 1
      /\ ToSet(r) = ToSet(queue) \ {x}
      /\ IsInjective(r)
  BY <1>2, QueueFacts, RemoveAtProperties, RemoveAtSet
<1>6. queue' = <<k>> \o r
  BY DEF i
<1> HIDE DEF r
<1>7. k \notin ToSet(r)
  BY <1>4, <1>5
<1>8. /\ queue' \in Seq(Key)
      /\ Len(queue') = Len(r) + 1
      /\ ToSet(queue') = {k} \cup ToSet(r)
      /\ IsInjective(queue')
  <2> HIDE DEF EvictAndInsert
  <2> QED BY <1>5, <1>6, <1>7, PushFrontProperties, PushFrontSet
<1>9. v # Absent
  BY AbsentAssumption
<1>10. store' = [store EXCEPT ![x] = Absent, ![k] = v] /\ hand' = Prev(i)
  BY DEF i
<1> HIDE DEF x
<1>11. Held' = {k} \cup (Held \ {x})
  BY <1>3, <1>4, <1>9, <1>10 DEF Inv, TypeOK, Held
<1>12. hand' = Nil \/ hand' \in ToSet(queue) \ {x}
  BY <1>2, <1>10, PrevProperties DEF x
<1>13. hand' \in ToSet(queue') \cup {Nil}
  BY <1>5, <1>8, <1>12, ZenonT(30)
<1>14. visited' \subseteq ToSet(queue')
  <2>1. x \notin visited'
    <3>1. CASE Unvisited = {}
      BY <1>3, <3>1 DEF Cleared
    <3>2. CASE Unvisited # {}
      BY <1>2, <3>2 DEF Unvisited, x
    <3> QED BY <3>1, <3>2
  <2>2. visited' \subseteq ToSet(queue)
    BY DEF Inv, HandInQueue
  <2> QED BY <1>5, <1>8, <2>1, <2>2
<1>15. TypeOK'
  <2>1. store' \in [Key -> Value \cup {Absent}]
    BY <1>10 DEF Inv, TypeOK
  <2>2. visited' \in SUBSET Key /\ size' \in Int /\ last' \in Call \cup {<< >>}
    BY DEF Inv, TypeOK, Call
  <2>3. hand' \in Key \cup {Nil}
    BY <1>12, QueueFacts
  <2> QED BY <1>8, <2>1, <2>2, <2>3, ZenonT(30) DEF TypeOK
<1>16. size' = Len(queue') /\ size' <= Capacity
  BY <1>5, <1>8, QueueFacts DEF Inv, QueueMatchesStore
<1>17. QueueMatchesStore'
  BY <1>5, <1>8, <1>11, <1>16, ZenonT(30) DEF Inv, QueueMatchesStore
<1> QED BY <1>13, <1>14, <1>15, <1>17 DEF Inv, HandInQueue

\* Get keeps it: only the visited flag changes.
LEMMA GetInv ==
    ASSUME Inv, NEW k \in Key, Get(k)
    PROVE  Inv'
<1> USE DEF Get
<1>1. TypeOK'
  BY DEF Inv, TypeOK, Call
<1>2. Held' = Held
  BY DEF Held
<1>3. QueueMatchesStore'
  BY <1>2 DEF Inv, QueueMatchesStore
<1>4. HandInQueue'
  BY QueueFacts DEF Inv, HandInQueue
<1> QED BY <1>1, <1>3, <1>4 DEF Inv

\* Delete keeps it: the hand leaves the entry that is removed.
LEMMA DeleteInv ==
    ASSUME Inv, NEW k \in Key, Delete(k)
    PROVE  Inv'
<1> USE DEF Delete
<1> DEFINE i == IndexOf(k)
<1>1. k \in ToSet(queue)
  BY QueueFacts
<1>2. i \in 1..Len(queue) /\ queue[i] = k
  BY <1>1, IndexOfProperties
<1>3. queue' = RemoveAt(queue, i) /\ hand' = IF hand = k THEN Prev(i) ELSE hand
  BY DEF HandWithout
<1> HIDE DEF i
<1>4. /\ queue' \in Seq(Key)
      /\ Len(queue') = Len(queue) - 1
      /\ ToSet(queue') = ToSet(queue) \ {k}
      /\ IsInjective(queue')
  <2> HIDE DEF Delete
  <2> QED BY <1>2, <1>3, QueueFacts, RemoveAtProperties, RemoveAtSet
<1>5. Held' = Held \ {k}
  BY DEF Inv, TypeOK, Held
<1>6. hand' \in ToSet(queue') \cup {Nil}
  <2>1. CASE hand = k
    BY <1>2, <1>3, <1>4, <2>1, PrevProperties
  <2>2. CASE hand # k
    BY <1>3, <1>4, <2>2 DEF Inv, HandInQueue
  <2> QED BY <2>1, <2>2
<1>7. visited' \subseteq ToSet(queue')
  BY <1>4 DEF Inv, HandInQueue
<1>8. TypeOK'
  BY <1>4, <1>6, QueueFacts DEF Inv, TypeOK, Call
<1>9. size' = Len(queue') /\ size' <= Capacity
  BY <1>4, QueueFacts, CapacityPositive DEF Inv, QueueMatchesStore
<1>10. QueueMatchesStore'
  BY <1>4, <1>5, <1>9 DEF Inv, QueueMatchesStore
<1> QED BY <1>6, <1>7, <1>8, <1>10 DEF Inv, HandInQueue

\* Every call keeps the invariant.
LEMMA NextInv ==
    ASSUME Inv, [Next]_vars
    PROVE  Inv'
<1>1. CASE Next
  BY <1>1, UpdateInv, InsertInv, EvictAndInsertInv, GetInv, DeleteInv DEF Next, Put
<1>2. CASE UNCHANGED vars
  BY <1>2 DEF vars, Inv, TypeOK, Call, QueueMatchesStore, HandInQueue, Held
<1> QED BY <1>1, <1>2

\* A new cache satisfies the invariant.
LEMMA InitInv == NewSieve => Inv
<1> SUFFICES ASSUME NewSieve PROVE Inv
  OBVIOUS
<1>1. queue = << >> /\ ToSet(queue) = {} /\ IsInjective(queue) /\ Len(queue) = 0
  BY DEF NewSieve, ToSet, IsInjective
<1> QED BY <1>1, CapacityPositive
        DEF NewSieve, Inv, TypeOK, QueueMatchesStore, HandInQueue, Held

\* In every state of every Sieve the types are those of the code, the map and
\* the eviction queue hold the same keys, each once and no more than the
\* capacity, and the hand points at an entry that is still there.
THEOREM SieveInvariant == Spec => [](TypeOK /\ QueueMatchesStore /\ HandInQueue)
<1>1. Inv /\ [Next]_vars => Inv'
  BY NextInv
<1>2. Spec => []Inv
  BY InitInv, <1>1, PTL DEF Spec
<1> QED BY <1>2, PTL DEF Inv

\* The only step that removes one key and adds another is an eviction, and an
\* eviction takes a visited entry only when all entries are visited.
THEOREM SieveSecondChance == Spec => SecondChance
<1>1. ASSUME Inv, Next, NEW k \in visited, store'[k] = Absent,
             NEW x \in Key, store[x] = Absent, store'[x] # Absent
      PROVE  ToSet(queue) \subseteq visited
  <2>0. store \in [Key -> Value \cup {Absent}]
    BY <1>1 DEF Inv, TypeOK
  <2>1. k \in Key /\ store[k] # Absent
    BY <1>1, QueueFacts DEF Inv, HandInQueue
  <2>2. PICK y \in Key, v \in Value : EvictAndInsert(y, v)
    BY <1>1, <2>0, <2>1, AbsentAssumption DEF Next, Put, Update, Insert, Get, Delete
  <2>3. Len(queue) > 0
    BY <1>1, <2>2, QueueFacts, CapacityPositive DEF EvictAndInsert, Full
  <2>4. VictimIndex \in 1..Len(queue) /\ (Unvisited # {} => VictimIndex \in Unvisited)
    BY <1>1, <2>3, VictimIndexProperties
  <2>5. queue[VictimIndex] = k
    BY <1>1, <2>0, <2>1, <2>2, AbsentAssumption DEF EvictAndInsert
  <2>6. Unvisited = {}
    BY <1>1, <2>4, <2>5 DEF Unvisited
  <2> QED BY <1>1, <2>6, QueueFacts, LenProperties DEF Unvisited, ToSet
<1>2. Inv /\ [Next]_vars => [SecondChanceStep]_vars
  BY <1>1 DEF SecondChanceStep
<1>3. Spec => []Inv
  BY SieveInvariant, PTL DEF Inv
<1> QED BY <1>2, <1>3, PTL DEF Spec, SecondChance

\* The map holds as many keys as the queue is long.
LEMMA HeldCardinality ==
    ASSUME Inv
    PROVE  Cardinality(Abstract!Held) = Len(queue)
<1>1. Abstract!Held = ToSet(queue)
  BY DEF Abstract!Held, Held, Inv, QueueMatchesStore
<1>2. /\ queue \in [1..Len(queue) -> ToSet(queue)]
      /\ \A k \in ToSet(queue) : \E i \in 1..Len(queue) : queue[i] = k
  BY QueueFacts, LenProperties DEF ToSet
<1>3. ExistsBijection(1..Len(queue), ToSet(queue))
  BY <1>2, QueueFacts DEF ExistsBijection, Bijection, Injection, Surjection
<1> QED BY <1>1, <1>3, QueueFacts, FS_CountingElements

\* The instance's Cardinality is that of FiniteSets.
LEMMA AbstractCardinality == \A S : Abstract!Cardinality(S) = Cardinality(S)
BY DEF Abstract!Cardinality, Cardinality

\* Every behaviour of a Sieve is a behaviour of the abstract bounded cache, so
\* code that relies on no more than a bounded cache may use it.
THEOREM SieveRefinesBoundedCache == Spec => RefinesBoundedCache
<1>1. NewSieve => Abstract!Init
  BY DEF NewSieve, Abstract!Init
<1>2. ASSUME Inv, Next
      PROVE  Abstract!Next
  <2> USE DEF Abstract!Next
  <2>1. ASSUME NEW k \in Key, Get(k)
        PROVE  Abstract!Get(k)
    BY <2>1 DEF Get, Abstract!Get
  <2>2. ASSUME NEW k \in Key, Delete(k)
        PROVE  Abstract!Delete(k)
    BY <2>2 DEF Delete, Abstract!Delete
  <2>3. ASSUME NEW k \in Key, NEW v \in Value, Update(k, v)
        PROVE  Abstract!Put(k, v)
    BY <2>3 DEF Update, Abstract!Put, Abstract!Store
  <2>4. ASSUME NEW k \in Key, NEW v \in Value, Insert(k, v)
        PROVE  Abstract!Put(k, v)
    <3>1. Cardinality(Abstract!Held) < Capacity
      BY <1>2, <2>4, HeldCardinality, QueueFacts, CapacityPositive DEF Insert, Full
    <3> QED BY <2>4, <3>1, AbstractCardinality DEF Insert, Abstract!Put, Abstract!Store
  <2>5. ASSUME NEW k \in Key, NEW v \in Value, EvictAndInsert(k, v)
        PROVE  Abstract!Put(k, v)
    <3>1. Cardinality(Abstract!Held) >= Capacity
      BY <1>2, <2>5, HeldCardinality, QueueFacts, CapacityPositive DEF EvictAndInsert, Full
    <3>2. Len(queue) > 0
      BY <1>2, <2>5, QueueFacts, CapacityPositive DEF EvictAndInsert, Full
    <3>3. VictimIndex \in 1..Len(queue)
      BY <1>2, <3>2, VictimIndexProperties
    <3>4. queue[VictimIndex] \in Abstract!Held
      BY <1>2, <3>3, QueueFacts, LenProperties DEF ToSet, Abstract!Held
    <3> QED BY <2>5, <3>1, <3>4, AbstractCardinality, ZenonT(30) DEF EvictAndInsert, Abstract!Put, Abstract!Store
  <2> QED BY <1>2, <2>1, <2>2, <2>3, <2>4, <2>5 DEF Next, Put
<1>3. UNCHANGED vars => UNCHANGED Abstract!vars
  BY DEF vars, Abstract!vars
<1>4. Inv /\ [Next]_vars => [Abstract!Next]_(Abstract!vars)
  BY <1>2, <1>3
<1>5. Spec => []Inv
  BY SieveInvariant, PTL DEF Inv
<1> QED BY <1>1, <1>4, <1>5, PTL DEF Spec, RefinesBoundedCache, Abstract!Spec

-----------------------------------------------------------------------------
(* The database switch.                                                    *)

\* What every variable may hold.
Types ==
    /\ pc \in [Client \cup Switcher -> {"idle", "issued", "refused", "running", "retiring",
                                        "cancelling", "locking", "draining", "leaving", "done"}]
    /\ class \in [Client -> {"aware", "blind", "bare"}]
    /\ issued \in [Client -> DB] /\ currentDB \in DB
    /\ inSwitch \in BOOLEAN
    /\ active \subseteq Client /\ live \subseteq active

ContextInv == Types /\ NoContextLeft

\* The calls of Switch are not concurrent with each other.
OneSwitchAtATime ==
    \A s, t \in Switcher :
        /\ pc[s] \in {"cancelling", "locking", "draining", "leaving"}
        /\ pc[t] \in {"cancelling", "locking", "draining", "leaving"}
        => s = t

\* No context is issued while a switch is under way; from the cancellation to
\* the replacement none is alive.
SwitchInv ==
    \A s \in Switcher :
        /\ pc[s] \in {"cancelling", "locking", "draining", "leaving"} => inSwitch
        /\ pc[s] \in {"locking", "draining"} => live = {}

\* A context that is alive was issued for the current database.
LiveInv == \A c \in live : issued[c] = currentDB
-----------------------------------------------------------------------------
\* Contexts are registered and forgotten with their operations
\* (newInternalContext, retireInternalContext).
LEMMA ContextStep == ContextInv /\ [SwitchNext]_switchVars => ContextInv'
<1> SUFFICES ASSUME ContextInv, [SwitchNext]_switchVars PROVE ContextInv'
  OBVIOUS
<1> USE SwitchAssumption DEF ContextInv, Types, NoContextLeft, Goto, lockVars, opVars
<1>1. ASSUME NEW c \in Client, NEW k \in {"aware", "blind"}, newInternalContext(c, k) PROVE ContextInv'
  BY <1>1 DEF newInternalContext
<1>2. ASSUME NEW c \in Client, Refused(c) PROVE ContextInv'
  BY <1>2 DEF Refused
<1>3. ASSUME NEW c \in Client, Retry(c) PROVE ContextInv'
  BY <1>3 DEF Retry
<1>4. ASSUME NEW c \in Client, SetDefaultGraph(c) PROVE ContextInv'
  BY <1>4, SMTT(30) DEF SetDefaultGraph
<1>5. ASSUME NEW c \in Client, RLock(c) PROVE ContextInv'
  BY <1>5 DEF RLock
<1>6. ASSUME NEW c \in Client, RUnlock(c) PROVE ContextInv'
  BY <1>6 DEF RUnlock
<1>7. ASSUME NEW c \in Client, retireInternalContext(c) PROVE ContextInv'
  BY <1>7 DEF retireInternalContext, Forgotten, CancelledOne
<1>8. ASSUME NEW s \in Switcher, Switch(s) \/ SwitchStep(s) PROVE ContextInv'
  BY <1>8, ZenonT(30) DEF Switch, SwitchStep, cancelInternalContexts, Cancelled, RequestLock, Replace, Leave, DB
<1>9. CASE UNCHANGED switchVars
  BY <1>9, SMTT(30) DEF switchVars
<1> QED
  BY <1>1, <1>2, <1>3, <1>4, <1>5, <1>6, <1>7, <1>8, <1>9 DEF SwitchNext

\* The contexts that are registered are those of operations under way, for any
\* number of operations and of switches, concurrent ones too.
THEOREM SwitchForgetsContexts == SwitchSpec => []NoContextLeft
<1>1. NewDatabaseSwitch => ContextInv
  BY SwitchAssumption, ZenonT(30) DEF NewDatabaseSwitch, ContextInv, Types, NoContextLeft, DB
<1>2. ContextInv => NoContextLeft
  BY DEF ContextInv
<1> QED
  BY <1>1, <1>2, ContextStep, PTL DEF SwitchSpec
-----------------------------------------------------------------------------
\* What a step does to the contexts that are alive while switches do not overlap
\* (newInternalContext, cancelInternalContexts, Switch).
LEMMA LiveStep ==
    ContextInv /\ OneSwitchAtATime /\ SwitchInv /\ LiveInv /\ [SwitchNext]_switchVars => SwitchInv' /\ LiveInv'
<1> SUFFICES ASSUME ContextInv, OneSwitchAtATime, SwitchInv, LiveInv, [SwitchNext]_switchVars
             PROVE  SwitchInv' /\ LiveInv'
  OBVIOUS
<1> USE SwitchAssumption DEF ContextInv, Types, SwitchInv, LiveInv, Goto, lockVars, opVars
<1>1. ASSUME NEW c \in Client, NEW k \in {"aware", "blind"}, newInternalContext(c, k)
      PROVE  SwitchInv' /\ LiveInv'
  BY <1>1 DEF newInternalContext, MayIssue
<1>2. ASSUME NEW c \in Client, Refused(c) \/ Retry(c) \/ SetDefaultGraph(c) \/ RLock(c) \/ RUnlock(c)
      PROVE  SwitchInv' /\ LiveInv'
  BY <1>2 DEF Refused, Retry, SetDefaultGraph, RLock, RUnlock
<1>3. ASSUME NEW c \in Client, retireInternalContext(c) PROVE SwitchInv' /\ LiveInv'
  BY <1>3 DEF retireInternalContext, CancelledOne
<1>4. ASSUME NEW s \in Switcher, Switch(s) PROVE SwitchInv' /\ LiveInv'
  BY <1>4 DEF Switch
<1>5. ASSUME NEW s \in Switcher, cancelInternalContexts(s) PROVE SwitchInv' /\ LiveInv'
  BY <1>5 DEF cancelInternalContexts, Cancelled
<1>6. ASSUME NEW s \in Switcher, RequestLock(s) \/ Replace(s) PROVE SwitchInv' /\ LiveInv'
  BY <1>6 DEF RequestLock, Replace
<1>7. ASSUME NEW s \in Switcher, Leave(s) PROVE SwitchInv' /\ LiveInv'
  BY <1>7 DEF Leave, OneSwitchAtATime
<1>8. CASE UNCHANGED switchVars
  BY <1>8, SMTT(30) DEF switchVars
<1> QED
  BY <1>1, <1>2, <1>3, <1>4, <1>5, <1>6, <1>7, <1>8 DEF SwitchNext, SwitchStep

\* An operation whose context is alive runs on the database its context was
\* issued for, however many switches there are, if they do not overlap: with
\* two at a time the first to end sets inSwitch to false for both.
THEOREM SwitchKeepsOperations == SwitchSpec /\ []OneSwitchAtATime => []LiveOperationOnItsDatabase
<1>1. NewDatabaseSwitch => ContextInv /\ SwitchInv /\ LiveInv
  BY SwitchAssumption, ZenonT(30)
  DEF NewDatabaseSwitch, ContextInv, Types, NoContextLeft, SwitchInv, LiveInv, DB
<1>2. LiveInv => LiveOperationOnItsDatabase
  BY DEF LiveInv, LiveOperationOnItsDatabase
<1> QED
  BY <1>1, <1>2, ContextStep, LiveStep, PTL DEF SwitchSpec
=============================================================================
