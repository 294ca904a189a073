------------------------------- MODULE Sieve -------------------------------
(***************************************************************************)
(* The clock-hand cache of src/cache/sieve.go.  Every operation runs under *)
(* rwLock (Get under its read side, touching only the entry's atomic flag  *)
(* and the atomic counters), so each operation is one step.                *)
(*                                                                         *)
(* The doubly linked list is the sequence `queue` of its keys, the front   *)
(* (the newest entry) first: Prev() moves towards index 1, Back() is the   *)
(* last index.  A list element is identified by its key.                   *)
(***************************************************************************)
EXTENDS Integers, Sequences, SequencesExt

CONSTANTS
    Key,       \* the keys
    Value,     \* the values
    Absent,    \* a key without an entry; not a value
    Nil,       \* the nil list element; not a key
    capacity   \* the argument of NewSieve

ASSUME CapacityAssumption == capacity \in Int
ASSUME AbsentAssumption == Absent \notin Value
ASSUME NilAssumption == Nil \notin Key

\* NewSieve raises a capacity that is not positive to one.
Capacity == IF capacity <= 0 THEN 1 ELSE capacity

VARIABLES
    store,     \* Key -> Value or Absent: the map, without the visited flags
    visited,   \* the keys whose entry has its visited flag set
    queue,     \* the eviction queue, newest first
    hand,      \* the key the clock hand points at, or Nil
    size,      \* stats.size
    last       \* the last call: the operation, its key, the value stored or returned

vars == <<store, visited, queue, hand, size, last>>

NewSieve == /\ store = [k \in Key |-> Absent]
            /\ visited = {}
            /\ queue = << >>
            /\ hand = Nil
            /\ size = 0
            /\ last = << >>

IndexOf(k) == CHOOSE i \in 1..Len(queue) : queue[i] = k

\* The element before index i, in list order.
Prev(i) == IF i = 1 THEN Nil ELSE queue[i - 1]

\* Where evict starts: the hand, or the back of the list when it is nil.
HandIndex == IF hand = Nil THEN Len(queue) ELSE IndexOf(hand)

\* A bug: the hand walks towards the back.
PassedToBack(i) == IF i >= HandIndex THEN i - HandIndex ELSE i - HandIndex + Len(queue)

\* How many elements evict passes before it looks at index i: it walks from
\* HandIndex towards the front and goes on at the back.
Passed(i) == IF i <= HandIndex THEN HandIndex - i ELSE HandIndex - i + Len(queue)

\* The indices evict may stop at without clearing a flag first.
Unvisited == {i \in 1..Len(queue) : queue[i] \notin visited}

\* A bug: the flag of the entry under the hand is not looked at.
VictimAtHand == HandIndex

\* evict stops at the first unvisited element; when there is none it clears
\* every flag and stops where it started.
VictimIndex ==
    IF Unvisited = {} THEN HandIndex
    ELSE CHOOSE i \in Unvisited : \A j \in Unvisited : Passed(i) <= Passed(j)

\* The keys that lose their visited flag on the way.
Cleared ==
    IF Unvisited = {} THEN ToSet(queue)
    ELSE {queue[j] : j \in {i \in 1..Len(queue) : Passed(i) < Passed(VictimIndex)}}

\* A bug: Put of a key that has an entry marks it and keeps the old value.
UpdateKeepsValue(k, v) ==
    /\ store[k] # Absent
    /\ visited' = visited \cup {k}
    /\ last' = <<"put", k, v>>
    /\ UNCHANGED <<store, queue, hand, size>>

\* Put of a key that has an entry.
Update(k, v) ==
    /\ store[k] # Absent
    /\ store' = [store EXCEPT ![k] = v]
    /\ visited' = visited \cup {k}
    /\ last' = <<"put", k, v>>
    /\ UNCHANGED <<queue, hand, size>>

\* When putEntry evicts first.
Full == Len(queue) >= Capacity

\* putEntry when there is room.
Insert(k, v) ==
    /\ store[k] = Absent
    /\ ~Full
    /\ store' = [store EXCEPT ![k] = v]
    /\ queue' = <<k>> \o queue
    /\ size' = size + 1
    /\ last' = <<"put", k, v>>
    /\ UNCHANGED <<visited, hand>>

\* putEntry when the cache is full: evict, then insert.  removeEntry
\* decrements the size that Put increments again.
EvictAndInsert(k, v) ==
    /\ store[k] = Absent
    /\ Full
    /\ store' = [store EXCEPT ![queue[VictimIndex]] = Absent, ![k] = v]
    /\ visited' = visited \ Cleared
    /\ queue' = <<k>> \o RemoveAt(queue, VictimIndex)
    /\ hand' = Prev(VictimIndex)
    /\ size' = (size - 1) + 1
    /\ last' = <<"put", k, v>>

Put(k, v) == Update(k, v) \/ Insert(k, v) \/ EvictAndInsert(k, v)

Get(k) ==
    /\ last' = <<"get", k, store[k]>>
    /\ visited' = IF store[k] # Absent THEN visited \cup {k} ELSE visited
    /\ UNCHANGED <<store, queue, hand, size>>

\* A bug: the hand keeps pointing at the element that is removed.
HandStays(k) == hand

\* Where the hand is once the element of k has gone.
HandWithout(k) == IF hand = k THEN Prev(IndexOf(k)) ELSE hand

\* Delete of a key that has an entry; of any other key it does nothing.
Delete(k) ==
    /\ store[k] # Absent
    /\ hand' = HandWithout(k)
    /\ store' = [store EXCEPT ![k] = Absent]
    /\ visited' = visited \ {k}
    /\ queue' = RemoveAt(queue, IndexOf(k))
    /\ size' = size - 1
    /\ last' = <<"delete", k, Absent>>

Next == \E k \in Key : Get(k) \/ Delete(k) \/ \E v \in Value : Put(k, v)

Spec == NewSieve /\ [][Next]_vars
-----------------------------------------------------------------------------
\* The calls a user of the cache makes, with what they store or return.
Call == {"put", "get", "delete"} \X Key \X (Value \cup {Absent})

Held == {k \in Key : store[k] # Absent}

\* The state of a Sieve has the types the code gives it.
TypeOK == /\ store \in [Key -> Value \cup {Absent}]
          /\ visited \in SUBSET Key
          /\ queue \in Seq(Key)
          /\ hand \in Key \cup {Nil}
          /\ size \in Int
          /\ last \in Call \cup {<< >>}

\* The map and the eviction queue hold the same keys, each once; the queue is
\* never longer than the capacity and stats.size is its length.  If any step
\* broke it, evict would look up a key the map does not have, or a key would
\* be stored and never evicted.
QueueMatchesStore ==
    /\ ToSet(queue) = Held
    /\ IsInjective(queue)
    /\ size = Len(queue)
    /\ size <= Capacity

\* The hand never points at an element that has left the list: Delete moves
\* it before it removes the element under it, and evict leaves it on the
\* element before the victim.  No entry that is gone keeps a visited flag.
HandInQueue == /\ hand \in ToSet(queue) \cup {Nil}
               /\ visited \subseteq ToSet(queue)

\* An eviction takes an entry that was visited only when every entry was,
\* whatever the position of the hand.
SecondChanceStep ==
    \A k \in visited :
        (store'[k] = Absent /\ \E x \in Key : store[x] = Absent /\ store'[x] # Absent)
            => ToSet(queue) \subseteq visited

\* The second chance of the evict comment, as a property of every step.
SecondChance == [][SecondChanceStep]_vars

\* A Sieve implements the abstract bounded cache.
Abstract == INSTANCE BoundedCache WITH contents <- store

\* Every behaviour of a Sieve is one of the abstract bounded cache: a lookup
\* never returns a value that was replaced, deleted or evicted.
RefinesBoundedCache == Abstract!Spec
=============================================================================
