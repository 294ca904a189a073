---------------------------- MODULE BoundedCache ----------------------------
(***************************************************************************)
(* What the code that holds a Sieve relies on, whatever the replacement    *)
(* policy: a lookup returns the value of the last Put of that key or       *)
(* nothing, a Put of a new key displaces one other entry exactly when the  *)
(* cache is full, and nothing else changes the entries.  It is the         *)
(* interface Cache of src/cache/cache.go read as a contract.               *)
(***************************************************************************)
EXTENDS Integers, FiniteSets

CONSTANTS
    Key,       \* the keys
    Value,     \* the values
    Absent,    \* stands for "no entry"; not a value
    Capacity   \* the number of entries the cache may hold

VARIABLES
    contents,  \* Key -> Value or Absent
    last       \* the last call: the operation, its key, the value stored or returned

vars == <<contents, last>>

Held == {k \in Key : contents[k] # Absent}

Init == /\ contents = [k \in Key |-> Absent]
        /\ last = << >>

\* A new key of a full cache takes the place of one other entry.
Store(k, v) ==
    \/ /\ contents[k] # Absent \/ Cardinality(Held) < Capacity
       /\ contents' = [contents EXCEPT ![k] = v]
    \/ /\ contents[k] = Absent
       /\ Cardinality(Held) >= Capacity
       /\ \E x \in Held : contents' = [contents EXCEPT ![x] = Absent, ![k] = v]

Put(k, v) == Store(k, v) /\ last' = <<"put", k, v>>

Get(k) == /\ last' = <<"get", k, contents[k]>>
          /\ contents' = contents

Delete(k) == /\ contents' = [contents EXCEPT ![k] = Absent]
             /\ last' = <<"delete", k, Absent>>

Next == \E k \in Key : Get(k) \/ Delete(k) \/ \E v \in Value : Put(k, v)

Spec == Init /\ [][Next]_vars
=============================================================================
