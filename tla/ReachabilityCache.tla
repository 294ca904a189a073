------------------------- MODULE ReachabilityCache -------------------------
(***************************************************************************)
(* componentReachDFS of src/algo/reach.go: the depth-first search for the  *)
(* components one component reaches, with the two bounded caches, one per  *)
(* direction, that keep the reach of every component a search completes.   *)
(*                                                                         *)
(* Callers share the caches and hold no lock between two accesses to them; *)
(* everything else a search uses is its own.  A bitmap is not changed once *)
(* it is in a cache, so an entry is the set of its components.  The caches *)
(* are Sieves, used through what BoundedCache says of one.                 *)
(*                                                                         *)
(* Components are numbered, and the component graph enumerates neighbours  *)
(* in the order of their numbers (module CSRDigraph).                      *)
(***************************************************************************)
EXTENDS Integers, Sequences, Digraph

CONSTANTS
    Caller,
    Component,      \* numbers
    Graphs,         \* component graphs, as sets of edges
    Absent,         \* no cache entry, no query, no result
    maxCacheSize

ASSUME AbsentAssumption ==
    /\ \A S \in SUBSET Component : S # Absent
    /\ \A q \in [component : Component, direction : Direction] : q # Absent

VARIABLES
    edges,                                          \* of the component graph
    inboundComponentReach, outboundComponentReach,  \* the caches
    query,      \* of each caller: component and direction, or Idle
    cursors,    \* its stack, the root cursor first; the ancestor of a cursor is the one before it
    result,     \* what componentReachDFS returned, or Absent
    trusted     \* history: every entry this search took from a cache was the whole reach

caches == <<inboundComponentReach, outboundComponentReach>>
callers == <<query, cursors, result, trusted>>
vars == <<edges, caches, callers>>

Idle == Absent
digraph == [nodes |-> Component, edges |-> edges]
Adjacent(c, dir) == AdjacentNodes(digraph, c, dir)
Reach(c, dir) == ReachOf(digraph, c, dir)

\* NewSieve raises a capacity that is not positive to one.
Capacity == IF maxCacheSize <= 0 THEN 1 ELSE maxCacheSize
Inbound == INSTANCE BoundedCache WITH
    Key <- Component, Value <- SUBSET Component, contents <- inboundComponentReach, last <- << >>
Outbound == INSTANCE BoundedCache WITH
    Key <- Component, Value <- SUBSET Component, contents <- outboundComponentReach, last <- << >>

Init ==
    /\ edges \in Graphs /\ edges \subseteq Component \X Component
    /\ Inbound!Init /\ Outbound!Init
    /\ query = [p \in Caller |-> Idle] /\ cursors = [p \in Caller |-> << >>]
    /\ result = [p \in Caller |-> Absent] /\ trusted = [p \in Caller |-> TRUE]

\* A bug: a search in both directions uses the entries of one.
cachedOutboundReach(c, dir) ==
    IF dir = "inbound" THEN inboundComponentReach[c] ELSE outboundComponentReach[c]

cachedComponentReach(c, dir) ==
    IF dir = "inbound" THEN inboundComponentReach[c]
    ELSE IF dir = "outbound" THEN outboundComponentReach[c]
    ELSE Absent

cacheComponentReach(c, reach, dir) ==
    \/ dir = "inbound" /\ Inbound!Store(c, reach) /\ UNCHANGED outboundComponentReach
    \/ dir = "outbound" /\ Outbound!Store(c, reach) /\ UNCHANGED inboundComponentReach
    \/ dir = "both" /\ UNCHANGED caches

newRootReachCursor(c, dir) ==
    [component |-> c, adjacent |-> Adjacent(c, dir), reach |-> {c}]

\* The reach of a cursor below the root starts with its neighbours.
newReachCursor(c, dir) ==
    [component |-> c, adjacent |-> Adjacent(c, dir), reach |-> Adjacent(c, dir) \cup {c}]

\* Whether an entry is all that its component reaches.
Whole(c, dir, entry) == entry = Reach(c, dir)

\* The call: a cached reach is returned as it is.
componentReachDFS(p, c, dir) ==
    LET entry == cachedComponentReach(c, dir) IN
    /\ query[p] = Idle
    /\ query' = [query EXCEPT ![p] = [component |-> c, direction |-> dir]]
    /\ IF entry # Absent
       THEN /\ result' = [result EXCEPT ![p] = entry]
            /\ trusted' = [trusted EXCEPT ![p] = Whole(c, dir, entry)]
            /\ UNCHANGED cursors
       ELSE /\ cursors' = [cursors EXCEPT ![p] = <<newRootReachCursor(c, dir)>>]
            /\ trusted' = [trusted EXCEPT ![p] = TRUE]
            /\ UNCHANGED result
    /\ UNCHANGED <<edges, caches>>

Searching(p) == cursors[p] # << >>
Depth(p) == Len(cursors[p])
Back(p) == cursors[p][Depth(p)]

\* A bug: the reach of a finished cursor stays with it.
NotRolledUp(S) == [i \in 1..(Len(S) - 1) |-> S[i]]

\* A stack without its top, whose reach the ancestor has taken.
RolledUp(S) ==
    [i \in 1..(Len(S) - 1) |->
        [component |-> S[i].component, adjacent |-> S[i].adjacent,
         reach |-> IF i = Len(S) - 1 THEN S[i].reach \cup S[Len(S)].reach ELSE S[i].reach]]

\* The cursor on top has no neighbour left: its reach is added to its
\* ancestor's and cached; the root's is returned.
Complete(p) ==
    /\ Searching(p) /\ Back(p).adjacent = {}
    /\ cacheComponentReach(Back(p).component, Back(p).reach, query[p].direction)
    /\ cursors' = [cursors EXCEPT ![p] = RolledUp(@)]
    /\ result' = IF Depth(p) = 1 THEN [result EXCEPT ![p] = Back(p).reach] ELSE result
    /\ UNCHANGED <<edges, query, trusted>>

\* A stack whose top has moved past its neighbour n: the root's reach marks n
\* as visited, and the top's reach takes the components `more`.
Moved(S, n, more) ==
    [i \in 1..Len(S) |->
        [component |-> S[i].component,
         adjacent |-> IF i = Len(S) THEN S[i].adjacent \ {n} ELSE S[i].adjacent,
         reach |-> (IF i = 1 THEN S[i].reach \cup {n} ELSE S[i].reach)
                      \cup (IF i = Len(S) THEN more ELSE {})]]

\* The next neighbour: one that was visited is skipped, the reach of a cached
\* one is added to the cursor's, another one is descended into.
NextAdjacent(p, n) ==
    LET dir == query[p].direction
        entry == cachedComponentReach(n, dir)
        S == cursors[p] IN
    /\ Searching(p) /\ n \in Back(p).adjacent
    /\ \A m \in Back(p).adjacent : n <= m
    /\ \/ /\ n \in S[1].reach
          /\ cursors' = [cursors EXCEPT ![p] = Moved(S, n, {})]
          /\ UNCHANGED trusted
       \/ /\ n \notin S[1].reach /\ entry # Absent
          /\ cursors' = [cursors EXCEPT ![p] = Moved(S, n, entry)]
          /\ trusted' = [trusted EXCEPT ![p] = @ /\ Whole(n, dir, entry)]
       \/ /\ n \notin S[1].reach /\ entry = Absent
          /\ cursors' = [cursors EXCEPT ![p] = Append(Moved(S, n, {}), newReachCursor(n, dir))]
          /\ UNCHANGED trusted
    /\ UNCHANGED <<edges, caches, query, result>>

Return(p) ==
    /\ result[p] # Absent
    /\ query' = [query EXCEPT ![p] = Idle] /\ result' = [result EXCEPT ![p] = Absent]
    /\ UNCHANGED <<edges, caches, cursors, trusted>>

Next == \E p \in Caller :
    \/ \E c \in Component, dir \in Direction : componentReachDFS(p, c, dir)
    \/ \E n \in Component : NextAdjacent(p, n)
    \/ Complete(p) \/ Return(p)

Spec == Init /\ [][Next]_vars
-----------------------------------------------------------------------------
Entries == (SUBSET Component) \cup {Absent}
Cursor == [component : Component, adjacent : SUBSET Component, reach : SUBSET Component]

TypeOK ==
    /\ edges \subseteq Component \X Component
    /\ inboundComponentReach \in [Component -> Entries]
    /\ outboundComponentReach \in [Component -> Entries]
    /\ query \in [Caller -> [component : Component, direction : Direction] \cup {Idle}]
    /\ cursors \in [Caller -> Seq(Cursor)]
    /\ result \in [Caller -> Entries] /\ trusted \in [Caller -> BOOLEAN]

\* The entry of a component is sound: the component and its neighbours are in
\* it, and nothing that the component does not reach.
Sound(c, dir, entry) ==
    entry # Absent => {c} \cup Adjacent(c, dir) \subseteq entry /\ entry \subseteq Reach(c, dir)

\* However searches interleave and whatever the caches have lost, a cached or
\* returned reach contains only components that are reachable.
ReachSound ==
    /\ \A c \in Component : /\ Sound(c, "inbound", inboundComponentReach[c])
                            /\ Sound(c, "outbound", outboundComponentReach[c])
    /\ \A p \in Caller : query[p] # Idle => Sound(query[p].component, query[p].direction, result[p])

\* A search returns the whole reach of its component unless an entry it took
\* from a cache was not whole itself.
WholeUnlessCached ==
    \A p \in Caller : result[p] # Absent /\ trusted[p] =>
        result[p] = Reach(query[p].component, query[p].direction)

\* The comment of componentReachDFS: the set of components reachable from the
\* start is computed, and cached to answer later calls.
ReturnsReach ==
    \A p \in Caller : result[p] # Absent =>
        result[p] = Reach(query[p].component, query[p].direction)
=============================================================================
