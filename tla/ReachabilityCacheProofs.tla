---------------------- MODULE ReachabilityCacheProofs ----------------------
(***************************************************************************)
(* For every component graph, number of callers and cache size: what a     *)
(* search returns or caches is reachable, and a search that took nothing   *)
(* but whole entries from the caches returns the whole reach.              *)
(*                                                                         *)
(* Soundness rests on the stack being a path: the component of a cursor is *)
(* a neighbour of its ancestor's.  For the other direction the cursors     *)
(* together cover the reach: a component that some cursor holds either is  *)
(* still to be looked at by that cursor or has all its neighbours with the *)
(* cursors.  The set is therefore closed when the last cursor completes.   *)
(***************************************************************************)
EXTENDS ReachabilityCache, TLAPS

\* A closed set around the start contains the reach of the start.
LEMMA ReachInClosed ==
    ASSUME NEW g, NEW s, NEW dir, NEW S \in SUBSET g.nodes, s \in S, Closed(g, S, dir)
    PROVE  ReachOf(g, s, dir) \subseteq S
BY DEF ReachOf, ClosedAround

\* The reach of a node contains the node and is closed.
LEMMA ReachClosed ==
    ASSUME NEW g, NEW s \in g.nodes, NEW dir
    PROVE  /\ s \in ReachOf(g, s, dir)
           /\ ReachOf(g, s, dir) \subseteq g.nodes
           /\ Closed(g, ReachOf(g, s, dir), dir)
BY DEF ReachOf, ClosedAround, Closed, AdjacentNodes

\* Reachability is transitive.
LEMMA ReachTransitive ==
    ASSUME NEW g, NEW s \in g.nodes, NEW dir, NEW x, x \in ReachOf(g, s, dir)
    PROVE  ReachOf(g, x, dir) \subseteq ReachOf(g, s, dir)
BY ReachClosed, ReachInClosed

-----------------------------------------------------------------------------
\* A stack of cursors of a search for the reach of c.
Chain(S, c, dir) ==
    /\ S \in Seq(Cursor)
    /\ \A i \in 1..Len(S) :
          /\ S[i].component \in Reach(c, dir) \cap S[i].reach
          /\ S[i].reach \subseteq Reach(S[i].component, dir)
          /\ S[i].adjacent \subseteq Adjacent(S[i].component, dir)
          /\ i = 1 => Adjacent(S[i].component, dir) \subseteq S[i].reach \cup S[i].adjacent
          /\ i > 1 => /\ Adjacent(S[i].component, dir) \subseteq S[i].reach
                      /\ S[i].component \in Adjacent(S[i - 1].component, dir)
    /\ Len(S) > 0 => S[1].component = c

\* Some cursor has x in its reach or will look at it.
Holds(S, x) == \E i \in 1..Len(S) : x \in S[i].reach \/ x \in S[i].adjacent

\* The neighbours of x are with the cursors.
Explored(S, x, dir) == \A y \in Adjacent(x, dir) : Holds(S, y)

\* The cursors cover the reach of what they hold.
Covers(S, dir) ==
    /\ \A x \in S[1].reach : Explored(S, x, dir)
    /\ \A i \in 1..Len(S) : \A x \in S[i].reach : x \in S[i].adjacent \/ Explored(S, x, dir)

\* The inductive invariant.
Inv ==
    /\ TypeOK
    /\ ReachSound
    /\ \A p \in Caller :
          /\ query[p] = Idle => cursors[p] = << >> /\ result[p] = Absent
          /\ result[p] # Absent => cursors[p] = << >>
          /\ query[p] # Idle =>
                /\ Chain(cursors[p], query[p].component, query[p].direction)
                /\ cursors[p] # << >> /\ trusted[p] => Covers(cursors[p], query[p].direction)
    /\ WholeUnlessCached

\* Facts about the reach of a component.
LEMMA ReachFacts ==
    ASSUME NEW c \in Component, NEW dir
    PROVE  /\ c \in Reach(c, dir) /\ Reach(c, dir) \subseteq Component
           /\ Adjacent(c, dir) \subseteq Reach(c, dir)
           /\ \A x \in Reach(c, dir) :
                 Adjacent(x, dir) \subseteq Reach(c, dir) /\ Reach(x, dir) \subseteq Reach(c, dir)
<1>1. digraph.nodes = Component
  BY DEF digraph
<1>2. /\ c \in Reach(c, dir) /\ Reach(c, dir) \subseteq Component
      /\ Closed(digraph, Reach(c, dir), dir)
  BY <1>1, ReachClosed DEF Reach
<1>3. \A x \in Reach(c, dir) : Reach(x, dir) \subseteq Reach(c, dir)
  BY <1>1, ReachTransitive DEF Reach
<1>4. \A x \in Reach(c, dir) : Adjacent(x, dir) \subseteq Reach(c, dir)
  BY <1>2 DEF Closed, Adjacent
<1> QED BY <1>2, <1>3, <1>4

\* The neighbours of a component are components.
LEMMA AdjacentType ==
    ASSUME NEW c, NEW dir PROVE Adjacent(c, dir) \subseteq Component
BY DEF Adjacent, AdjacentNodes, digraph

-----------------------------------------------------------------------------
(* What a step does to a stack S, whoever's it is.                         *)

\* Types of the cursors of a chain.
LEMMA ChainTypes ==
    ASSUME NEW c \in Component, NEW dir, NEW S, Chain(S, c, dir)
    PROVE  /\ Len(S) \in Nat /\ DOMAIN S = 1..Len(S)
           /\ \A i \in 1..Len(S) : /\ S[i] \in Cursor
                                   /\ S[i].component \in Component
                                   /\ S[i].adjacent \subseteq Component
                                   /\ S[i].reach \subseteq Component
<1>1. S \in Seq(Cursor)
  BY DEF Chain
<1>2. Len(S) \in Nat /\ DOMAIN S = 1..Len(S) /\ \A i \in 1..Len(S) : S[i] \in Cursor
  BY <1>1
<1> QED BY <1>2 DEF Cursor

\* Moving past a neighbour of the top's component keeps the chain, whatever
\* reachable components the top gains.
LEMMA MovedChain ==
    ASSUME NEW c \in Component, NEW dir, NEW S, Chain(S, c, dir), Len(S) > 0,
           NEW n \in S[Len(S)].adjacent, NEW more \in SUBSET Reach(n, dir)
    PROVE  Chain(Moved(S, n, more), c, dir) /\ Len(Moved(S, n, more)) = Len(S)
<1> DEFINE T == Moved(S, n, more)
<1>1. /\ Len(S) \in Nat /\ DOMAIN S = 1..Len(S) /\ Len(S) \in 1..Len(S)
      /\ \A i \in 1..Len(S) : S[i] \in Cursor /\ S[i].component \in Component
                              /\ S[i].adjacent \subseteq Component /\ S[i].reach \subseteq Component
  BY ChainTypes
<1> DEFINE top == S[Len(S)].component
<1>2. /\ top \in Component /\ n \in Adjacent(top, dir) /\ n \in Component
      /\ top \in Reach(c, dir)
  BY <1>1, AdjacentType DEF Chain
<1>3. /\ n \in Reach(top, dir) /\ Reach(n, dir) \subseteq Reach(top, dir)
      /\ n \in Reach(c, dir) /\ Reach(n, dir) \subseteq Component
  BY <1>2, ReachFacts
<1>4. T \in Seq(Cursor) /\ Len(T) = Len(S) /\ DOMAIN T = 1..Len(S)
  <2>1. ASSUME NEW i \in 1..Len(S) PROVE T[i] \in Cursor
    BY <1>1, <1>2, <1>3 DEF Moved, Cursor
  <2>2. T \in [1..Len(S) -> Cursor]
    BY <2>1 DEF Moved
  <2> QED BY <2>2, <1>1
<1>5. ASSUME NEW i \in 1..Len(S)
      PROVE  /\ T[i].component = S[i].component
             /\ T[i].adjacent \subseteq S[i].adjacent
             /\ S[i].reach \subseteq T[i].reach
             /\ T[i].reach \subseteq S[i].reach \cup {n} \cup Reach(n, dir)
             /\ i # 1 => T[i].reach \subseteq S[i].reach \cup (IF i = Len(S) THEN Reach(n, dir) ELSE {})
             /\ i = 1 => n \in T[i].reach
             /\ i = 1 => S[i].adjacent \subseteq T[i].adjacent \cup {n}
             /\ i # Len(S) => T[i].reach \subseteq S[i].reach \cup {n}
  BY DEF Moved
<1>6. ASSUME NEW i \in 1..Len(S)
      PROVE  T[i].reach \subseteq Reach(T[i].component, dir)
  <2>1. S[i].reach \subseteq Reach(S[i].component, dir)
    BY DEF Chain
  <2>2. CASE i = Len(S)
    BY <2>1, <2>2, <1>3, <1>5
  <2>3. CASE i # Len(S) /\ i # 1
    BY <2>1, <2>3, <1>5
  <2>4. CASE i # Len(S) /\ i = 1
    <3>1. S[1].component = c
      BY <1>1 DEF Chain
    <3> QED BY <3>1, <2>1, <2>4, <1>3, <1>5
  <2> QED BY <2>2, <2>3, <2>4
<1>7. ASSUME NEW i \in 1..Len(S)
      PROVE  /\ T[i].component \in Reach(c, dir) \cap T[i].reach
             /\ T[i].adjacent \subseteq Adjacent(T[i].component, dir)
             /\ i = 1 => Adjacent(T[i].component, dir) \subseteq T[i].reach \cup T[i].adjacent
  BY <1>5, SMTT(30) DEF Chain
<1>8. ASSUME NEW i \in 1..Len(S), i > 1
      PROVE  /\ Adjacent(T[i].component, dir) \subseteq T[i].reach
             /\ T[i].component \in Adjacent(T[i - 1].component, dir)
  <2>1. i - 1 \in 1..Len(S)
    BY <1>1, <1>8
  <2> QED BY <2>1, <1>5, <1>8 DEF Chain
<1>9. T[1].component = c
  <2>1. 1 \in 1..Len(S)
    BY <1>1
  <2> QED BY <2>1, <1>5 DEF Chain
<1> QED BY <1>4, <1>6, <1>7, <1>8, <1>9 DEF Chain
\* What the cursors held they hold after a move.
LEMMA MovedHolds ==
    ASSUME NEW S, Len(S) \in Nat \ {0}, NEW n \in S[Len(S)].adjacent, NEW more, NEW x,
           Len(Moved(S, n, more)) = Len(S), Holds(S, x) \/ x = n \/ x \in more
    PROVE  Holds(Moved(S, n, more), x)
<1> DEFINE T == Moved(S, n, more)
<1>1. 1 \in 1..Len(S) /\ Len(S) \in 1..Len(S)
  OBVIOUS
<1>2. ASSUME NEW i \in 1..Len(S)
      PROVE  /\ S[i].reach \subseteq T[i].reach /\ S[i].adjacent \subseteq T[i].adjacent \cup {n}
             /\ i = 1 => n \in T[i].reach
             /\ i = Len(S) => more \subseteq T[i].reach
  BY DEF Moved
<1> QED BY <1>1, <1>2 DEF Holds

\* A move keeps the cover when the cursors hold the neighbours of n after it
\* and the components the top gains are closed.
LEMMA MovedCovers ==
    ASSUME NEW S, NEW dir, Len(S) \in Nat \ {0}, NEW n \in S[Len(S)].adjacent, NEW more,
           Len(Moved(S, n, more)) = Len(S), Covers(S, dir),
           n \in S[1].reach \/ \A y \in Adjacent(n, dir) : y \in more,
           \A x \in more : Adjacent(x, dir) \subseteq more
    PROVE  Covers(Moved(S, n, more), dir)
<1> DEFINE T == Moved(S, n, more)
<1>1. 1 \in 1..Len(S)
  OBVIOUS
<1>2. ASSUME NEW i \in 1..Len(S)
      PROVE  /\ T[i].reach \subseteq S[i].reach \cup more \cup (IF i = 1 THEN {n} ELSE {})
             /\ S[i].adjacent \subseteq T[i].adjacent \cup {n}
  BY DEF Moved
<1>3. \A x : Explored(S, x, dir) => Explored(T, x, dir)
  BY MovedHolds DEF Explored
<1>4. \A x \in more : Explored(T, x, dir)
  BY MovedHolds DEF Explored
<1>5. Explored(T, n, dir)
  <2>1. CASE n \in S[1].reach
    BY <2>1, <1>3 DEF Covers
  <2>2. CASE \A y \in Adjacent(n, dir) : y \in more
    BY <2>2, MovedHolds DEF Explored
  <2> QED BY <2>1, <2>2
<1>6. \A x \in T[1].reach : Explored(T, x, dir)
  BY <1>1, <1>2, <1>3, <1>4, <1>5 DEF Covers
<1>7. ASSUME NEW i \in 1..Len(S), NEW x \in T[i].reach
      PROVE  x \in T[i].adjacent \/ Explored(T, x, dir)
  BY <1>2, <1>3, <1>4, <1>5, <1>7 DEF Covers
<1> QED BY <1>6, <1>7 DEF Covers

\* The entries of a stack with a cursor pushed on it.
LEMMA AppendFacts ==
    ASSUME NEW M \in Seq(Cursor), NEW e \in Cursor
    PROVE  /\ Append(M, e) \in Seq(Cursor) /\ Len(Append(M, e)) = Len(M) + 1
           /\ \A i \in 1..Len(M) : Append(M, e)[i] = M[i]
           /\ Append(M, e)[Len(M) + 1] = e /\ Len(M) \in Nat
           /\ 1..(Len(M) + 1) = 1..Len(M) \cup {Len(M) + 1}
OBVIOUS

\* Descending into n keeps the chain.
LEMMA PushedChain ==
    ASSUME NEW c \in Component, NEW dir, NEW S, Chain(S, c, dir), Len(S) > 0,
           NEW n \in S[Len(S)].adjacent
    PROVE  Chain(Append(Moved(S, n, {}), newReachCursor(n, dir)), c, dir)
<1> DEFINE M == Moved(S, n, {})
           e == newReachCursor(n, dir)
           T == Append(M, e)
<1>1. Chain(M, c, dir) /\ Len(M) = Len(S)
  BY MovedChain
<1>2. M \in Seq(Cursor) /\ Len(S) \in Nat /\ Len(S) \in 1..Len(S)
  BY <1>1, ChainTypes DEF Chain
<1>3. /\ S[Len(S)].component \in Component /\ n \in Adjacent(S[Len(S)].component, dir)
      /\ n \in Component /\ n \in Reach(c, dir)
  BY <1>2, ChainTypes, ReachFacts DEF Chain
<1>4. /\ e \in Cursor /\ e.component = n /\ e.adjacent = Adjacent(n, dir)
      /\ e.reach = Adjacent(n, dir) \cup {n}
  BY <1>3, AdjacentType DEF newReachCursor, Cursor
<1>5. /\ T \in Seq(Cursor) /\ Len(T) = Len(M) + 1
      /\ \A i \in 1..Len(M) : T[i] = M[i]
      /\ T[Len(M) + 1] = e /\ 1..(Len(M) + 1) = 1..Len(M) \cup {Len(M) + 1}
  BY <1>2, <1>4, AppendFacts
<1>6. M[Len(M)].component = S[Len(S)].component
  BY <1>1, <1>2 DEF Moved
<1>7. ASSUME NEW i \in 1..Len(M)
      PROVE  /\ T[i].component \in Reach(c, dir) \cap T[i].reach
             /\ T[i].reach \subseteq Reach(T[i].component, dir)
             /\ T[i].adjacent \subseteq Adjacent(T[i].component, dir)
             /\ i = 1 => Adjacent(T[i].component, dir) \subseteq T[i].reach \cup T[i].adjacent
             /\ i > 1 => /\ Adjacent(T[i].component, dir) \subseteq T[i].reach
                         /\ T[i].component \in Adjacent(T[i - 1].component, dir)
  <2>1. i > 1 => i - 1 \in 1..Len(M)
    BY <1>1, <1>2
  <2> QED BY <2>1, <1>1, <1>5 DEF Chain
<1>8. /\ e.component \in Reach(c, dir) \cap e.reach
      /\ e.reach \subseteq Reach(e.component, dir)
      /\ e.adjacent \subseteq Adjacent(e.component, dir)
      /\ Adjacent(e.component, dir) \subseteq e.reach
      /\ e.component \in Adjacent(T[Len(M)].component, dir)
  BY <1>1, <1>2, <1>3, <1>4, <1>5, <1>6, ReachFacts
<1>9. T[1].component = c
  BY <1>1, <1>2, <1>5 DEF Chain
<1>10. Len(M) + 1 # 1 /\ (Len(M) + 1) - 1 = Len(M)
  BY <1>1, <1>2
<1> QED BY <1>5, <1>7, <1>8, <1>9, <1>10 DEF Chain

\* Descending into n keeps the cover: the new cursor has the neighbours of n.
LEMMA PushedCovers ==
    ASSUME NEW c \in Component, NEW dir, NEW S, Chain(S, c, dir), Len(S) > 0,
           NEW n \in S[Len(S)].adjacent, Covers(S, dir)
    PROVE  Covers(Append(Moved(S, n, {}), newReachCursor(n, dir)), dir)
<1> DEFINE M == Moved(S, n, {})
           e == newReachCursor(n, dir)
           T == Append(M, e)
<1>1. Chain(M, c, dir) /\ Len(M) = Len(S)
  BY MovedChain
<1>2. M \in Seq(Cursor) /\ Len(S) \in Nat \ {0} /\ Len(S) \in 1..Len(S) /\ 1 \in 1..Len(S)
  BY <1>1, ChainTypes DEF Chain
<1>3. n \in Component
  BY <1>2, ChainTypes
<1>4. /\ e \in Cursor /\ e.adjacent = Adjacent(n, dir) /\ e.reach = Adjacent(n, dir) \cup {n}
  BY <1>3, AdjacentType DEF newReachCursor, Cursor
<1>5. /\ Len(T) = Len(M) + 1 /\ \A i \in 1..Len(M) : T[i] = M[i]
      /\ T[Len(M) + 1] = e /\ 1..(Len(M) + 1) = 1..Len(M) \cup {Len(M) + 1}
  BY <1>2, <1>4, AppendFacts
<1>6. \A x : Holds(S, x) \/ x \in Adjacent(n, dir) => Holds(T, x)
  <2>1. \A x : Holds(S, x) => Holds(M, x)
    BY <1>1, <1>2, MovedHolds
  <2> QED BY <2>1, <1>4, <1>5 DEF Holds
<1>7. \A x : Explored(S, x, dir) => Explored(T, x, dir)
  BY <1>6 DEF Explored
<1>8. Explored(T, n, dir)
  BY <1>6 DEF Explored
<1>9. ASSUME NEW i \in 1..Len(S)
      PROVE  /\ M[i].reach \subseteq S[i].reach \cup (IF i = 1 THEN {n} ELSE {})
             /\ S[i].adjacent \subseteq M[i].adjacent \cup {n}
  BY DEF Moved
<1>10. \A x \in T[1].reach : Explored(T, x, dir)
  BY <1>1, <1>2, <1>5, <1>7, <1>8, <1>9 DEF Covers
<1>11. ASSUME NEW i \in 1..Len(M), NEW x \in M[i].reach
       PROVE  x \in M[i].adjacent \/ Explored(T, x, dir)
  BY <1>1, <1>7, <1>8, <1>9, <1>11 DEF Covers
<1>12. \A x \in e.reach : x \in e.adjacent \/ Explored(T, x, dir)
  BY <1>4, <1>8
<1> QED BY <1>5, <1>10, <1>11, <1>12 DEF Covers

\* Completing the cursor on top keeps the chain.
LEMMA RolledUpChain ==
    ASSUME NEW c \in Component, NEW dir, NEW S, Chain(S, c, dir), Len(S) > 0
    PROVE  Chain(RolledUp(S), c, dir) /\ Len(RolledUp(S)) = Len(S) - 1
<1> DEFINE T == RolledUp(S)
           k == Len(S)
<1>1. /\ k \in Nat /\ k - 1 \in Nat /\ k \in 1..k /\ 1..(k - 1) \subseteq 1..k
      /\ \A i \in 1..k : /\ S[i] \in Cursor /\ S[i].component \in Component
                         /\ S[i].adjacent \subseteq Component /\ S[i].reach \subseteq Component
  BY ChainTypes
<1>2. T \in Seq(Cursor) /\ Len(T) = k - 1
  <2>1. ASSUME NEW i \in 1..(k - 1) PROVE T[i] \in Cursor
    BY <1>1 DEF RolledUp, Cursor
  <2>2. T \in [1..(k - 1) -> Cursor]
    BY <2>1 DEF RolledUp
  <2> QED BY <2>2, <1>1
<1>3. ASSUME NEW i \in 1..(k - 1)
      PROVE  /\ T[i].component = S[i].component /\ T[i].adjacent = S[i].adjacent
             /\ S[i].reach \subseteq T[i].reach
             /\ i # k - 1 => T[i].reach = S[i].reach
             /\ i = k - 1 => T[i].reach = S[i].reach \cup S[k].reach
  BY DEF RolledUp
<1>4. ASSUME NEW i \in 1..(k - 1) PROVE T[i].reach \subseteq Reach(T[i].component, dir)
  <2>1. S[i].reach \subseteq Reach(S[i].component, dir)
    BY <1>1 DEF Chain
  <2>2. CASE i = k - 1
    <3>1. k > 1 /\ i \in 1..k
      BY <2>2, <1>1
    <3>2. S[k].component \in Adjacent(S[i].component, dir)
      BY <3>1, <2>2, <1>1 DEF Chain
    <3>3. S[k].reach \subseteq Reach(S[k].component, dir)
      BY <1>1 DEF Chain
    <3>4. S[k].component \in Reach(S[i].component, dir)
      BY <3>1, <3>2, <1>1, ReachFacts
    <3>5. Reach(S[k].component, dir) \subseteq Reach(S[i].component, dir)
      BY <3>1, <3>4, <1>1, ReachFacts
    <3> QED BY <3>3, <3>5, <2>1, <2>2, <1>3
  <2> QED BY <2>1, <2>2, <1>3
<1>5. ASSUME NEW i \in 1..(k - 1)
      PROVE  /\ T[i].component \in Reach(c, dir) \cap T[i].reach
             /\ T[i].adjacent \subseteq Adjacent(T[i].component, dir)
             /\ i = 1 => Adjacent(T[i].component, dir) \subseteq T[i].reach \cup T[i].adjacent
             /\ i > 1 => /\ Adjacent(T[i].component, dir) \subseteq T[i].reach
                         /\ T[i].component \in Adjacent(T[i - 1].component, dir)
  <2>1. i \in 1..k /\ (i > 1 => i - 1 \in 1..(k - 1))
    BY <1>1
  <2> QED BY <2>1, <1>3 DEF Chain
<1>6. Len(T) > 0 => T[1].component = c
  <2>1. Len(T) > 0 => 1 \in 1..(k - 1)
    BY <1>1, <1>2
  <2> QED BY <2>1, <1>1, <1>3 DEF Chain
<1> QED BY <1>2, <1>4, <1>5, <1>6, ZenonT(30) DEF Chain

\* Completing the cursor on top, which has nothing left to look at, keeps the
\* cover: its ancestor takes over what it held.
LEMMA RolledUpCovers ==
    ASSUME NEW S, NEW dir, Len(S) \in Nat, Len(S) > 1, Len(RolledUp(S)) = Len(S) - 1,
           S[Len(S)].adjacent = {}, Covers(S, dir)
    PROVE  Covers(RolledUp(S), dir)
<1> DEFINE T == RolledUp(S)
           k == Len(S)
<1>1. k - 1 \in 1..(k - 1) /\ 1 \in 1..(k - 1) /\ 1..k = 1..(k - 1) \cup {k}
  OBVIOUS
<1>2. ASSUME NEW i \in 1..(k - 1)
      PROVE  /\ T[i].adjacent = S[i].adjacent /\ S[i].reach \subseteq T[i].reach
             /\ T[i].reach \subseteq S[i].reach \cup S[k].reach
             /\ i = k - 1 => T[i].reach = S[i].reach \cup S[k].reach
  BY DEF RolledUp
<1>3. \A x : Holds(S, x) => Holds(T, x)
  BY <1>1, <1>2, SMTT(30) DEF Holds
<1>4. \A x : Explored(S, x, dir) => Explored(T, x, dir)
  BY <1>3 DEF Explored
<1>5. \A x \in S[k].reach : Explored(T, x, dir)
  BY <1>1, <1>4 DEF Covers
<1>6. \A x \in T[1].reach : Explored(T, x, dir)
  BY <1>1, <1>2, <1>4, <1>5 DEF Covers
<1>7. ASSUME NEW i \in 1..(k - 1), NEW x \in T[i].reach
      PROVE  x \in T[i].adjacent \/ Explored(T, x, dir)
  BY <1>1, <1>2, <1>4, <1>5, <1>7, ZenonT(30) DEF Covers
<1> QED BY <1>6, <1>7 DEF Covers

\* A root cursor with nothing left to look at holds the whole reach.
LEMMA CompletedWhole ==
    ASSUME NEW c \in Component, NEW dir, NEW S, Chain(S, c, dir), Len(S) = 1,
           S[1].adjacent = {}, Covers(S, dir)
    PROVE  S[1].reach = Reach(c, dir)
<1>1. 1 \in 1..Len(S) /\ 1..Len(S) = {1}
  OBVIOUS
<1>2. /\ S[1].component = c /\ c \in S[1].reach /\ S[1].reach \subseteq Reach(c, dir)
      /\ S[1].reach \subseteq Component
  BY <1>1, ChainTypes DEF Chain
<1>3. \A x \in S[1].reach : Adjacent(x, dir) \subseteq S[1].reach
  BY <1>1 DEF Covers, Explored, Holds
<1>4. Closed(digraph, S[1].reach, dir) /\ digraph.nodes = Component
  BY <1>3 DEF Closed, Adjacent, digraph
<1>5. Reach(c, dir) \subseteq S[1].reach
  BY <1>2, <1>4, ReachInClosed DEF Reach
<1> QED BY <1>2, <1>5

-----------------------------------------------------------------------------
(* The steps of a caller.                                                  *)

\* Nobody searches at first.
LEMMA InvInit == Init => Inv
<1> SUFFICES ASSUME Init PROVE Inv
  OBVIOUS
<1>1. TypeOK
  <2>1. /\ inboundComponentReach \in [Component -> Entries]
        /\ outboundComponentReach \in [Component -> Entries]
    BY DEF Init, Entries, Inbound!Init, Outbound!Init
  <2>2. << >> \in Seq(Cursor)
    OBVIOUS
  <2>3. cursors \in [Caller -> Seq(Cursor)]
    BY <2>2 DEF Init
  <2> QED BY <2>1, <2>3 DEF Init, TypeOK, Entries, Idle
<1>2. ReachSound
  BY DEF Init, ReachSound, Sound, Inbound!Init, Outbound!Init
<1>3. WholeUnlessCached
  BY DEF Init, WholeUnlessCached
<1> QED BY <1>1, <1>2, <1>3 DEF Init, Inv

\* The part of the invariant about one caller.
CallerInv(p) ==
    /\ query[p] = Idle => cursors[p] = << >> /\ result[p] = Absent
    /\ result[p] # Absent => cursors[p] = << >>
    /\ query[p] # Idle =>
          /\ Sound(query[p].component, query[p].direction, result[p])
          /\ Chain(cursors[p], query[p].component, query[p].direction)
          /\ cursors[p] # << >> /\ trusted[p] => Covers(cursors[p], query[p].direction)
    /\ result[p] # Absent /\ trusted[p] =>
          result[p] = Reach(query[p].component, query[p].direction)

\* The entries of both caches are sound.
CacheInv ==
    \A c \in Component : /\ Sound(c, "inbound", inboundComponentReach[c])
                         /\ Sound(c, "outbound", outboundComponentReach[c])

\* The invariant, caller by caller.
LEMMA InvParts == Inv <=> TypeOK /\ CacheInv /\ \A p \in Caller : CallerInv(p)
BY DEF Inv, CacheInv, CallerInv, ReachSound, WholeUnlessCached

\* What is known of a caller depends on its own state and on the graph alone.
LEMMA CallerUntouched ==
    ASSUME NEW q \in Caller, CallerInv(q), edges' = edges,
           query'[q] = query[q], cursors'[q] = cursors[q], result'[q] = result[q], trusted'[q] = trusted[q]
    PROVE  CallerInv(q)'
<1>1. Sound(query[q].component, query[q].direction, result[q])'
        <=> Sound(query[q].component, query[q].direction, result[q])
  BY DEF Sound, Adjacent, Reach, digraph
<1>2. Chain(cursors[q], query[q].component, query[q].direction)'
        <=> Chain(cursors[q], query[q].component, query[q].direction)
  BY DEF Chain, Adjacent, Reach, digraph
<1>3. Covers(cursors[q], query[q].direction)' <=> Covers(cursors[q], query[q].direction)
  BY DEF Covers, Explored, Holds, Adjacent, Reach, digraph
<1>4. Reach(query[q].component, query[q].direction)' = Reach(query[q].component, query[q].direction)
  BY DEF Reach, digraph
<1> QED BY <1>1, <1>2, <1>3, <1>4 DEF CallerInv

\* A step of p that keeps the types, the caches and what concerns p keeps the
\* invariant: nothing of another caller changes.
LEMMA StepOf ==
    ASSUME Inv, NEW p \in Caller, edges' = edges, TypeOK', CacheInv', CallerInv(p)',
           \A q \in Caller \ {p} : /\ query'[q] = query[q] /\ cursors'[q] = cursors[q]
                                   /\ result'[q] = result[q] /\ trusted'[q] = trusted[q]
    PROVE  Inv'
<1>1. ASSUME NEW q \in Caller \ {p} PROVE CallerInv(q)'
  <2>1. CallerInv(q)
    BY InvParts
  <2> QED BY <2>1, CallerUntouched
<1>2. \A q \in Caller : CallerInv(q)'
  BY <1>1
<1>3. (TypeOK /\ CacheInv /\ \A q \in Caller : CallerInv(q))'
  BY <1>2
<1> QED BY <1>3 DEF Inv, CacheInv, CallerInv, ReachSound, WholeUnlessCached

\* An entry found in a cache is sound.
LEMMA EntrySound ==
    ASSUME Inv, NEW c \in Component, NEW dir \in Direction, cachedComponentReach(c, dir) # Absent
    PROVE  /\ Sound(c, dir, cachedComponentReach(c, dir))
           /\ cachedComponentReach(c, dir) \in SUBSET Component
<1>1. TypeOK /\ CacheInv
  BY InvParts
<1>2. CASE dir = "inbound"
  BY <1>1, <1>2 DEF CacheInv, cachedComponentReach, TypeOK, Entries
<1>3. CASE dir = "outbound"
  BY <1>1, <1>3 DEF CacheInv, cachedComponentReach, TypeOK, Entries
<1> QED BY <1>2, <1>3 DEF cachedComponentReach, Direction

\* A call either is answered from the cache or starts a stack with its root.
LEMMA CallKeeps ==
    ASSUME Inv, NEW p \in Caller, NEW c \in Component, NEW dir \in Direction,
           componentReachDFS(p, c, dir)
    PROVE  Inv'
<1> DEFINE entry == cachedComponentReach(c, dir)
           root == newRootReachCursor(c, dir)
<1>1. /\ TypeOK /\ CallerInv(p) /\ CacheInv
      /\ query[p] = Idle /\ cursors[p] = << >> /\ result[p] = Absent
  BY InvParts DEF componentReachDFS, CallerInv
<1>2. /\ query' = [query EXCEPT ![p] = [component |-> c, direction |-> dir]]
      /\ edges' = edges /\ inboundComponentReach' = inboundComponentReach
      /\ outboundComponentReach' = outboundComponentReach
  BY DEF componentReachDFS, caches
<1>3. /\ query'[p] = [component |-> c, direction |-> dir] /\ query'[p] # Idle
      /\ query'[p].component = c /\ query'[p].direction = dir
      /\ query' \in [Caller -> [component : Component, direction : Direction] \cup {Idle}]
  BY <1>1, <1>2, AbsentAssumption DEF TypeOK, Idle
<1>4. CacheInv'
  BY <1>1, <1>2 DEF CacheInv, Sound, Adjacent, Reach, digraph
<1>5. CASE entry # Absent
  <2>1. /\ result' = [result EXCEPT ![p] = entry] /\ cursors' = cursors
        /\ trusted' = [trusted EXCEPT ![p] = Whole(c, dir, entry)]
    BY <1>5 DEF componentReachDFS
  <2>2. Sound(c, dir, entry) /\ entry \in SUBSET Component
    BY <1>5, EntrySound
  <2>3. TypeOK'
    BY <2>1, <2>2, <1>1, <1>2, <1>3 DEF TypeOK, Entries, Whole
  <2>4. /\ result'[p] = entry /\ cursors'[p] = << >> /\ trusted'[p] = (entry = Reach(c, dir))
    BY <2>1, <1>1 DEF TypeOK, Whole
  <2>5. Chain(<< >>, c, dir)'
    BY DEF Chain
  <2>6. CallerInv(p)'
    BY <2>2, <2>4, <2>5, <1>2, <1>3, ZenonT(30) DEF CallerInv, Sound, Adjacent, Reach, digraph
  <2> QED BY <2>1, <2>3, <2>6, <1>1, <1>2, <1>4, StepOf, ZenonT(30) DEF TypeOK
<1>6. CASE entry = Absent
  <2>1. /\ result' = result /\ cursors' = [cursors EXCEPT ![p] = <<root>>]
        /\ trusted' = [trusted EXCEPT ![p] = TRUE]
    BY <1>6 DEF componentReachDFS
  <2>2. /\ root \in Cursor /\ root.component = c /\ root.adjacent = Adjacent(c, dir)
        /\ root.reach = {c}
    BY AdjacentType DEF newRootReachCursor, Cursor
  <2>3. /\ <<root>> \in Seq(Cursor) /\ Len(<<root>>) = 1 /\ <<root>>[1] = root
        /\ 1..1 = {1}
    BY <2>2
  <2>4. TypeOK'
    BY <2>1, <2>3, <1>1, <1>2, <1>3 DEF TypeOK
  <2>5. Chain(<<root>>, c, dir)
    BY <2>2, <2>3, ReachFacts DEF Chain
  <2>6. Covers(<<root>>, dir)
    BY <2>2, <2>3 DEF Covers, Explored, Holds
  <2>7. cursors'[p] = <<root>> /\ result'[p] = Absent /\ cursors'[p] # << >>
    BY <2>1, <2>3, <1>1 DEF TypeOK
  <2>8. Chain(cursors[p], query[p].component, query[p].direction)'
    BY <2>5, <2>7, <1>2, <1>3 DEF Chain, Adjacent, Reach, digraph
  <2>9. Covers(cursors[p], query[p].direction)'
    BY <2>6, <2>7, <1>2, <1>3 DEF Covers, Explored, Holds, Adjacent, digraph
  <2>10. CallerInv(p)'
    BY <2>7, <2>8, <2>9, <1>2, <1>3 DEF CallerInv, Sound
  <2> QED BY <2>1, <2>4, <2>10, <1>1, <1>2, <1>4, StepOf, ZenonT(30) DEF TypeOK
<1> QED BY <1>5, <1>6

\* What is known of a caller that searches.
LEMMA SearchFacts ==
    ASSUME Inv, NEW p \in Caller, Searching(p)
    PROVE  /\ TypeOK /\ CacheInv /\ CallerInv(p)
           /\ query[p] # Idle /\ result[p] = Absent
           /\ query[p].component \in Component /\ query[p].direction \in Direction
           /\ Chain(cursors[p], query[p].component, query[p].direction)
           /\ trusted[p] => Covers(cursors[p], query[p].direction)
           /\ cursors[p] \in Seq(Cursor) /\ Len(cursors[p]) \in Nat \ {0}
<1>1. TypeOK /\ CacheInv /\ CallerInv(p)
  BY InvParts
<1>2. query[p] # Idle /\ result[p] = Absent
  BY <1>1 DEF CallerInv, Searching
<1>3. query[p] \in [component : Component, direction : Direction]
  BY <1>1, <1>2 DEF TypeOK
<1>4. cursors[p] \in Seq(Cursor) /\ Len(cursors[p]) \in Nat \ {0}
  BY <1>1 DEF TypeOK, Searching
<1> QED BY <1>1, <1>2, <1>3, <1>4 DEF CallerInv, Searching
\* Moving past a neighbour.
LEMMA NextAdjacentKeeps ==
    ASSUME Inv, NEW p \in Caller, NEW n \in Component, NextAdjacent(p, n)
    PROVE  Inv'
<1> DEFINE S == cursors[p]
           c == query[p].component
           dir == query[p].direction
           entry == cachedComponentReach(n, dir)
<1>1. /\ Searching(p) /\ n \in S[Len(S)].adjacent
      /\ edges' = edges /\ query' = query /\ result' = result
      /\ inboundComponentReach' = inboundComponentReach
      /\ outboundComponentReach' = outboundComponentReach
  BY DEF NextAdjacent, Back, Depth, caches
<1>2. /\ TypeOK /\ CacheInv /\ query[p] # Idle /\ result[p] = Absent
      /\ c \in Component /\ dir \in Direction /\ Chain(S, c, dir)
      /\ trusted[p] => Covers(S, dir)
      /\ S \in Seq(Cursor) /\ Len(S) \in Nat \ {0} /\ Len(S) > 0
  BY <1>1, SearchFacts
<1>3. CacheInv'
  BY <1>1, <1>2 DEF CacheInv, Sound, Adjacent, Reach, digraph
<1>4. ASSUME NEW T, cursors' = [cursors EXCEPT ![p] = T], Chain(T, c, dir), T # << >>,
             trusted' \in [Caller -> BOOLEAN],
             \A q \in Caller \ {p} : trusted'[q] = trusted[q],
             trusted'[p] => Covers(T, dir)
      PROVE  Inv'
  <2>1. cursors'[p] = T /\ T \in Seq(Cursor)
    BY <1>2, <1>4 DEF TypeOK, Chain
  <2>2. TypeOK'
    BY <2>1, <1>1, <1>2, <1>4 DEF TypeOK
  <2>3. Chain(T, c, dir)' /\ (trusted'[p] => Covers(T, dir)')
    BY <1>1, <1>4 DEF Chain, Covers, Explored, Holds, Adjacent, Reach, digraph
  <2>4. CallerInv(p)'
    BY <2>1, <2>3, <1>1, <1>2, <1>4 DEF CallerInv, Sound
  <2> QED BY <2>2, <2>4, <1>1, <1>2, <1>3, <1>4, StepOf, ZenonT(30) DEF TypeOK
<1>5. CASE /\ n \in S[1].reach
           /\ cursors' = [cursors EXCEPT ![p] = Moved(S, n, {})]
           /\ trusted' = trusted
  <2>1. Chain(Moved(S, n, {}), c, dir) /\ Len(Moved(S, n, {})) = Len(S)
    BY <1>1, <1>2, MovedChain
  <2>2. Moved(S, n, {}) # << >>
    BY <2>1, <1>2
  <2>3. trusted[p] => Covers(Moved(S, n, {}), dir)
    BY <2>1, <1>1, <1>2, <1>5, MovedCovers
  <2> QED BY <2>1, <2>2, <2>3, <1>2, <1>4, <1>5, ZenonT(30) DEF TypeOK
<1>6. CASE /\ entry # Absent
           /\ cursors' = [cursors EXCEPT ![p] = Moved(S, n, entry)]
           /\ trusted' = [trusted EXCEPT ![p] = @ /\ Whole(n, dir, entry)]
  <2>1. entry \subseteq Reach(n, dir)
    BY <1>2, <1>6, EntrySound DEF Sound
  <2>2. Chain(Moved(S, n, entry), c, dir) /\ Len(Moved(S, n, entry)) = Len(S)
    <3>1. c \in Component /\ Chain(S, c, dir) /\ Len(S) > 0 /\ n \in S[Len(S)].adjacent
      BY <1>1, <1>2
    <3>2. entry \in SUBSET Reach(n, dir)
      BY <2>1
    <3> QED BY <3>1, <3>2, MovedChain
  <2>3. Moved(S, n, entry) # << >>
    BY <2>2, <1>2
  <2>4. ASSUME trusted[p], entry = Reach(n, dir)
        PROVE  Covers(Moved(S, n, entry), dir)
    <3>1. /\ \A y \in Adjacent(n, dir) : y \in entry
          /\ \A x \in entry : Adjacent(x, dir) \subseteq entry
      BY <2>4, ReachFacts
    <3> QED BY <3>1, <2>2, <2>4, <1>1, <1>2, MovedCovers, ZenonT(30)
  <2>5. trusted' \in [Caller -> BOOLEAN] /\ trusted'[p] = (trusted[p] /\ entry = Reach(n, dir))
    BY <1>2, <1>6 DEF TypeOK, Whole
  <2> QED BY <2>2, <2>3, <2>4, <2>5, <1>4, <1>6, ZenonT(30)
<1>7. CASE /\ cursors' = [cursors EXCEPT ![p] = Append(Moved(S, n, {}), newReachCursor(n, dir))]
           /\ trusted' = trusted
  <2> DEFINE T == Append(Moved(S, n, {}), newReachCursor(n, dir))
  <2>1. Chain(T, c, dir)
    BY <1>1, <1>2, PushedChain
  <2>2. trusted[p] => Covers(T, dir)
    BY <1>1, <1>2, PushedCovers
  <2>3. Chain(Moved(S, n, {}), c, dir)
    BY <1>1, <1>2, MovedChain
  <2>4. Moved(S, n, {}) \in Seq(Cursor) /\ newReachCursor(n, dir) \in Cursor
    BY <2>3, AdjacentType DEF Chain, newReachCursor, Cursor
  <2>5. T # << >>
    BY <2>4
  <2> QED BY <2>1, <2>2, <2>5, <1>2, <1>4, <1>7, ZenonT(30) DEF TypeOK
<1> QED BY <1>5, <1>6, <1>7 DEF NextAdjacent

\* A sound reach put in the cache keeps the cache sound.
LEMMA CachePut ==
    ASSUME TypeOK, CacheInv, edges' = edges, NEW c \in Component, NEW reach \in SUBSET Component,
           NEW dir \in Direction, Sound(c, dir, reach), cacheComponentReach(c, reach, dir)
    PROVE  /\ CacheInv'
           /\ inboundComponentReach' \in [Component -> Entries]
           /\ outboundComponentReach' \in [Component -> Entries]
<1>1. \A x \in Component : \A d, e : Sound(x, d, e)' <=> Sound(x, d, e)
  BY DEF Sound, Adjacent, Reach, digraph
<1>2. \A x \in Component : \A d : Sound(x, d, Absent)
  BY DEF Sound
<1>3. CASE dir = "inbound" /\ Inbound!Store(c, reach) /\ UNCHANGED outboundComponentReach
  <2>1. /\ inboundComponentReach' \in [Component -> Entries]
        /\ \A x \in Component : \/ inboundComponentReach'[x] = inboundComponentReach[x]
                                \/ inboundComponentReach'[x] = Absent
                                \/ x = c /\ inboundComponentReach'[x] = reach
    BY <1>3, ZenonT(30) DEF Inbound!Store, Inbound!Held, TypeOK, Entries
  <2> QED BY <2>1, <1>1, <1>2, <1>3 DEF CacheInv, TypeOK
<1>4. CASE dir = "outbound" /\ Outbound!Store(c, reach) /\ UNCHANGED inboundComponentReach
  <2>1. /\ outboundComponentReach' \in [Component -> Entries]
        /\ \A x \in Component : \/ outboundComponentReach'[x] = outboundComponentReach[x]
                                \/ outboundComponentReach'[x] = Absent
                                \/ x = c /\ outboundComponentReach'[x] = reach
    BY <1>4, ZenonT(30) DEF Outbound!Store, Outbound!Held, TypeOK, Entries
  <2> QED BY <2>1, <1>1, <1>2, <1>4 DEF CacheInv, TypeOK
<1>5. CASE UNCHANGED caches
  BY <1>1, <1>5 DEF CacheInv, TypeOK, caches
<1> QED BY <1>3, <1>4, <1>5 DEF cacheComponentReach

\* Arithmetic on the depth of a stack.
LEMMA AboveOne ==
    ASSUME NEW k \in Nat \ {0}, k # 1
    PROVE  k > 1 /\ k - 1 # 0
OBVIOUS

\* Completing the cursor on top.
LEMMA CompleteKeeps ==
    ASSUME Inv, NEW p \in Caller, Complete(p)
    PROVE  Inv'
<1> DEFINE S == cursors[p]
           k == Len(S)
           c == query[p].component
           dir == query[p].direction
<1>1. /\ Searching(p) /\ S[k].adjacent = {}
      /\ cacheComponentReach(S[k].component, S[k].reach, dir)
      /\ cursors' = [cursors EXCEPT ![p] = RolledUp(S)]
      /\ result' = IF k = 1 THEN [result EXCEPT ![p] = S[k].reach] ELSE result
      /\ edges' = edges /\ query' = query /\ trusted' = trusted
  BY DEF Complete, Back, Depth
<1>2. /\ TypeOK /\ CacheInv /\ query[p] # Idle /\ result[p] = Absent
      /\ c \in Component /\ dir \in Direction /\ Chain(S, c, dir)
      /\ trusted[p] => Covers(S, dir)
      /\ S \in Seq(Cursor) /\ k \in Nat \ {0} /\ k > 0 /\ k \in 1..k
  BY <1>1, SearchFacts
<1>3. S[k].component \in Component /\ S[k].reach \in SUBSET Component
  BY <1>2, ChainTypes
<1>4. Sound(S[k].component, dir, S[k].reach)
  <2>1. /\ S[k].component \in S[k].reach /\ S[k].reach \subseteq Reach(S[k].component, dir)
        /\ k = 1 => Adjacent(S[k].component, dir) \subseteq S[k].reach \cup S[k].adjacent
        /\ k > 1 => Adjacent(S[k].component, dir) \subseteq S[k].reach
    BY <1>2 DEF Chain
  <2>2. k \in Nat \ {0}
    BY <1>2
  <2>3. k = 1 \/ k > 1
    <3>1. \A n \in Nat \ {0} : n = 1 \/ n > 1
      OBVIOUS
    <3> HIDE DEF k
    <3> QED BY <2>2, <3>1
  <2> QED BY <2>1, <2>3, <1>1 DEF Sound
<1>5. /\ CacheInv'
      /\ inboundComponentReach' \in [Component -> Entries]
      /\ outboundComponentReach' \in [Component -> Entries]
  BY <1>1, <1>2, <1>3, <1>4, CachePut
<1>6. PICK T : T = RolledUp(S)
  OBVIOUS
<1>7. Chain(T, c, dir) /\ Len(T) = k - 1
  BY <1>2, <1>6, RolledUpChain, ZenonT(30)
<1>8. T \in Seq(Cursor) /\ cursors'[p] = T /\ cursors' \in [Caller -> Seq(Cursor)]
  BY <1>1, <1>2, <1>6, <1>7 DEF TypeOK, Chain
<1>9. TypeOK'
  BY <1>1, <1>2, <1>3, <1>5, <1>8 DEF TypeOK, Entries
<1>10. Chain(T, c, dir)'
  BY <1>1, <1>7 DEF Chain, Adjacent, Reach, digraph
<1>11. CASE k = 1
  <2>1. T = << >>
    BY <1>7, <1>8, <1>11
  <2>2. result'[p] = S[1].reach
    BY <1>1, <1>2, <1>11 DEF TypeOK
  <2>3. S[1].component = c
    BY <1>2, <1>11 DEF Chain
  <2>4. trusted[p] => S[1].reach = Reach(c, dir)
    <3>1. c \in Component /\ Chain(S, c, dir) /\ (trusted[p] => Covers(S, dir))
      BY <1>2
    <3>2. Len(S) = 1 /\ S[1].adjacent = {}
      BY <1>1, <1>11
    <3> QED BY <3>1, <3>2, CompletedWhole
  <2>5. PICK reach : reach = S[1].reach
    OBVIOUS
  <2>6. Sound(c, dir, reach) /\ (trusted[p] => reach = Reach(c, dir)) /\ result'[p] = reach
    BY <2>2, <2>3, <2>4, <2>5, <1>4, <1>11
  <2>7. Sound(c, dir, reach)' /\ (trusted'[p] => reach = Reach(c, dir)')
    BY <2>6, <1>1 DEF Sound, Adjacent, Reach, digraph
  <2>8. CallerInv(p)'
    BY <2>1, <2>6, <2>7, <1>1, <1>2, <1>8, <1>10 DEF CallerInv
  <2> QED BY <2>8, <1>1, <1>2, <1>5, <1>9, <1>11, StepOf DEF TypeOK
<1>12. CASE k # 1
  <2>1. k > 1 /\ k - 1 # 0 /\ T # << >>
    BY <1>2, <1>7, <1>12, AboveOne, ZenonT(30)
  <2>2. trusted[p] => Covers(T, dir)
    BY <2>1, <1>1, <1>2, <1>6, <1>7, RolledUpCovers
  <2>3. trusted[p] => Covers(T, dir)'
    BY <2>2, <1>1 DEF Covers, Explored, Holds, Adjacent, digraph
  <2>4. CallerInv(p)'
    BY <2>1, <2>3, <1>1, <1>2, <1>8, <1>10, <1>12 DEF CallerInv, Sound
  <2> QED BY <2>4, <1>1, <1>2, <1>5, <1>9, <1>12, StepOf, ZenonT(30) DEF TypeOK
<1> QED BY <1>11, <1>12

\* The end of a call.
LEMMA ReturnKeeps ==
    ASSUME Inv, NEW p \in Caller, Return(p)
    PROVE  Inv'
<1>1. TypeOK /\ CacheInv /\ CallerInv(p)
  BY InvParts
<1>2. /\ result[p] # Absent /\ edges' = edges /\ cursors' = cursors /\ trusted' = trusted
      /\ query' = [query EXCEPT ![p] = Idle] /\ result' = [result EXCEPT ![p] = Absent]
      /\ inboundComponentReach' = inboundComponentReach
      /\ outboundComponentReach' = outboundComponentReach
  BY DEF Return, caches
<1>3. TypeOK'
  BY <1>1, <1>2 DEF TypeOK, Entries
<1>4. CacheInv'
  BY <1>1, <1>2 DEF CacheInv, Sound, Adjacent, Reach, digraph
<1>5. query'[p] = Idle /\ result'[p] = Absent /\ cursors'[p] = << >>
  BY <1>1, <1>2 DEF TypeOK, CallerInv
<1>6. CallerInv(p)'
  BY <1>5 DEF CallerInv
<1> QED BY <1>1, <1>2, <1>3, <1>4, <1>6, StepOf, ZenonT(30) DEF TypeOK

\* Every step keeps the invariant.
LEMMA InvStep == Inv /\ [Next]_vars => Inv'
<1> SUFFICES ASSUME Inv, [Next]_vars PROVE Inv'
  OBVIOUS
<1>1. ASSUME NEW p \in Caller, NEW c \in Component, NEW dir \in Direction,
             componentReachDFS(p, c, dir)
      PROVE  Inv'
  BY <1>1, CallKeeps
<1>2. ASSUME NEW p \in Caller, NEW n \in Component, NextAdjacent(p, n) PROVE Inv'
  BY <1>2, NextAdjacentKeeps
<1>3. ASSUME NEW p \in Caller, Complete(p) PROVE Inv'
  BY <1>3, CompleteKeeps
<1>4. ASSUME NEW p \in Caller, Return(p) PROVE Inv'
  BY <1>4, ReturnKeeps
<1>5. CASE UNCHANGED vars
  <2>1. /\ edges' = edges /\ query' = query /\ cursors' = cursors /\ result' = result
        /\ trusted' = trusted /\ inboundComponentReach' = inboundComponentReach
        /\ outboundComponentReach' = outboundComponentReach
    BY <1>5 DEF vars, caches, callers
  <2>2. TypeOK /\ CacheInv /\ \A p \in Caller : CallerInv(p)
    BY InvParts
  <2>3. TypeOK'
    BY <2>1, <2>2 DEF TypeOK
  <2>4. CacheInv'
    BY <2>1, <2>2 DEF CacheInv, Sound, Adjacent, Reach, digraph
  <2>5. ASSUME NEW p \in Caller PROVE CallerInv(p)'
    BY <2>1, <2>2, CallerUntouched
  <2>6. (TypeOK /\ CacheInv /\ \A p \in Caller : CallerInv(p))'
    BY <2>3, <2>4, <2>5
  <2> QED BY <2>6 DEF Inv, CacheInv, CallerInv, ReachSound, WholeUnlessCached
<1> QED BY <1>1, <1>2, <1>3, <1>4, <1>5 DEF Next

\* Whatever the component graph, the number of callers and the cache size, a
\* cached or returned reach contains nothing that is not reachable.
THEOREM ReachIsSound == Spec => []ReachSound
<1>1. Inv => ReachSound
  BY DEF Inv
<1> QED BY InvInit, InvStep, <1>1, PTL DEF Spec

\* A search that took only whole entries from the caches, the first one for
\* instance, returns the whole reach of its component.
THEOREM ReachIsWhole == Spec => []WholeUnlessCached
<1>1. Inv => WholeUnlessCached
  BY DEF Inv
<1> QED BY InvInit, InvStep, <1>1, PTL DEF Spec
=============================================================================
