------------------------ MODULE ComponentGraphProofs ------------------------
(***************************************************************************)
(* The construction of the component graph and the queries over it, for    *)
(* every digraph and every order of enumeration.                           *)
(*                                                                         *)
(* Tarjan's algorithm (TarjanInv).  Both of its stacks are in the order of *)
(* discovery.  A node on the path reaches all that lies above it on the    *)
(* stack, and every node on the stack reaches one of the path that is not  *)
(* above it.  The low-link of a node names a node it reaches, and no       *)
(* neighbour it has looked at lies lower.  So when a node is a root, what  *)
(* lies above it is one component: its nodes reach each other through the  *)
(* path, and every edge out of it ends in a component found before.        *)
(*                                                                         *)
(* The searches (SearchInv) come first, then the invariant of Tarjan's     *)
(* algorithm, what it means for queries about nodes of the origin graph,   *)
(* and the steps that keep it.                                             *)
(***************************************************************************)
EXTENDS ComponentGraph, TLAPS

-----------------------------------------------------------------------------
(* Reachability in a digraph.  The reach of a node is defined as what      *)
(* every closed set around it contains, so that none of these facts needs  *)
(* an induction over paths.                                                *)

\* An arc followed backwards is an arc of the reverse direction.
LEMMA ArcReverse ==
    ASSUME NEW g, NEW m, NEW n, NEW dir \in Direction
    PROVE  Arc(g, m, n, dir) <=> Arc(g, n, m, ReverseDirection(dir))
BY DEF Arc, ReverseDirection, Direction

\* What a closed set around the start contains: the reach of the start.
LEMMA ReachInClosed ==
    ASSUME NEW g, NEW s, NEW dir, NEW S \in SUBSET g.nodes, s \in S, Closed(g, S, dir)
    PROVE  ReachOf(g, s, dir) \subseteq S
BY DEF ReachOf, ClosedAround

\* The reach of a node contains the node and is closed.
LEMMA ReachClosed ==
    ASSUME NEW g, NEW s \in g.nodes, NEW dir
    PROVE  /\ s \in ReachOf(g, s, dir)
           /\ ReachOf(g, s, dir) \subseteq g.nodes
           /\ Closed(g, ReachOf(g, s, dir), dir)
BY DEF ReachOf, ClosedAround, Closed, AdjacentNodes

\* The complement of a closed set is closed in the reverse direction.
LEMMA ComplementClosed ==
    ASSUME NEW g, NEW dir \in Direction, NEW S \in SUBSET g.nodes, Closed(g, S, dir)
    PROVE  Closed(g, g.nodes \ S, ReverseDirection(dir))
<1> SUFFICES ASSUME NEW n \in g.nodes \ S, NEW m \in g.nodes,
                    Arc(g, n, m, ReverseDirection(dir)), m \in S
             PROVE  FALSE
  BY DEF Closed, AdjacentNodes
<1>1. Arc(g, m, n, dir)
  BY ArcReverse
<1> QED BY <1>1 DEF Closed, AdjacentNodes

\* The reverse of the reverse of a direction is the direction.
LEMMA ReverseTwice ==
    ASSUME NEW dir \in Direction
    PROVE  ReverseDirection(dir) \in Direction /\ ReverseDirection(ReverseDirection(dir)) = dir
BY DEF Direction, ReverseDirection

\* A node that the reverse search from t meets reaches t.
LEMMA ReachReverse ==
    ASSUME NEW g, NEW t \in g.nodes, NEW x \in g.nodes, NEW dir \in Direction,
           x \in ReachOf(g, t, ReverseDirection(dir))
    PROVE  t \in ReachOf(g, x, dir)
<1> SUFFICES ASSUME NEW S \in SUBSET g.nodes, x \in S, Closed(g, S, dir), t \notin S
             PROVE  FALSE
  BY DEF ReachOf, ClosedAround
<1>1. Closed(g, g.nodes \ S, ReverseDirection(dir))
  BY ComplementClosed
<1> QED BY <1>1, ReachInClosed

\* Reachability is transitive.
LEMMA ReachTransitive ==
    ASSUME NEW g, NEW s \in g.nodes, NEW dir, NEW x, x \in ReachOf(g, s, dir)
    PROVE  ReachOf(g, x, dir) \subseteq ReachOf(g, s, dir)
BY ReachClosed, ReachInClosed

-----------------------------------------------------------------------------
(* The searches.  While one runs, what was met from the start is reachable *)
(* from it, what was met from the end reaches it, the two sides are        *)
(* disjoint, and each side is closed but for its queue.  A hit then joins  *)
(* two paths.  When the inbound side is exhausted it is closed against the *)
(* direction of the call, so its complement is closed in that direction,   *)
(* contains the start and lacks the end: no path exists.                   *)

\* One side of a search from the node s in the direction dir: what it has met
\* is reachable, and closed but for what is queued.
Side(s, dir, queue, seen) ==
    /\ seen \subseteq ReachOf(digraph, s, dir)
    /\ queue \subseteq seen \cup {s}
    /\ \A n \in (seen \cup {s}) \ queue : AdjacentNodes(digraph, n, dir) \subseteq seen

\* The inductive invariant.
SearchInv ==
    /\ SearchTypeOK
    /\ call = Idle => NoSearch
    /\ answer = "none" /\ call # Idle =>
          /\ Side(call.start, call.direction, outboundQueue, outboundSeen)
          /\ call.start # call.end
          /\ call.end \notin outboundSeen
          /\ call.method = "ComponentReachable" =>
                /\ Side(call.end, ReverseDirection(call.direction), inboundQueue, inboundSeen)
                /\ call.start \in outboundSeen /\ call.end \in inboundSeen
                /\ outboundSeen \cap inboundSeen = {}
    /\ SearchExact

\* The initial state satisfies the invariant.
LEMMA SearchInit == NoSearch => SearchInv
BY DEF SearchInv, NoSearch, SearchTypeOK, Calls, Idle, SearchExact

\* Expanding a queued node keeps a side of the search: what it meets first is
\* reachable, and the node leaves the queue.
LEMMA SideExpands ==
    ASSUME NEW s, NEW dir, NEW queue, NEW seen, NEW next \in queue,
           s \in digraph.nodes, seen \subseteq digraph.nodes,
           Side(s, dir, queue, seen)
    PROVE  LET new == AdjacentNodes(digraph, next, dir) \ seen
           IN /\ new \subseteq ReachOf(digraph, s, dir)
              /\ Side(s, dir, (queue \ {next}) \cup new, seen \cup new)
<1> DEFINE new == AdjacentNodes(digraph, next, dir) \ seen
<1>1. /\ s \in ReachOf(digraph, s, dir)
      /\ Closed(digraph, ReachOf(digraph, s, dir), dir)
  BY ReachClosed
<1>2. next \in ReachOf(digraph, s, dir)
  BY <1>1 DEF Side
<1>3. AdjacentNodes(digraph, next, dir) \subseteq ReachOf(digraph, s, dir)
  BY <1>1, <1>2 DEF Closed
<1>4. seen \cup new = seen \cup AdjacentNodes(digraph, next, dir)
  OBVIOUS
<1>5. ASSUME NEW n \in (seen \cup new \cup {s}) \ ((queue \ {next}) \cup new)
      PROVE  AdjacentNodes(digraph, n, dir) \subseteq seen \cup new
  <2>1. CASE n = next
    BY <2>1, <1>4
  <2>2. CASE n # next
    BY <2>2 DEF Side
  <2> QED BY <2>1, <2>2
<1> QED BY <1>3, <1>5 DEF Side

-----------------------------------------------------------------------------
\* The beginning of a call establishes both sides.
LEMMA BeginKeeps ==
    ASSUME SearchInv, NEW c \in Calls, Begin(c)
    PROVE  SearchInv'
<1> USE DEF Begin, Idle
<1>1. /\ NoSearch /\ digraph' = digraph /\ c \in Calls /\ call' = c /\ c # Idle
      /\ c.start \in digraph.nodes /\ c.end \in digraph.nodes /\ c.direction \in Direction
      /\ c.method \in {"ComponentReachable", "ComponentSearch"}
  <2>1. NoSearch /\ digraph' = digraph /\ call' = c
    BY DEF SearchInv
  <2>2. /\ c # Idle /\ c.start \in digraph.nodes /\ c.end \in digraph.nodes
        /\ c.direction \in Direction /\ c.method \in {"ComponentReachable", "ComponentSearch"}
    BY DEF Calls
  <2> QED BY <2>1, <2>2
<1>2. SearchTypeOK'
  BY <1>1 DEF SearchInv, SearchTypeOK, Calls, NoSearch
<1>3. /\ c.start \in ReachOf(digraph, c.start, c.direction)
      /\ c.end \in ReachOf(digraph, c.end, ReverseDirection(c.direction))
  BY <1>1, ReachClosed
<1>4. SearchExact'
  BY <1>1, <1>3 DEF SearchExact
<1>5. ASSUME answer' = "none"
      PROVE  /\ Side(c.start, c.direction, outboundQueue, outboundSeen)'
             /\ c.start # c.end /\ c.end \notin outboundSeen'
             /\ c.method = "ComponentReachable" =>
                   /\ Side(c.end, ReverseDirection(c.direction), inboundQueue, inboundSeen)'
                   /\ c.start \in outboundSeen' /\ c.end \in inboundSeen'
                   /\ outboundSeen' \cap inboundSeen' = {}
  BY <1>1, <1>3, <1>5 DEF Side, NoSearch
<1> QED BY <1>1, <1>2, <1>4, <1>5 DEF SearchInv

\* The arguments of a call that runs.
LEMMA CallTypes ==
    ASSUME SearchTypeOK, call # Idle
    PROVE  /\ call \in Calls /\ call.start \in digraph.nodes /\ call.end \in digraph.nodes
           /\ call.direction \in Direction /\ ReverseDirection(call.direction) \in Direction
           /\ call.method \in {"ComponentReachable", "ComponentSearch"}
BY ReverseTwice DEF SearchTypeOK, Calls

\* A node met from both ends joins two paths.
LEMMA Joined ==
    ASSUME NEW s \in digraph.nodes, NEW t \in digraph.nodes, NEW dir \in Direction, NEW x,
           x \in ReachOf(digraph, s, dir), x \in ReachOf(digraph, t, ReverseDirection(dir))
    PROVE  t \in ReachOf(digraph, s, dir)
<1>1. x \in digraph.nodes
  BY DEF ReachOf
<1>2. t \in ReachOf(digraph, x, dir)
  BY <1>1, ReachReverse
<1> QED BY <1>2, ReachTransitive

\* Expanding the outbound side: a hit is right, and otherwise both sides stay.
LEMMA OutboundKeeps ==
    ASSUME SearchInv, NEW n, ExpandOutbound(n)
    PROVE  SearchInv'
<1> USE DEF ExpandOutbound, Running
<1>1. /\ SearchTypeOK /\ call # Idle /\ answer = "none" /\ digraph' = digraph /\ call' = call
      /\ Side(call.start, call.direction, outboundQueue, outboundSeen)
      /\ Side(call.end, ReverseDirection(call.direction), inboundQueue, inboundSeen)
      /\ call.start # call.end /\ call.start \in outboundSeen /\ call.end \in inboundSeen
      /\ outboundSeen \cap inboundSeen = {} /\ call.end \notin outboundSeen
  BY DEF SearchInv
<1>2. /\ call \in Calls /\ call.start \in digraph.nodes /\ call.end \in digraph.nodes
      /\ call.direction \in Direction
  BY <1>1, CallTypes
<1>3. /\ NewOutbound(n) \subseteq ReachOf(digraph, call.start, call.direction)
      /\ Side(call.start, call.direction, (outboundQueue \ {n}) \cup NewOutbound(n),
              outboundSeen \cup NewOutbound(n))
  BY <1>1, <1>2, SideExpands, ZenonT(30) DEF NewOutbound, SearchTypeOK
<1>4. NewOutbound(n) \subseteq digraph.nodes
  BY DEF NewOutbound, AdjacentNodes
<1>5. SearchTypeOK'
  BY <1>1, <1>4 DEF SearchTypeOK, Calls
<1>6. CASE NewOutbound(n) \cap inboundSeen # {}
  <2>1. PICK x \in NewOutbound(n) : x \in inboundSeen
    BY <1>6
  <2>2. call.end \in ReachOf(digraph, call.start, call.direction)
    BY <2>1, <1>1, <1>2, <1>3, Joined DEF Side
  <2>3. answer' = "yes"
    BY <1>6
  <2> QED BY <2>2, <2>3, <1>1, <1>5 DEF SearchInv, SearchExact
<1>7. CASE NewOutbound(n) \cap inboundSeen = {}
  <2>1. /\ outboundQueue' = (outboundQueue \ {n}) \cup NewOutbound(n)
        /\ outboundSeen' = outboundSeen \cup NewOutbound(n)
        /\ answer' = "none" /\ inboundQueue' = inboundQueue /\ inboundSeen' = inboundSeen
    BY <1>7, <1>1
  <2>2. Side(call.start, call.direction, outboundQueue, outboundSeen)'
    BY <2>1, <1>1, <1>3 DEF Side
  <2>3. Side(call.end, ReverseDirection(call.direction), inboundQueue, inboundSeen)'
    BY <2>1, <1>1 DEF Side
  <2>4. outboundSeen' \cap inboundSeen' = {} /\ call.end \notin outboundSeen'
    BY <2>1, <1>1, <1>7
  <2> QED BY <2>1, <2>2, <2>3, <2>4, <1>1, <1>5 DEF SearchInv, SearchExact
<1> QED BY <1>6, <1>7

\* The same for the inbound side.
LEMMA InboundKeeps ==
    ASSUME SearchInv, NEW n, ExpandInbound(n)
    PROVE  SearchInv'
<1> USE DEF ExpandInbound, Running
<1>1. /\ SearchTypeOK /\ call # Idle /\ answer = "none" /\ digraph' = digraph /\ call' = call
      /\ Side(call.start, call.direction, outboundQueue, outboundSeen)
      /\ Side(call.end, ReverseDirection(call.direction), inboundQueue, inboundSeen)
      /\ call.start # call.end /\ call.start \in outboundSeen /\ call.end \in inboundSeen
      /\ outboundSeen \cap inboundSeen = {} /\ call.end \notin outboundSeen
  BY DEF SearchInv
<1>2. /\ call \in Calls /\ call.start \in digraph.nodes /\ call.end \in digraph.nodes
      /\ call.direction \in Direction
  BY <1>1, CallTypes
<1>3. /\ NewInbound(n) \subseteq ReachOf(digraph, call.end, ReverseDirection(call.direction))
      /\ Side(call.end, ReverseDirection(call.direction),
              (inboundQueue \ {n}) \cup NewInbound(n), inboundSeen \cup NewInbound(n))
  BY <1>1, <1>2, SideExpands DEF NewInbound, SearchTypeOK
<1>4. NewInbound(n) \subseteq digraph.nodes
  BY DEF NewInbound, AdjacentNodes
<1>5. SearchTypeOK'
  BY <1>1, <1>4 DEF SearchTypeOK, Calls
<1>6. CASE NewInbound(n) \cap outboundSeen # {}
  <2>1. PICK x \in NewInbound(n) : x \in outboundSeen
    BY <1>6
  <2>2. call.end \in ReachOf(digraph, call.start, call.direction)
    BY <2>1, <1>1, <1>2, <1>3, Joined DEF Side
  <2>3. answer' = "yes"
    BY <1>6
  <2> QED BY <2>2, <2>3, <1>1, <1>5 DEF SearchInv, SearchExact
<1>7. CASE NewInbound(n) \cap outboundSeen = {}
  <2>1. /\ inboundQueue' = (inboundQueue \ {n}) \cup NewInbound(n)
        /\ inboundSeen' = inboundSeen \cup NewInbound(n)
        /\ answer' = "none" /\ outboundQueue' = outboundQueue /\ outboundSeen' = outboundSeen
    BY <1>7, <1>1
  <2>2. Side(call.end, ReverseDirection(call.direction), inboundQueue, inboundSeen)'
    BY <2>1, <1>1, <1>3 DEF Side
  <2>3. Side(call.start, call.direction, outboundQueue, outboundSeen)'
    BY <2>1, <1>1 DEF Side
  <2>4. outboundSeen' \cap inboundSeen' = {}
    BY <2>1, <1>1, <1>7
  <2> QED BY <2>1, <2>2, <2>3, <2>4, <1>1, <1>5 DEF SearchInv, SearchExact
<1> QED BY <1>6, <1>7

\* ComponentSearch expands its one side.
LEMMA SearchKeeps ==
    ASSUME SearchInv, NEW n, Search(n)
    PROVE  SearchInv'
<1> USE DEF Search, Running
<1>1. /\ SearchTypeOK /\ call # Idle /\ answer = "none" /\ digraph' = digraph /\ call' = call
      /\ call.method = "ComponentSearch" /\ call.start # call.end
      /\ Side(call.start, call.direction, outboundQueue, outboundSeen)
      /\ call.end \notin outboundSeen
  BY DEF SearchInv
<1>2. /\ call \in Calls /\ call.start \in digraph.nodes /\ call.end \in digraph.nodes
      /\ call.direction \in Direction
  BY <1>1, CallTypes
<1>3. /\ NewOutbound(n) \subseteq ReachOf(digraph, call.start, call.direction)
      /\ Side(call.start, call.direction, (outboundQueue \ {n}) \cup NewOutbound(n),
              outboundSeen \cup NewOutbound(n))
  BY <1>1, <1>2, SideExpands DEF NewOutbound, SearchTypeOK
<1>4. NewOutbound(n) \subseteq digraph.nodes
  BY DEF NewOutbound, AdjacentNodes
<1>5. SearchTypeOK'
  BY <1>1, <1>4 DEF SearchTypeOK, Calls
<1>6. CASE call.end \in AdjacentNodes(digraph, n, call.direction)
  <2>1. call.end \in ReachOf(digraph, call.start, call.direction)
    BY <1>1, <1>3, <1>6 DEF NewOutbound
  <2>2. answer' = "yes"
    BY <1>6
  <2> QED BY <2>1, <2>2, <1>1, <1>5 DEF SearchInv, SearchExact
<1>7. CASE call.end \notin AdjacentNodes(digraph, n, call.direction)
  <2>1. /\ outboundQueue' = (outboundQueue \ {n}) \cup NewOutbound(n)
        /\ outboundSeen' = outboundSeen \cup NewOutbound(n)
        /\ answer' = "none"
    BY <1>7, <1>1
  <2>2. Side(call.start, call.direction, outboundQueue, outboundSeen)'
    BY <2>1, <1>1, <1>3 DEF Side
  <2>3. call.end \notin outboundSeen'
    BY <2>1, <1>1, <1>7 DEF NewOutbound
  <2> QED BY <2>1, <2>2, <2>3, <1>1, <1>5 DEF SearchInv, SearchExact
<1> QED BY <1>6, <1>7

\* An exhausted inbound side is closed against the direction of the call: no
\* path leads from the start into it.
LEMMA ExhaustedKeeps ==
    ASSUME SearchInv, Exhausted
    PROVE  SearchInv'
<1> USE DEF Exhausted, Running
<1>1. /\ SearchTypeOK /\ call # Idle /\ digraph' = digraph /\ call' = call /\ answer' = "no"
      /\ Side(call.end, ReverseDirection(call.direction), inboundQueue, inboundSeen)
      /\ call.start \in outboundSeen /\ call.end \in inboundSeen
      /\ outboundSeen \cap inboundSeen = {} /\ inboundQueue = {}
      /\ inboundSeen \subseteq digraph.nodes
  BY DEF SearchInv, SearchTypeOK
<1>2. /\ call.start \in digraph.nodes /\ call.direction \in Direction
      /\ ReverseDirection(call.direction) \in Direction
  BY <1>1, CallTypes
<1>3. Closed(digraph, inboundSeen, ReverseDirection(call.direction))
  BY <1>1 DEF Side, Closed
<1>4. Closed(digraph, digraph.nodes \ inboundSeen, call.direction)
  <2> DEFINE back == ReverseDirection(call.direction)
  <2>1. back \in Direction /\ ReverseDirection(back) = call.direction
    BY <1>2, ReverseTwice
  <2>2. inboundSeen \in SUBSET digraph.nodes /\ Closed(digraph, inboundSeen, back)
    BY <1>1, <1>3
  <2> HIDE DEF back
  <2>3. Closed(digraph, digraph.nodes \ inboundSeen, ReverseDirection(back))
    BY <2>1, <2>2, ComplementClosed
  <2> QED BY <2>1, <2>3
<1>5. ReachOf(digraph, call.start, call.direction) \subseteq digraph.nodes \ inboundSeen
  BY <1>1, <1>2, <1>4, ReachInClosed
<1>6. SearchTypeOK'
  BY <1>1 DEF SearchTypeOK, Calls, queues
<1> QED BY <1>1, <1>5, <1>6 DEF SearchInv, SearchExact

\* So is the exhausted side of ComponentSearch, in the direction of the call.
LEMMA SearchedAllKeeps ==
    ASSUME SearchInv, SearchedAll
    PROVE  SearchInv'
<1> USE DEF SearchedAll, Running
<1>1. /\ SearchTypeOK /\ call # Idle /\ digraph' = digraph /\ call' = call /\ answer' = "no"
      /\ Side(call.start, call.direction, outboundQueue, outboundSeen)
      /\ call.start # call.end /\ call.end \notin outboundSeen /\ outboundQueue = {}
      /\ outboundSeen \subseteq digraph.nodes
  BY DEF SearchInv, SearchTypeOK
<1>2. call.start \in digraph.nodes
  BY <1>1, CallTypes
<1>3. Closed(digraph, outboundSeen \cup {call.start}, call.direction)
  BY <1>1 DEF Side, Closed
<1>4. ReachOf(digraph, call.start, call.direction) \subseteq outboundSeen \cup {call.start}
  BY <1>1, <1>2, <1>3, ReachInClosed
<1>5. SearchTypeOK'
  BY <1>1 DEF SearchTypeOK, Calls, queues
<1> QED BY <1>1, <1>4, <1>5 DEF SearchInv, SearchExact

\* Every step keeps the invariant.
LEMMA SearchStep == SearchInv /\ [SearchNext]_searchVars => SearchInv'
<1> SUFFICES ASSUME SearchInv, [SearchNext]_searchVars PROVE SearchInv'
  OBVIOUS
<1>1. ASSUME NEW c \in Calls, Begin(c) PROVE SearchInv'
  BY <1>1, BeginKeeps
<1>2. ASSUME NEW n \in digraph.nodes, ExpandOutbound(n) PROVE SearchInv'
  BY <1>2, OutboundKeeps
<1>3. ASSUME NEW n \in digraph.nodes, ExpandInbound(n) PROVE SearchInv'
  BY <1>3, InboundKeeps
<1>4. ASSUME NEW n \in digraph.nodes, Search(n) PROVE SearchInv'
  BY <1>4, SearchKeeps
<1>5. CASE Exhausted
  BY <1>5, ExhaustedKeeps
<1>6. CASE SearchedAll
  BY <1>6, SearchedAllKeeps
<1>7. CASE Return
  BY <1>7 DEF Return, SearchInv, SearchTypeOK, Calls, Idle, NoSearch, SearchExact
<1>8. CASE UNCHANGED searchVars
  <2>1. /\ digraph' = digraph /\ call' = call /\ answer' = answer
        /\ outboundQueue' = outboundQueue /\ outboundSeen' = outboundSeen
        /\ inboundQueue' = inboundQueue /\ inboundSeen' = inboundSeen
    BY <1>8 DEF searchVars, queues
  <2> QED BY <2>1 DEF SearchInv, SearchTypeOK, Calls, NoSearch, SearchExact, Side
<1> QED BY <1>1, <1>2, <1>3, <1>4, <1>5, <1>6, <1>7, <1>8 DEF SearchNext

-----------------------------------------------------------------------------
(* Tarjan's algorithm.                                                     *)

Reaches(v, w) == w \in ReachOf(origin, v, "outbound")
Adjacent(v) == AdjacentNodes(origin, v, "outbound")

\* The nodes whose cursors are on the stack of cursors: the path of the search.
Path == {dfsStack[i].id : i \in DOMAIN dfsStack}

\* The neighbours of v that the search has looked at.
Done(v) == {w \in Adjacent(v) : \A i \in DOMAIN dfsStack :
                dfsStack[i].id = v => w \notin dfsStack[i].branches}

\* The nodes that have a component.
Found == DOMAIN nodeToComp

Types ==
    /\ IsDigraph(origin)
    /\ Visited \subseteq origin.nodes /\ index \in Nat
    /\ discIdx \in [Visited -> Nat] /\ lowLink \in [Visited -> Nat]
    /\ stack \in Seq(Visited)
    /\ dfsStack \in Seq([id : Visited, branches : SUBSET origin.nodes])
    /\ components \in Seq(SUBSET origin.nodes)
    /\ nodeToComp \in [Found -> Nat] /\ Found \subseteq origin.nodes

\* Both stacks are in the order of discovery, the path is on Tarjan's stack,
\* and its first node is the bottom of that stack.
Order ==
    /\ \A v \in Visited : discIdx[v] < index
    /\ \A v, w \in Visited : discIdx[v] = discIdx[w] => v = w
    /\ \A i, j \in DOMAIN stack : i < j => discIdx[stack[i]] < discIdx[stack[j]]
    /\ \A i, j \in DOMAIN dfsStack :
          i < j => discIdx[dfsStack[i].id] < discIdx[dfsStack[j].id]
    /\ \A i \in DOMAIN dfsStack : 
          dfsStack[i].branches \subseteq AdjacentNodes(origin, dfsStack[i].id, "outbound")
    /\ Path \subseteq OnStack
    /\ IF dfsStack = << >> THEN stack = << >>
       ELSE stack # << >> /\ stack[1] = dfsStack[1].id

\* A node on the stack reaches the node its low-link names, and no neighbour
\* it has looked at lies lower on the stack than its low-link.
LowLinks ==
    \A v \in OnStack :
        /\ lowLink[v] <= discIdx[v]
        /\ \E u \in OnStack : discIdx[u] = lowLink[v] /\ Reaches(v, u)
        /\ Done(v) \subseteq Visited
        /\ \A w \in Done(v) \cap OnStack : lowLink[v] <= discIdx[w]

\* A node on the path reaches all that is above it on the stack, every node on
\* the stack reaches a node of the path below it, and the low-link of a node of
\* the path bounds those of the nodes between it and the next one.
Tree ==
    /\ \A g \in Path, w \in OnStack : discIdx[g] <= discIdx[w] => Reaches(g, w)
    /\ \A w \in OnStack : \E g \in Path : discIdx[g] <= discIdx[w] /\ Reaches(w, g)
    /\ \A g \in Path, u \in OnStack :
          /\ discIdx[g] <= discIdx[u]
          /\ \A h \in Path : discIdx[h] <= discIdx[u] => discIdx[h] <= discIdx[g]
          => lowLink[g] <= lowLink[u]

\* The components found are exact, and no edge leads out of them.
FoundInv ==
    /\ \A i \in DOMAIN components :
          /\ components[i] # {} /\ components[i] \subseteq Found
          /\ \A v \in components[i] :
                /\ nodeToComp[v] = i - 1
                /\ components[i] = {w \in origin.nodes : Reaches(v, w) /\ Reaches(w, v)}
    /\ \A v \in Found : /\ nodeToComp[v] + 1 \in DOMAIN components
                        /\ v \in components[nodeToComp[v] + 1]
    /\ Closed(origin, Found, "outbound")
    /\ OnStack \cap Found = {}
    /\ IF componentGraph = NotBuilt THEN Visited = OnStack \cup Found
       ELSE dfsStack = << >> /\ Found = origin.nodes

TarjanInv == Types /\ Order /\ LowLinks /\ Tree /\ FoundInv

-----------------------------------------------------------------------------
(* The queries for nodes of the origin graph.                              *)

CompIDs == {i - 1 : i \in DOMAIN components}

\* The searched digraph has the components as its nodes, its edges are edges
\* between components, and it has all of them unless it was interrupted.
Lifted ==
    /\ digraph.nodes = CompIDs
    /\ \A c, d \in CompIDs : <<c, d>> \in digraph.edges => <<c, d>> \in ComponentEdges
    /\ ~componentGraph.interrupted =>
          \A c, d \in CompIDs : <<c, d>> \in ComponentEdges => <<c, d>> \in digraph.edges

\* The rows of a built component graph give such a digraph.
LEMMA RowsLifted ==
    ASSUME BuiltIsComponentGraph, componentGraph # NotBuilt,
           digraph = Rows(componentGraph.digraph)
    PROVE  Lifted
<1> DEFINE g == componentGraph.digraph
           row(c) == csrRange(g, c, "outbound")
           out == [c \in CompIDs |-> row(c)]
           outEdges == {e \in CompIDs \X CompIDs : e[2] \in Range(out[e[1]])}
<1>1. /\ Range(g.ids) = CompIDs /\ outEdges \subseteq ComponentEdges
      /\ ~componentGraph.interrupted => outEdges = ComponentEdges
  BY DEF BuiltIsComponentGraph, CompIDs
<1>2. /\ digraph.nodes = Range(g.ids)
      /\ digraph.edges = UNION {{<<c, d>> : d \in Range(row(c))} : c \in Range(g.ids)}
  BY DEF Rows
<1> HIDE DEF row, g
<1>3. ASSUME NEW c \in CompIDs, NEW d \in CompIDs
      PROVE  <<c, d>> \in digraph.edges <=> <<c, d>> \in outEdges
  <2>1. <<c, d>> \in digraph.edges <=> d \in Range(row(c))
    BY <1>1, <1>2
  <2>2. out[c] = row(c)
    OBVIOUS
  <2> QED BY <2>1, <2>2
<1> HIDE DEF outEdges
<1> QED BY <1>1, <1>2, <1>3 DEF Lifted

\* Every node of the origin has its component once the graph is built.
LEMMA Members ==
    ASSUME TarjanInv, componentGraph # NotBuilt
    PROVE  /\ \A v \in origin.nodes : /\ nodeToComp[v] \in CompIDs
                                      /\ v \in components[nodeToComp[v] + 1]
           /\ \A c \in CompIDs : /\ c + 1 \in DOMAIN components
                                 /\ components[c + 1] \subseteq origin.nodes
                                 /\ \A v \in components[c + 1] : nodeToComp[v] = c
<1>1. Types /\ FoundInv /\ Found = origin.nodes
  BY DEF TarjanInv, FoundInv
<1>2. \A i \in DOMAIN components : i \in Nat /\ i \in Int
  BY <1>1 DEF Types
<1>3. ASSUME NEW v \in origin.nodes
      PROVE  nodeToComp[v] \in CompIDs /\ v \in components[nodeToComp[v] + 1]
  <2>1. nodeToComp[v] + 1 \in DOMAIN components /\ v \in components[nodeToComp[v] + 1]
    BY <1>1 DEF FoundInv
  <2>2. nodeToComp[v] \in Nat
    BY <1>1 DEF Types
  <2>3. nodeToComp[v] = (nodeToComp[v] + 1) - 1
    BY <2>2
  <2> QED BY <2>1, <2>3 DEF CompIDs
<1>4. ASSUME NEW c \in CompIDs
      PROVE  /\ c + 1 \in DOMAIN components
             /\ components[c + 1] \subseteq origin.nodes
             /\ \A v \in components[c + 1] : nodeToComp[v] = c
  <2>1. PICK i \in DOMAIN components : c = i - 1
    BY DEF CompIDs
  <2>2. c + 1 = i
    BY <1>2, <2>1
  <2> QED BY <1>1, <2>1, <2>2 DEF FoundInv
<1> QED BY <1>3, <1>4

\* Two nodes of a component reach each other in every direction.
LEMMA Within ==
    ASSUME TarjanInv, NEW i \in DOMAIN components, NEW v \in components[i],
           NEW w \in components[i], NEW dir \in Direction
    PROVE  w \in ReachOf(origin, v, dir)
<1>1. /\ v \in origin.nodes /\ w \in origin.nodes
      /\ w \in ReachOf(origin, v, "outbound") /\ v \in ReachOf(origin, w, "outbound")
  <2>1. FoundInv
    BY DEF TarjanInv
  <2>2. components[i] = {x \in origin.nodes : Reaches(v, x) /\ Reaches(x, v)}
    BY <2>1 DEF FoundInv
  <2> QED BY <2>2 DEF Reaches
<1>2. CASE dir = "outbound"
  BY <1>1, <1>2
<1>3. CASE dir = "inbound"
  <2>1. ReverseDirection("inbound") = "outbound" /\ "inbound" \in Direction
    BY DEF ReverseDirection, Direction
  <2> QED BY <1>1, <1>3, <2>1, ReachReverse
<1>4. CASE dir = "both"
  <2>1. /\ v \in ReachOf(origin, v, "both") /\ ReachOf(origin, v, "both") \in SUBSET origin.nodes
        /\ Closed(origin, ReachOf(origin, v, "both"), "both")
    BY <1>1, ReachClosed
  <2>2. Closed(origin, ReachOf(origin, v, "both"), "outbound")
    BY <2>1, ZenonT(30) DEF Closed, AdjacentNodes, Arc
  <2>3. ReachOf(origin, v, "outbound") \subseteq ReachOf(origin, v, "both")
    BY <2>1, <2>2, ReachInClosed
  <2> QED BY <1>1, <1>4, <2>3
<1> QED BY <1>2, <1>3, <1>4 DEF Direction

\* The ends of an edge between two components.
LEMMA EdgeEnds ==
    ASSUME NEW f \in ComponentEdges, IsDigraph(origin)
    PROVE  \E x, y \in origin.nodes : /\ <<x, y>> \in origin.edges
                                      /\ nodeToComp[x] = f[1] /\ nodeToComp[y] = f[2]
<1>1. PICK e \in origin.edges : f = <<nodeToComp[e[1]], nodeToComp[e[2]]>>
  BY DEF ComponentEdges
<1>2. e = <<e[1], e[2]>> /\ e[1] \in origin.nodes /\ e[2] \in origin.nodes
  BY DEF IsDigraph
<1> QED BY <1>1, <1>2

\* A path between components is one between any of their nodes.
LEMMA PathDown ==
    ASSUME TarjanInv, Lifted, componentGraph # NotBuilt, NEW dir \in Direction,
           NEW a \in CompIDs, NEW v \in components[a + 1],
           NEW b \in ReachOf(digraph, a, dir), NEW w \in components[b + 1]
    PROVE  w \in ReachOf(origin, v, dir)
<1> DEFINE R == ReachOf(origin, v, dir)
           S == {c \in CompIDs : components[c + 1] \subseteq R}
<1>1. IsDigraph(origin) /\ digraph.nodes = CompIDs
  BY DEF TarjanInv, Types, Lifted
<1>2. /\ \A x \in origin.nodes : /\ nodeToComp[x] \in CompIDs
                                 /\ x \in components[nodeToComp[x] + 1]
      /\ \A c \in CompIDs : /\ c + 1 \in DOMAIN components
                            /\ components[c + 1] \subseteq origin.nodes
                            /\ \A x \in components[c + 1] : nodeToComp[x] = c
  BY Members
<1>3. v \in origin.nodes /\ Closed(origin, R, dir) /\ R \subseteq origin.nodes
  BY <1>2, ReachClosed
<1>4. a \in S
  BY <1>2, Within
<1>5. ASSUME NEW c \in S, NEW d \in CompIDs, Arc(digraph, c, d, dir)
      PROVE  d \in S
  <2> HIDE DEF R, S
  <2>0. c \in CompIDs /\ components[c + 1] \subseteq R
    BY DEF S
  <2>1. PICK x, y \in origin.nodes : /\ nodeToComp[x] = c /\ nodeToComp[y] = d
                                     /\ Arc(origin, x, y, dir)
    <3>1. CASE dir # "inbound" /\ <<c, d>> \in digraph.edges
      <4>1. <<c, d>> \in ComponentEdges
        BY <2>0, <3>1 DEF Lifted
      <4>2. PICK x, y \in origin.nodes : /\ <<x, y>> \in origin.edges
                                         /\ nodeToComp[x] = c /\ nodeToComp[y] = d
        <5>1. PICK f \in ComponentEdges : f[1] = c /\ f[2] = d
          BY <4>1
        <5> QED BY <1>1, <5>1, EdgeEnds, ZenonT(30)
      <4>3. Arc(origin, x, y, dir)
        BY <3>1, <4>2 DEF Arc
      <4> QED BY <4>2, <4>3
    <3>2. CASE dir # "outbound" /\ <<d, c>> \in digraph.edges
      <4>1. <<d, c>> \in ComponentEdges
        BY <2>0, <3>2 DEF Lifted
      <4>2. PICK y, x \in origin.nodes : /\ <<y, x>> \in origin.edges
                                         /\ nodeToComp[y] = d /\ nodeToComp[x] = c
        <5>1. PICK f \in ComponentEdges : f[1] = d /\ f[2] = c
          BY <4>1
        <5> QED BY <1>1, <5>1, EdgeEnds, ZenonT(30)
      <4>3. Arc(origin, x, y, dir)
        BY <3>2, <4>2 DEF Arc
      <4> QED BY <4>2, <4>3
    <3> QED BY <1>5, <3>1, <3>2, ZenonT(30) DEF Arc
  <2>2. x \in R
    BY <1>2, <2>0, <2>1
  <2>3. y \in R
    BY <1>3, <2>1, <2>2 DEF Closed, AdjacentNodes
  <2>4. ASSUME NEW z \in components[d + 1] PROVE z \in R
    <3>1. z \in ReachOf(origin, y, dir)
      BY <1>2, <2>1, Within
    <3> QED BY <1>3, <2>3, <3>1, ReachTransitive DEF R
  <2> QED BY <2>4 DEF S
<1>6. Closed(digraph, S, dir)
  BY <1>1, <1>5 DEF Closed, AdjacentNodes
<1>7. ReachOf(digraph, a, dir) \subseteq S
  BY <1>1, <1>4, <1>6, ReachInClosed
<1> QED BY <1>7

\* A path between two nodes is one between their components, when the component
\* graph is whole.
LEMMA PathUp ==
    ASSUME TarjanInv, Lifted, componentGraph # NotBuilt, ~componentGraph.interrupted,
           NEW dir \in Direction, NEW a \in CompIDs, NEW v \in components[a + 1],
           NEW b \in CompIDs, NEW w \in components[b + 1], w \in ReachOf(origin, v, dir)
    PROVE  b \in ReachOf(digraph, a, dir)
<1> DEFINE R == ReachOf(digraph, a, dir)
           T == {x \in origin.nodes : nodeToComp[x] \in R}
<1>1. IsDigraph(origin) /\ digraph.nodes = CompIDs
  BY DEF TarjanInv, Types, Lifted
<1>2. /\ \A x \in origin.nodes : nodeToComp[x] \in CompIDs
      /\ \A c \in CompIDs : /\ components[c + 1] \subseteq origin.nodes
                            /\ \A x \in components[c + 1] : nodeToComp[x] = c
  BY Members
<1>3. a \in R /\ Closed(digraph, R, dir) /\ R \subseteq CompIDs
  BY <1>1, ReachClosed
<1>4. v \in T
  BY <1>2, <1>3
<1>5. ASSUME NEW x \in T, NEW y \in origin.nodes, Arc(origin, x, y, dir)
      PROVE  y \in T
  <2>1. CASE nodeToComp[x] = nodeToComp[y]
    BY <2>1
  <2>2. CASE nodeToComp[x] # nodeToComp[y]
    <3>1. ASSUME NEW p \in origin.nodes, NEW q \in origin.nodes, <<p, q>> \in origin.edges,
                 nodeToComp[p] # nodeToComp[q]
          PROVE  <<nodeToComp[p], nodeToComp[q]>> \in digraph.edges
      <4>1. <<nodeToComp[p], nodeToComp[q]>> \in ComponentEdges
        <5>1. <<p, q>> \in {e \in origin.edges : nodeToComp[e[1]] # nodeToComp[e[2]]}
          BY <3>1
        <5> QED BY <5>1 DEF ComponentEdges
      <4> QED BY <1>2, <4>1 DEF Lifted
    <3>2. Arc(digraph, nodeToComp[x], nodeToComp[y], dir)
      BY <1>5, <2>2, <3>1 DEF Arc
    <3> QED BY <1>1, <1>2, <1>3, <3>2 DEF Closed, AdjacentNodes
  <2> QED BY <2>1, <2>2
<1>6. Closed(origin, T, dir)
  BY <1>5 DEF Closed, AdjacentNodes
<1>7. w \in T
  BY <1>4, <1>6, ReachInClosed
<1> QED BY <1>2, <1>7

-----------------------------------------------------------------------------
(* The steps of Tarjan's algorithm.                                        *)

\* Nothing is found before the search starts.
LEMMA TarjanInit == Init => TarjanInv
<1> SUFFICES ASSUME Init PROVE TarjanInv
  OBVIOUS
<1>1. /\ Visited = {} /\ OnStack = {} /\ Path = {} /\ Found = {}
      /\ DOMAIN components = {} /\ DOMAIN stack = {} /\ DOMAIN dfsStack = {}
  BY DEF Init, Visited, OnStack, Path, Found, Range
<1>3. Types
  <2>1. IsDigraph(origin)
    BY OriginsAssumption DEF Init
  <2> QED BY <1>1, <2>1 DEF Types, Init, Visited, Found
<1>4. Order
  BY <1>1 DEF Order, Init
<1>5. LowLinks /\ Tree
  BY <1>1 DEF LowLinks, Tree
<1>6. FoundInv
  BY <1>1 DEF FoundInv, Closed, Init
<1> QED BY <1>3, <1>4, <1>5, <1>6 DEF TarjanInv

\* A sequence without its last element.
LEMMA FrontFacts ==
    ASSUME NEW S, NEW s \in Seq(S), Len(s) # 0
    PROVE  LET front == SubSeq(s, 1, Len(s) - 1) IN
           /\ front \in Seq(S) /\ Len(front) = Len(s) - 1
           /\ \A i \in 1..(Len(s) - 1) : front[i] = s[i]
<1> DEFINE n == Len(s) - 1
<1>1. n \in Nat /\ \A i \in 1..n : s[i] \in S
  OBVIOUS
<1> HIDE DEF n
<1>2. /\ SubSeq(s, 1, n) \in Seq(S)
      /\ Len(SubSeq(s, 1, n)) = IF 1 <= n THEN n - 1 + 1 ELSE 0
      /\ \A i \in 1..(n - 1 + 1) : SubSeq(s, 1, n)[i] = s[1 + i - 1]
  BY <1>1
<1>3. /\ SubSeq(s, 1, n) \in Seq(S) /\ Len(SubSeq(s, 1, n)) = n
      /\ \A i \in 1..n : SubSeq(s, 1, n)[i] = s[i]
  BY <1>1, <1>2
<1> QED BY <1>3 DEF n

\* A cursor is a visited node and some nodes.
LEMMA CursorTypes ==
    ASSUME Types
    PROVE  \A i \in DOMAIN dfsStack : /\ dfsStack[i].id \in Visited
                                     /\ dfsStack[i].branches \subseteq origin.nodes
<1> DEFINE C == [id : Visited, branches : SUBSET origin.nodes]
<1>1. dfsStack \in Seq(C)
  BY DEF Types
<1> HIDE DEF C
<1>2. \A i \in DOMAIN dfsStack : dfsStack[i] \in C
  BY <1>1
<1> QED BY <1>2 DEF C

\* The cursor on top belongs to the node of the path discovered last.
LEMMA TopFacts ==
    ASSUME Types, Order, dfsStack # << >>
    PROVE  /\ Len(dfsStack) \in DOMAIN dfsStack /\ Len(dfsStack) \in Nat \ {0}
           /\ Top \in [id : Visited, branches : SUBSET origin.nodes]
           /\ Top.id \in Path /\ Top.id \in Visited /\ Top.id \in OnStack
           /\ \A g \in Path : discIdx[g] <= discIdx[Top.id]
<1> DEFINE C == [id : Visited, branches : SUBSET origin.nodes]
<1>0. dfsStack \in Seq(C)
  BY DEF Types
<1> HIDE DEF C
<1>1. /\ Len(dfsStack) \in DOMAIN dfsStack /\ Len(dfsStack) \in Nat \ {0}
      /\ DOMAIN dfsStack = 1..Len(dfsStack)
      /\ Top \in C /\ \A i \in DOMAIN dfsStack : dfsStack[i] \in C
  BY <1>0 DEF Top
<1> USE DEF C
<1>2. Top.id \in Path /\ Top.id \in Visited /\ Top.id \in OnStack
  BY <1>1 DEF Path, Top, Order
<1>3. ASSUME NEW g \in Path PROVE discIdx[g] <= discIdx[Top.id]
  <2>1. PICK i \in DOMAIN dfsStack : g = dfsStack[i].id
    BY DEF Path
  <2>2. i \in 1..Len(dfsStack) /\ discIdx[Top.id] \in Nat
    BY <1>1, <1>2, <2>1 DEF Types
  <2>3. CASE i = Len(dfsStack)
    BY <2>1, <2>2, <2>3 DEF Top
  <2>4. CASE i < Len(dfsStack)
    <3>1. discIdx[g] < discIdx[Top.id]
      BY <2>1, <2>4, <1>1 DEF Order, Top
    <3>2. g \in Visited /\ discIdx[g] \in Nat
      BY <1>1, <2>1 DEF Types
    <3> QED BY <3>1, <3>2, <2>2
  <2> QED BY <2>2, <2>3, <2>4
<1> QED BY <1>1, <1>2, <1>3

\* Every node reaches itself, and reaching is transitive.
LEMMA ReachesFacts ==
    ASSUME Types
    PROVE  /\ \A v \in origin.nodes : Reaches(v, v)
           /\ \A v \in origin.nodes : \A w \in Adjacent(v) : Reaches(v, w)
           /\ \A v, w, x \in origin.nodes : Reaches(v, w) /\ Reaches(w, x) => Reaches(v, x)
           /\ \A v, w : Reaches(v, w) => w \in origin.nodes
<1>1. \A v \in origin.nodes : Reaches(v, v)
  BY ReachClosed DEF Reaches
<1>2. ASSUME NEW v \in origin.nodes, NEW w \in Adjacent(v) PROVE Reaches(v, w)
  BY ReachClosed DEF Reaches, Closed, Adjacent
<1>3. ASSUME NEW v \in origin.nodes, NEW w \in origin.nodes, NEW x \in origin.nodes,
             Reaches(v, w), Reaches(w, x)
      PROVE  Reaches(v, x)
  BY <1>3, ReachTransitive DEF Reaches
<1>4. \A v, w : Reaches(v, w) => w \in origin.nodes
  BY DEF Reaches, ReachOf
<1> QED BY <1>1, <1>2, <1>3, <1>4

-----------------------------------------------------------------------------
\* The search enters the new node n.  `rest` is the stack of cursors below it,
\* whose top has n left no more.
Enters(n, rest) ==
    /\ n \in origin.nodes \ Visited
    /\ rest \in Seq([id : Visited, branches : SUBSET origin.nodes])
    /\ DOMAIN rest = DOMAIN dfsStack
    /\ \A i \in DOMAIN rest : /\ rest[i].id = dfsStack[i].id
                              /\ rest[i].branches \subseteq dfsStack[i].branches
                              /\ dfsStack[i].branches \subseteq rest[i].branches \cup {n}
    /\ dfsStack # << >> => n \in Adjacent(Top.id)
    /\ dfsStack' = Append(rest, Cursor(n))
    /\ tarjanPush(n)
    /\ componentGraph = NotBuilt
    /\ UNCHANGED <<origin, components, nodeToComp, componentGraph>>

\* What the push does to the sets and functions the invariant speaks of.
LEMMA EntersFacts ==
    ASSUME TarjanInv, NEW n, NEW rest, Enters(n, rest)
    PROVE  /\ Visited' = Visited \cup {n} /\ OnStack' = OnStack \cup {n}
           /\ Path' = Path \cup {n}
           /\ index' = index + 1
           /\ index \in Nat
           /\ \A v \in Visited : /\ discIdx'[v] = discIdx[v] /\ lowLink'[v] = lowLink[v]
                                 /\ discIdx[v] \in Nat /\ lowLink[v] \in Nat
                                 /\ discIdx[v] < index
           /\ discIdx'[n] = index /\ lowLink'[n] = index
           /\ \A v \in Visited : Done(v)' \subseteq Done(v) \cup {n}
           /\ Done(n)' = {}
           /\ OnStack \subseteq Visited /\ Path \subseteq OnStack
           /\ n \notin Visited /\ n \in origin.nodes /\ Visited \subseteq origin.nodes
<1> USE DEF TarjanInv
<1> DEFINE C == [id : Visited, branches : SUBSET origin.nodes]
<1>1. /\ dfsStack \in Seq(C) /\ rest \in Seq(C) /\ stack \in Seq(Visited)
      /\ discIdx \in [Visited -> Nat] /\ lowLink \in [Visited -> Nat]
      /\ n \notin Visited /\ n \in origin.nodes /\ Visited \subseteq origin.nodes
      /\ index \in Nat /\ Path \subseteq OnStack /\ origin' = origin
  BY DEF Types, Order, Enters
<1>2. /\ discIdx' = With(discIdx, n, index) /\ lowLink' = With(lowLink, n, index)
      /\ index' = index + 1 /\ stack' = Append(stack, n)
  BY DEF Enters, tarjanPush
<1>3. /\ Visited' = Visited \cup {n}
      /\ discIdx'[n] = index
      /\ \A v \in Visited : discIdx'[v] = discIdx[v]
  BY <1>1, <1>2 DEF With, Visited
<1>4. /\ lowLink'[n] = index
      /\ \A v \in Visited : lowLink'[v] = lowLink[v]
  BY <1>1, <1>2 DEF With
<1>5. /\ index' = index + 1
      /\ index \in Nat
  BY <1>1, <1>2
<1>6. OnStack' = OnStack \cup {n} /\ OnStack \subseteq Visited
  <2>1. /\ DOMAIN stack' = DOMAIN stack \cup {Len(stack) + 1}
        /\ \A i \in DOMAIN stack : stack'[i] = stack[i]
        /\ stack'[Len(stack) + 1] = n
    BY <1>1, <1>2, SMTT(30)
  <2> QED BY <2>1, <1>1 DEF OnStack, Range
<1> HIDE DEF C
<1>7. /\ DOMAIN dfsStack' = DOMAIN dfsStack \cup {Len(rest) + 1}
      /\ \A i \in DOMAIN dfsStack : dfsStack'[i] = rest[i]
      /\ dfsStack'[Len(rest) + 1] = Cursor(n)
      /\ Len(rest) + 1 \notin DOMAIN dfsStack
  BY <1>1, SMTT(30) DEF Enters
<1>8. \A i \in DOMAIN dfsStack : /\ dfsStack'[i].id = dfsStack[i].id
                                 /\ dfsStack[i].branches \subseteq dfsStack'[i].branches \cup {n}
  BY <1>7 DEF Enters
<1>9. /\ dfsStack'[Len(rest) + 1].id = n
      /\ dfsStack'[Len(rest) + 1].branches = Adjacent(n)
  BY <1>7 DEF Cursor, Adjacent
<1>10. Path' = Path \cup {n}
  BY <1>7, <1>8, <1>9 DEF Path
<1>11. \A v : Adjacent(v)' = Adjacent(v)
  BY <1>1 DEF Adjacent, AdjacentNodes, Arc
<1>12. \A v \in Visited : Done(v)' \subseteq Done(v) \cup {n}
  BY <1>7, <1>8, <1>11 DEF Done
<1>13. Done(n)' = {}
  BY <1>7, <1>9, <1>11 DEF Done
<1>14. \A v \in Visited : /\ discIdx[v] \in Nat /\ lowLink[v] \in Nat
                          /\ discIdx[v] < index
  BY <1>1 DEF Order
<1> QED BY <1>1, <1>3, <1>4, <1>5, <1>6, <1>10, <1>12, <1>13, <1>14

\* A step that leaves the digraph alone leaves reachability alone.
LEMMA SameReach ==
    ASSUME origin' = origin
    PROVE  \A v, w : Reaches(v, w)' <=> Reaches(v, w)
BY DEF Reaches, ReachOf, ClosedAround, Closed, AdjacentNodes, Arc

\* Entering a node keeps the types and the order of both stacks.
LEMMA EntersOrder ==
    ASSUME TarjanInv, NEW n, NEW rest, Enters(n, rest)
    PROVE  Types' /\ Order'
<1> DEFINE C == [id : Visited, branches : SUBSET origin.nodes]
<1> DEFINE D == [id : Visited', branches : SUBSET origin.nodes]
<1>1. Types /\ Order
  BY DEF TarjanInv
<1>2. /\ Visited' = Visited \cup {n} /\ OnStack' = OnStack \cup {n} /\ Path' = Path \cup {n}
      /\ index' = index + 1
      /\ index \in Nat
      /\ \A v \in Visited : /\ discIdx'[v] = discIdx[v] /\ discIdx[v] \in Nat
                            /\ discIdx[v] < index
      /\ discIdx'[n] = index /\ Path \subseteq OnStack
      /\ n \notin Visited /\ n \in origin.nodes /\ Visited \subseteq origin.nodes
  BY EntersFacts
<1>3. /\ dfsStack \in Seq(C) /\ rest \in Seq(C) /\ stack \in Seq(Visited)
      /\ origin' = origin /\ DOMAIN rest = DOMAIN dfsStack
      /\ dfsStack' = Append(rest, Cursor(n)) /\ stack' = Append(stack, n)
      /\ \A i \in DOMAIN rest : rest[i].id = dfsStack[i].id
  BY <1>1 DEF Types, Enters, tarjanPush
<1>4. /\ discIdx' \in [Visited' -> Nat] /\ lowLink' \in [Visited' -> Nat]
  <2>1. /\ discIdx' = With(discIdx, n, index)
        /\ lowLink' = With(lowLink, n, index)
        /\ discIdx \in [Visited -> Nat] /\ lowLink \in [Visited -> Nat]
    BY <1>1 DEF Types, Enters, tarjanPush
  <2> QED BY <2>1, <1>2 DEF With
<1>5. dfsStack' \in Seq(D)
  <2>1. C \subseteq D
    BY <1>2
  <2>2. Cursor(n) \in D
    BY <1>2 DEF Cursor, AdjacentNodes
  <2> HIDE DEF C, D
  <2>3. rest \in Seq(D)
    BY <1>3, <2>1
  <2> QED BY <1>3, <2>2, <2>3
<1>6. stack' \in Seq(Visited')
  <2>1. stack \in Seq(Visited')
    BY <1>2, <1>3
  <2> QED BY <2>1, <1>2, <1>3
<1>7. Types'
  <2>1. /\ components' = components /\ nodeToComp' = nodeToComp
    BY DEF Enters
  <2> QED BY <1>1, <1>2, <1>3, <1>4, <1>5, <1>6, <2>1, SMTT(30) DEF Types, Found, IsDigraph
<1>8. \A v \in Visited' : discIdx'[v] < index'
  BY <1>2
<1>9. \A v, w \in Visited' : discIdx'[v] = discIdx'[w] => v = w
  BY <1>1, <1>2 DEF Order
<1>10. ASSUME NEW i \in DOMAIN stack', NEW j \in DOMAIN stack', i < j
       PROVE  discIdx'[stack'[i]] < discIdx'[stack'[j]]
  <2>1. /\ DOMAIN stack = 1..Len(stack) /\ DOMAIN stack' = 1..(Len(stack) + 1) /\ Len(stack) \in Nat
        /\ \A k \in DOMAIN stack : stack'[k] = stack[k] /\ stack[k] \in Visited
        /\ stack'[Len(stack) + 1] = n
    BY <1>3
  <2>2. i \in DOMAIN stack
    BY <1>10, <2>1
  <2>3. CASE j \in DOMAIN stack
    BY <2>1, <2>2, <2>3, <1>1, <1>2, <1>10 DEF Order
  <2>4. CASE j = Len(stack) + 1
    BY <2>1, <2>2, <2>4, <1>2
  <2> QED BY <2>1, <2>3, <2>4
<1> HIDE DEF C
<1>11. /\ DOMAIN dfsStack = 1..Len(dfsStack) /\ Len(rest) = Len(dfsStack) /\ Len(dfsStack) \in Nat
       /\ DOMAIN dfsStack' = 1..(Len(dfsStack) + 1)
       /\ \A k \in DOMAIN dfsStack : dfsStack'[k] = rest[k] /\ dfsStack[k] \in C
       /\ dfsStack'[Len(dfsStack) + 1] = Cursor(n)
  BY <1>3
<1>12. /\ \A k \in DOMAIN dfsStack : dfsStack'[k].id = dfsStack[k].id /\ dfsStack[k].id \in Visited
       /\ dfsStack'[Len(dfsStack) + 1].id = n
  BY <1>3, <1>11 DEF C, Cursor
<1>13. ASSUME NEW i \in DOMAIN dfsStack', NEW j \in DOMAIN dfsStack', i < j
       PROVE  discIdx'[dfsStack'[i].id] < discIdx'[dfsStack'[j].id]
  <2>2. i \in DOMAIN dfsStack
    BY <1>13, <1>11
  <2>3. CASE j \in DOMAIN dfsStack
    BY <2>2, <2>3, <1>1, <1>2, <1>12, <1>13 DEF Order
  <2>4. CASE j = Len(dfsStack) + 1
    BY <2>2, <2>4, <1>2, <1>12
  <2> QED BY <1>11, <2>3, <2>4
<1>14. dfsStack' # << >> /\ stack' # << >> /\ stack'[1] = dfsStack'[1].id
  <2>1. CASE dfsStack = << >>
    <3>1. stack = << >>
      BY <1>1, <2>1 DEF Order
    <3> QED BY <1>3, <1>11, <1>12, <2>1, <3>1
  <2>2. CASE dfsStack # << >>
    <3>1. stack # << >> /\ stack[1] = dfsStack[1].id
      BY <1>1, <2>2 DEF Order
    <3>2. 1 \in DOMAIN stack /\ 1 \in DOMAIN dfsStack
      BY <1>3, <2>2, <3>1
    <3>3. stack' # << >> /\ stack'[1] = stack[1]
      BY <1>3, <3>2
    <3>4. dfsStack' # << >> /\ dfsStack'[1].id = dfsStack[1].id
      BY <1>11, <1>12, <3>2
    <3> QED BY <3>1, <3>3, <3>4
  <2> QED BY <2>1, <2>2
<1>15. Path' \subseteq OnStack'
  BY <1>2
<1>16. ASSUME NEW i \in DOMAIN dfsStack'
       PROVE  dfsStack'[i].branches \subseteq AdjacentNodes(origin, dfsStack'[i].id, "outbound")
  <2>2. CASE i \in DOMAIN dfsStack
    <3>1. dfsStack'[i].branches \subseteq dfsStack[i].branches
      BY <1>3, <1>11, <2>2 DEF Enters
    <3>2. dfsStack[i].branches \subseteq AdjacentNodes(origin, dfsStack[i].id, "outbound")
      BY <1>1, <2>2 DEF Order
    <3> QED BY <1>12, <2>2, <3>1, <3>2
  <2>3. CASE i = Len(dfsStack) + 1
    BY <1>11, <2>3 DEF Cursor
  <2> QED BY <1>11, <2>2, <2>3
<1> QED BY <1>7, <1>8, <1>9, <1>10, <1>13, <1>14, <1>15, <1>16, <1>3, ZenonT(30) DEF Order

\* Entering a node keeps the low-links and the shape of the search tree.
LEMMA EntersTree ==
    ASSUME TarjanInv, NEW n, NEW rest, Enters(n, rest)
    PROVE  LowLinks' /\ Tree'
<1>1. /\ Visited' = Visited \cup {n} /\ OnStack' = OnStack \cup {n} /\ Path' = Path \cup {n}
      /\ index \in Nat
      /\ \A v \in Visited : /\ discIdx'[v] = discIdx[v] /\ lowLink'[v] = lowLink[v]
                            /\ discIdx[v] \in Nat /\ lowLink[v] \in Nat
                            /\ discIdx[v] < index
      /\ discIdx'[n] = index /\ lowLink'[n] = index
      /\ \A v \in Visited : Done(v)' \subseteq Done(v) \cup {n}
      /\ Done(n)' = {}
      /\ OnStack \subseteq Visited /\ Path \subseteq OnStack
      /\ n \notin Visited /\ n \in origin.nodes /\ Visited \subseteq origin.nodes
  BY EntersFacts
<1>2. \A v, w : Reaches(v, w)' <=> Reaches(v, w)
  BY SameReach DEF Enters
<1>3. Types /\ Order /\ LowLinks /\ Tree
  BY DEF TarjanInv
<1>4. Reaches(n, n)
  BY <1>1, <1>3, ReachesFacts
<1>5. LowLinks'
  <2>1. ASSUME NEW v \in OnStack
        PROVE  /\ lowLink'[v] <= discIdx'[v]
               /\ \E u \in OnStack' : discIdx'[u] = lowLink'[v] /\ Reaches(v, u)'
               /\ Done(v)' \subseteq Visited'
               /\ \A w \in Done(v)' \cap OnStack' : lowLink'[v] <= discIdx'[w]
    BY <1>1, <1>2, <1>3 DEF LowLinks
  <2>2. /\ lowLink'[n] <= discIdx'[n]
        /\ \E u \in OnStack' : discIdx'[u] = lowLink'[n] /\ Reaches(n, u)'
        /\ Done(n)' \subseteq Visited'
        /\ \A w \in Done(n)' \cap OnStack' : lowLink'[n] <= discIdx'[w]
    BY <1>1, <1>2, <1>4
  <2> QED BY <1>1, <2>1, <2>2 DEF LowLinks
<1>6. ASSUME NEW g \in Path PROVE Reaches(g, n)
  <2>1. dfsStack # << >>
    BY <1>3 DEF Path
  <2>2. Top.id \in OnStack /\ discIdx[g] <= discIdx[Top.id] /\ n \in Adjacent(Top.id)
    BY <1>3, <2>1, TopFacts DEF Enters
  <2>3. Reaches(g, Top.id)
    BY <1>3, <2>2 DEF Tree
  <2>4. g \in origin.nodes /\ Top.id \in origin.nodes
    BY <1>1, <2>2
  <2> QED BY <1>1, <1>3, <2>2, <2>3, <2>4, ReachesFacts
<1>7. ASSUME NEW g \in Path', NEW w \in OnStack', discIdx'[g] <= discIdx'[w]
      PROVE  Reaches(g, w)'
  <2>1. CASE w = n
    BY <2>1, <1>1, <1>2, <1>4, <1>6
  <2>2. CASE w # n
    <3>1. w \in OnStack /\ g # n
      BY <2>2, <1>1, <1>7
    <3> QED BY <3>1, <1>1, <1>2, <1>3, <1>7 DEF Tree
  <2> QED BY <2>1, <2>2
<1>8. ASSUME NEW w \in OnStack'
      PROVE  \E g \in Path' : discIdx'[g] <= discIdx'[w] /\ Reaches(w, g)'
  <2>1. CASE w = n
    BY <2>1, <1>1, <1>2, <1>4
  <2>2. CASE w \in OnStack
    <3>1. PICK g \in Path : discIdx[g] <= discIdx[w] /\ Reaches(w, g)
      BY <2>2, <1>3 DEF Tree
    <3> QED BY <3>1, <2>2, <1>1, <1>2
  <2> QED BY <2>1, <2>2, <1>1
<1>9. ASSUME NEW g \in Path', NEW u \in OnStack', discIdx'[g] <= discIdx'[u],
             \A h \in Path' : discIdx'[h] <= discIdx'[u] => discIdx'[h] <= discIdx'[g]
      PROVE  lowLink'[g] <= lowLink'[u]
  <2>1. CASE u = n
    <3>1. g = n
      BY <2>1, <1>1, <1>9
    <3> QED BY <2>1, <3>1, <1>1
  <2>2. CASE u # n
    <3>1. u \in OnStack /\ g \in Path
      BY <2>2, <1>1, <1>9
    <3>2. \A h \in Path : discIdx[h] <= discIdx[u] => discIdx[h] <= discIdx[g]
      BY <3>1, <1>1, <1>9
    <3>3. discIdx[g] <= discIdx[u]
      BY <3>1, <1>1, <1>9
    <3>4. lowLink[g] <= lowLink[u]
      BY <3>1, <3>2, <3>3, <1>3 DEF Tree
    <3> QED BY <3>1, <3>4, <1>1
  <2> QED BY <2>1, <2>2
<1> QED BY <1>5, <1>7, <1>8, <1>9 DEF Tree

\* Entering a node finds no component.
LEMMA EntersFound ==
    ASSUME TarjanInv, NEW n, NEW rest, Enters(n, rest)
    PROVE  FoundInv'
<1>1. FoundInv /\ componentGraph = NotBuilt
  BY DEF TarjanInv, Enters
<1>2. /\ Visited' = Visited \cup {n} /\ OnStack' = OnStack \cup {n} /\ n \notin Visited
  BY EntersFacts
<1>3. /\ origin' = origin /\ components' = components /\ nodeToComp' = nodeToComp
      /\ componentGraph' = NotBuilt /\ Found' = Found
  BY DEF Enters, Found
<1>4. \A v, w : Reaches(v, w)' <=> Reaches(v, w)
  BY <1>3, SameReach
<1>5. n \notin Found
  BY <1>1, <1>2 DEF FoundInv
<1>6. Closed(origin, Found, "outbound")'
  BY <1>1, <1>3 DEF FoundInv
<1>7. OnStack' \cap Found' = {} /\ Visited' = OnStack' \cup Found'
  BY <1>1, <1>2, <1>3, <1>5 DEF FoundInv
<1> QED BY <1>1, <1>3, <1>4, <1>6, <1>7 DEF FoundInv

\* A node that is entered keeps the invariant.
LEMMA EntersKeeps ==
    ASSUME TarjanInv, NEW n, NEW rest, Enters(n, rest)
    PROVE  TarjanInv'
BY EntersOrder, EntersTree, EntersFound DEF TarjanInv

\* A new start enters its node over an empty stack of cursors.
LEMMA StartKeeps ==
    ASSUME TarjanInv, NEW v, Start(v)
    PROVE  TarjanInv'
<1>1. dfsStack = << >> /\ dfsStack' = Append(dfsStack, Cursor(v))
  BY DEF Start
<1>2. dfsStack \in Seq([id : Visited, branches : SUBSET origin.nodes])
  BY DEF TarjanInv, Types
<1>3. Enters(v, dfsStack)
  BY <1>1, <1>2 DEF Start, Enters
<1> QED BY <1>3, EntersKeeps

\* The stack of cursors once n is taken from the branches of its top.
LEMMA RestFacts ==
    ASSUME TarjanInv, NEW n, Branch(n)
    PROVE  LET rest == [dfsStack EXCEPT ![Len(dfsStack)].branches = @ \ {n}]
           IN /\ rest \in Seq([id : Visited, branches : SUBSET origin.nodes])
              /\ DOMAIN rest = DOMAIN dfsStack /\ Len(rest) = Len(dfsStack)
              /\ \A i \in DOMAIN rest : rest[i].id = dfsStack[i].id
              /\ \A i \in DOMAIN rest : i # Len(dfsStack) => rest[i] = dfsStack[i]
              /\ rest[Len(dfsStack)].branches = Top.branches \ {n}
              /\ \A i \in DOMAIN rest : /\ rest[i].branches \subseteq dfsStack[i].branches
                                        /\ dfsStack[i].branches \subseteq rest[i].branches \cup {n}
<1> DEFINE C == [id : Visited, branches : SUBSET origin.nodes]
<1> DEFINE k == Len(dfsStack)
<1> DEFINE top == [dfsStack[k] EXCEPT !.branches = @ \ {n}]
<1> DEFINE rest == [dfsStack EXCEPT ![k].branches = @ \ {n}]
<1>1. dfsStack \in Seq(C) /\ dfsStack # << >>
  BY DEF TarjanInv, Types, Branch
<1>2. Top \in C /\ Top = dfsStack[k] /\ k \in DOMAIN dfsStack
  BY TopFacts, <1>1 DEF TarjanInv, Top
<1>3. top \in C /\ top.id = dfsStack[k].id /\ top.branches = Top.branches \ {n}
  BY <1>2
<1>4. rest = [dfsStack EXCEPT ![k] = top]
  OBVIOUS
<1> HIDE DEF C, rest, top
<1>5. /\ rest \in Seq(C) /\ DOMAIN rest = DOMAIN dfsStack /\ Len(rest) = Len(dfsStack)
      /\ rest[k] = top /\ \A i \in DOMAIN rest : i # k => rest[i] = dfsStack[i]
  BY <1>1, <1>2, <1>3, <1>4
<1>6. \A i \in DOMAIN rest : rest[i].id = dfsStack[i].id
  BY <1>3, <1>5
<1>7. \A i \in DOMAIN rest : /\ rest[i].branches \subseteq dfsStack[i].branches
                             /\ dfsStack[i].branches \subseteq rest[i].branches \cup {n}
  BY <1>2, <1>3, <1>5
<1> QED BY <1>3, <1>5, <1>6, <1>7 DEF C, rest

\* The search looks at a neighbour it has visited before.  `rest` is the stack
\* of cursors without it.
Looks(n, rest) ==
    /\ dfsStack # << >> /\ n \in Visited
    /\ rest \in Seq([id : Visited, branches : SUBSET origin.nodes])
    /\ DOMAIN rest = DOMAIN dfsStack
    /\ \A i \in DOMAIN rest : /\ rest[i].id = dfsStack[i].id
                              /\ rest[i].branches \subseteq dfsStack[i].branches
                              /\ dfsStack[i].branches \subseteq rest[i].branches \cup {n}
    /\ \A i \in DOMAIN rest : i # Len(dfsStack) => rest[i] = dfsStack[i]
    /\ n \in Adjacent(Top.id)
    /\ dfsStack' = rest
    /\ lowLink' = IF n \in OnStack /\ lowLink[Top.id] > discIdx[n]
                  THEN [lowLink EXCEPT ![Top.id] = discIdx[n]]
                  ELSE lowLink
    /\ UNCHANGED <<index, discIdx, stack, origin, components, nodeToComp, componentGraph>>

\* Looking at a neighbour that was visited leaves both stacks in order.
LEMMA LooksOrder ==
    ASSUME TarjanInv, NEW n, NEW rest, Looks(n, rest)
    PROVE  Types' /\ Order' /\ Path' = Path /\ OnStack' = OnStack /\ Visited' = Visited
<1>1. Types /\ Order
  BY DEF TarjanInv
<1>2. /\ UNCHANGED <<index, discIdx, stack, origin, components, nodeToComp>>
      /\ dfsStack' = rest /\ DOMAIN dfsStack' = DOMAIN dfsStack
      /\ \A i \in DOMAIN dfsStack : /\ dfsStack'[i].id = dfsStack[i].id
                                    /\ dfsStack'[i].branches \subseteq dfsStack[i].branches
      /\ dfsStack # << >>
  BY DEF Looks
<1>3. Path' = Path /\ OnStack' = OnStack /\ Visited' = Visited /\ Found' = Found
  BY <1>2 DEF Path, OnStack, Visited, Found
<1>4. lowLink' \in [Visited -> Nat]
  <2>1. lowLink \in [Visited -> Nat] /\ discIdx[n] \in Nat
    BY <1>1 DEF Types, Looks
  <2> QED BY <2>1, ZenonT(30) DEF Looks
<1>5. Types'
  BY <1>1, <1>2, <1>3, <1>4, ZenonT(30) DEF Types, Looks
<1>6. dfsStack' # << >> /\ dfsStack'[1].id = dfsStack[1].id
  <2> DEFINE C == [id : Visited, branches : SUBSET origin.nodes]
  <2>1. dfsStack \in Seq(C) /\ rest \in Seq(C)
    BY <1>1 DEF Types, Looks
  <2> HIDE DEF C
  <2>2. 1 \in DOMAIN dfsStack
    BY <1>2, <2>1
  <2> QED BY <1>2, <2>1, <2>2
<1>7. \A i \in DOMAIN dfsStack' :
          dfsStack'[i].branches \subseteq AdjacentNodes(origin, dfsStack'[i].id, "outbound")
  BY <1>1, <1>2 DEF Order
<1>8. Order'
  BY <1>1, <1>2, <1>3, <1>6, <1>7 DEF Order
<1> QED BY <1>3, <1>5, <1>8

\* The low-link of a node that looks at one on the stack stays what it stands for.
LEMMA LooksTree ==
    ASSUME TarjanInv, NEW n, NEW rest, Looks(n, rest)
    PROVE  LowLinks' /\ Tree'
<1>0. PICK t : t = Top.id
  OBVIOUS
<1>1. Types /\ Order /\ LowLinks /\ Tree /\ dfsStack # << >> /\ n \in Visited
  BY DEF TarjanInv, Looks
<1>2. /\ Path' = Path /\ OnStack' = OnStack /\ Visited' = Visited
      /\ Visited \subseteq origin.nodes /\ Path \subseteq OnStack /\ OnStack \subseteq Visited
  <2>1. OnStack \subseteq Visited
    BY <1>1 DEF Types, OnStack, Range
  <2> QED BY <1>1, <2>1, LooksOrder, ZenonT(30) DEF Types, Order
<1>3. /\ t \in Path /\ t \in OnStack /\ \A g \in Path : discIdx[g] <= discIdx[t]
  BY <1>0, <1>1, TopFacts
<1>4. \A v, w : Reaches(v, w)' <=> Reaches(v, w)
  BY SameReach DEF Looks
<1>5. \A v \in Visited : discIdx[v] \in Nat /\ lowLink[v] \in Nat
  BY <1>1 DEF Types
<1>6. /\ \A v \in Visited : v # t => lowLink'[v] = lowLink[v]
      /\ lowLink'[t] \in Nat /\ lowLink'[t] <= lowLink[t]
      /\ n \in OnStack => lowLink'[t] <= discIdx[n]
      /\ lowLink'[t] = lowLink[t] \/ (n \in OnStack /\ lowLink'[t] = discIdx[n])
  <2>1. lowLink \in [Visited -> Nat] /\ t \in Visited
    BY <1>1, <1>2, <1>3 DEF Types
  <2>2. lowLink' = IF n \in OnStack /\ lowLink[t] > discIdx[n]
                   THEN [lowLink EXCEPT ![t] = discIdx[n]] ELSE lowLink
    BY <1>0 DEF Looks
  <2> QED BY <1>5, <1>1, <2>1, <2>2
<1>7. discIdx' = discIdx
  BY DEF Looks
<1>8. /\ Done(t)' \subseteq Done(t) \cup {n}
      /\ \A v : v # t => Done(v)' = Done(v)
  <2>1. \A v : Adjacent(v)' = Adjacent(v)
    BY DEF Adjacent, AdjacentNodes, Arc, Looks
  <2>2. /\ DOMAIN dfsStack' = DOMAIN dfsStack
        /\ \A i \in DOMAIN dfsStack : /\ dfsStack'[i].id = dfsStack[i].id
                                      /\ dfsStack[i].branches \subseteq dfsStack'[i].branches \cup {n}
        /\ \A i \in DOMAIN dfsStack : i # Len(dfsStack) => dfsStack'[i] = dfsStack[i]
        /\ dfsStack[Len(dfsStack)].id = t
    BY <1>0 DEF Looks, Top
  <2>3. Done(t)' \subseteq Done(t) \cup {n}
    BY <2>1, <2>2 DEF Done
  <2>4. ASSUME NEW v, v # t PROVE Done(v)' = Done(v)
    BY <2>1, <2>2, <2>4 DEF Done
  <2> QED BY <2>3, <2>4
<1>9. ASSUME NEW v \in OnStack
      PROVE  /\ lowLink'[v] <= discIdx[v]
             /\ \E u \in OnStack : discIdx[u] = lowLink'[v] /\ Reaches(v, u)
             /\ Done(v)' \subseteq Visited
             /\ \A w \in Done(v)' \cap OnStack : lowLink'[v] <= discIdx[w]
  <2>1. /\ lowLink[v] <= discIdx[v]
        /\ \E u \in OnStack : discIdx[u] = lowLink[v] /\ Reaches(v, u)
        /\ Done(v) \subseteq Visited
        /\ \A w \in Done(v) \cap OnStack : lowLink[v] <= discIdx[w]
    BY <1>1 DEF LowLinks
  <2>2. v \in Visited
    BY <1>2
  <2>3. CASE v # t
    BY <1>6, <1>8, <2>1, <2>2, <2>3
  <2>4. CASE v = t
    <3>1. Reaches(t, n)
      <4>1. n \in Adjacent(t) /\ t \in origin.nodes
        BY <1>0, <1>2, <1>3 DEF Looks
      <4> QED BY <1>1, <4>1, ReachesFacts
    <3>2. lowLink'[t] <= discIdx[t]
      BY <1>2, <1>3, <1>5, <1>6, <2>1, <2>4
    <3>3. \E u \in OnStack : discIdx[u] = lowLink'[t] /\ Reaches(t, u)
      BY <1>6, <2>1, <2>4, <3>1
    <3>4. Done(t)' \subseteq Visited
      BY <1>1, <1>8, <2>1, <2>4
    <3>5. ASSUME NEW w \in Done(t)' \cap OnStack PROVE lowLink'[t] <= discIdx[w]
      <4>1. CASE w = n
        BY <1>6, <4>1
      <4>2. CASE w # n
        <5>1. lowLink[t] <= discIdx[w]
          BY <1>8, <2>1, <2>4, <4>2
        <5> QED BY <5>1, <1>2, <1>3, <1>5, <1>6
      <4> QED BY <4>1, <4>2
    <3> QED BY <2>4, <3>2, <3>3, <3>4, <3>5
  <2> QED BY <2>3, <2>4
<1>10. LowLinks'
  BY <1>2, <1>4, <1>7, <1>9 DEF LowLinks
<1>11. ASSUME NEW g \in Path, NEW u \in OnStack, discIdx[g] <= discIdx[u],
              \A h \in Path : discIdx[h] <= discIdx[u] => discIdx[h] <= discIdx[g]
       PROVE  lowLink'[g] <= lowLink'[u]
  <2>1. lowLink[g] <= lowLink[u]
    BY <1>1, <1>11 DEF Tree
  <2>2. g \in Visited /\ u \in Visited
    BY <1>2
  <2>3. CASE u = t
    <3>1. discIdx[g] = discIdx[t]
      BY <1>2, <1>3, <1>5, <1>11, <2>3
    <3>2. g = t
      BY <1>1, <1>2, <1>3, <3>1 DEF Order
    <3> QED BY <2>3, <3>2, <1>6
  <2>4. CASE u # t
    BY <2>1, <2>2, <2>4, <1>2, <1>3, <1>5, <1>6
  <2> QED BY <2>3, <2>4
<1>12. Tree'
  BY <1>1, <1>2, <1>4, <1>7, <1>11 DEF Tree
<1> QED BY <1>10, <1>12

\* A step on the branches of the top either looks at a visited neighbour or
\* enters a new one.
LEMMA BranchKeeps ==
    ASSUME TarjanInv, NEW n, Branch(n)
    PROVE  TarjanInv'
<1> DEFINE rest == [dfsStack EXCEPT ![Len(dfsStack)].branches = @ \ {n}]
<1>1. /\ rest \in Seq([id : Visited, branches : SUBSET origin.nodes])
      /\ DOMAIN rest = DOMAIN dfsStack
      /\ \A i \in DOMAIN rest : rest[i].id = dfsStack[i].id
      /\ \A i \in DOMAIN rest : i # Len(dfsStack) => rest[i] = dfsStack[i]
      /\ \A i \in DOMAIN rest : /\ rest[i].branches \subseteq dfsStack[i].branches
                                /\ dfsStack[i].branches \subseteq rest[i].branches \cup {n}
  BY RestFacts, ZenonT(30)
<1>2. dfsStack # << >> /\ n \in Adjacent(Top.id) /\ n \in origin.nodes
  <2>1. dfsStack # << >> /\ n \in Top.branches
    BY DEF Branch
  <2>2. Len(dfsStack) \in DOMAIN dfsStack /\ Top.branches \subseteq origin.nodes
    BY <2>1, TopFacts DEF TarjanInv
  <2>3. Top.branches \subseteq AdjacentNodes(origin, Top.id, "outbound")
    BY <2>2 DEF TarjanInv, Order, Top
  <2> QED BY <2>1, <2>2, <2>3 DEF Adjacent
<1>3. UNCHANGED <<origin, components, nodeToComp, componentGraph>>
  BY DEF Branch
<1>4. CASE n \notin Visited
  <2>1. /\ dfsStack' = Append(rest, Cursor(n)) /\ tarjanPush(n)
    BY <1>4, ZenonT(30) DEF Branch
  <2>2. componentGraph = NotBuilt
    BY <1>2 DEF TarjanInv, FoundInv
  <2> HIDE DEF rest
  <2>3. Enters(n, rest)
    BY <1>1, <1>2, <1>3, <1>4, <2>1, <2>2 DEF Enters
  <2> QED BY <2>3, EntersKeeps
<1>5. CASE n \in Visited
  <2>1. /\ dfsStack' = rest
        /\ lowLink' = IF n \in OnStack /\ lowLink[Top.id] > discIdx[n]
                      THEN [lowLink EXCEPT ![Top.id] = discIdx[n]]
                      ELSE lowLink
        /\ UNCHANGED <<index, discIdx, stack>>
    BY <1>5 DEF Branch, BackEdge
  <2> HIDE DEF rest
  <2>2. Looks(n, rest)
    BY <1>1, <1>2, <1>3, <1>5, <2>1 DEF Looks
  <2>3. Types' /\ Order' /\ OnStack' = OnStack /\ Visited' = Visited
    BY <2>2, LooksOrder
  <2>4. LowLinks' /\ Tree'
    BY <2>2, LooksTree
  <2>5. FoundInv'
    <3>1. FoundInv /\ componentGraph = NotBuilt
      BY <1>2 DEF TarjanInv, FoundInv
    <3>2. \A v, w : Reaches(v, w)' <=> Reaches(v, w)
      BY <1>3, SameReach
    <3>3. Closed(origin, Found, "outbound")' /\ Found' = Found
      BY <1>3, <3>1 DEF FoundInv, Found
    <3> QED BY <1>3, <2>3, <3>1, <3>2, <3>3 DEF FoundInv
  <2> QED BY <2>3, <2>4, <2>5 DEF TarjanInv
<1> QED BY <1>4, <1>5

-----------------------------------------------------------------------------
\* What is common to every step that pops the cursor of t: the path loses t,
\* and what was looked at stays.
LEMMA FinishFacts ==
    ASSUME TarjanInv, Finish, NEW t, t = Top.id
    PROVE  /\ Path' = Path \ {t} /\ t \in Path /\ t \in OnStack
           /\ \A g \in Path : discIdx[g] <= discIdx[t]
           /\ \A g \in Path \ {t} : discIdx[g] < discIdx[t]
           /\ \A v : Done(v)' = Done(v)
           /\ Done(t) = Adjacent(t)
           /\ Len(dfsStack) \in Nat \ {0}
           /\ dfsStack' \in Seq([id : Visited, branches : SUBSET origin.nodes])
           /\ Len(dfsStack') = Len(dfsStack) - 1
           /\ \A i \in DOMAIN dfsStack' : i \in DOMAIN dfsStack /\ dfsStack'[i] = dfsStack[i]
<1> DEFINE C == [id : Visited, branches : SUBSET origin.nodes]
<1>1. Types /\ Order /\ dfsStack # << >> /\ Top.branches = {}
  BY DEF TarjanInv, Finish
<1>2. /\ Len(dfsStack) \in DOMAIN dfsStack /\ Len(dfsStack) \in Nat \ {0} /\ t \in Path
      /\ t \in OnStack /\ \A g \in Path : discIdx[g] <= discIdx[t]
  BY <1>1, TopFacts
<1>3. dfsStack \in Seq(C)
  BY <1>1 DEF Types
<1> HIDE DEF C
<1>4. /\ dfsStack' \in Seq(C) /\ Len(dfsStack') = Len(dfsStack) - 1
      /\ DOMAIN dfsStack = 1..Len(dfsStack) /\ DOMAIN dfsStack' = 1..(Len(dfsStack) - 1)
      /\ \A i \in DOMAIN dfsStack' : i \in DOMAIN dfsStack /\ dfsStack'[i] = dfsStack[i]
  <2>1. dfsStack' = SubSeq(dfsStack, 1, Len(dfsStack) - 1)
    BY DEF Finish
  <2>2. /\ dfsStack' \in Seq(C) /\ Len(dfsStack') = Len(dfsStack) - 1
        /\ \A i \in 1..(Len(dfsStack) - 1) : dfsStack'[i] = dfsStack[i]
    BY <1>2, <1>3, <2>1, FrontFacts
  <2> QED BY <1>2, <1>3, <2>2
<1>5. \A i \in DOMAIN dfsStack' : dfsStack[i].id # t
  <2>1. ASSUME NEW i \in DOMAIN dfsStack', dfsStack[i].id = t PROVE FALSE
    <3>1. discIdx[dfsStack[i].id] < discIdx[t] /\ i \in DOMAIN dfsStack
      BY <1>1, <1>2, <1>4 DEF Order, Top
    <3>2. dfsStack[i].id \in Visited
      BY <1>1, <3>1, CursorTypes
    <3>3. discIdx[t] \in Nat
      BY <2>1, <3>2, <1>1 DEF Types
    <3> QED BY <2>1, <3>1, <3>3
  <2> QED BY <2>1
<1>6. Path' = Path \ {t}
  <2>1. \A i \in DOMAIN dfsStack : i \notin DOMAIN dfsStack' => dfsStack[i].id = t
    BY <1>2, <1>4 DEF Top
  <2> QED BY <1>4, <1>5, <2>1 DEF Path
<1>7. \A g \in Path \ {t} : discIdx[g] < discIdx[t]
  <2>1. Path \subseteq Visited
    BY <1>1, CursorTypes DEF Path
  <2> QED BY <1>1, <1>2, <2>1, SMTT(30) DEF Order, Types
<1>8. \A v : Adjacent(v)' = Adjacent(v)
  BY DEF Adjacent, AdjacentNodes, Arc, Finish
<1>9. \A i \in DOMAIN dfsStack : i \notin DOMAIN dfsStack' => dfsStack[i].branches = {}
  BY <1>1, <1>2, <1>4 DEF Top
<1>10. \A v : Done(v)' = Done(v)
  BY <1>4, <1>8, <1>9 DEF Done
<1>11. Done(t) = Adjacent(t)
  BY <1>4, <1>5, <1>9 DEF Done
<1> QED BY <1>2, <1>4, <1>6, <1>7, <1>10, <1>11 DEF C

\* The parent of t on the path, if t has one.
LEMMA ParentFacts ==
    ASSUME TarjanInv, Finish, NEW t, t = Top.id, Len(dfsStack) # 1
    PROVE  LET p == dfsStack[Len(dfsStack) - 1].id
           IN /\ p \in Path \ {t} /\ \A g \in Path \ {t} : discIdx[g] <= discIdx[p]
              /\ p = dfsStack'[Len(dfsStack')].id
<1> DEFINE C == [id : Visited, branches : SUBSET origin.nodes]
<1> DEFINE k == Len(dfsStack) - 1
<1>1. Types /\ Order
  BY DEF TarjanInv
<1>2. /\ Path' = Path \ {t} /\ Len(dfsStack) \in Nat \ {0}
      /\ dfsStack' \in Seq(C) /\ Len(dfsStack') = Len(dfsStack) - 1
      /\ \A i \in DOMAIN dfsStack' : i \in DOMAIN dfsStack /\ dfsStack'[i] = dfsStack[i]
  BY FinishFacts, ZenonT(30)
<1> HIDE DEF C
<1>3. k \in DOMAIN dfsStack' /\ DOMAIN dfsStack' = 1..k /\ k \in Nat
  BY <1>2
<1>4. dfsStack[k].id \in Path \ {t}
  BY <1>2, <1>3 DEF Path
<1>5. ASSUME NEW g \in Path \ {t} PROVE discIdx[g] <= discIdx[dfsStack[k].id]
  <2>1. PICK i \in DOMAIN dfsStack' : g = dfsStack'[i].id
    BY <1>2, ZenonT(30) DEF Path
  <2>2. i \in DOMAIN dfsStack /\ k \in DOMAIN dfsStack /\ g = dfsStack[i].id /\ i \in 1..k
    BY <1>2, <1>3, <2>1
  <2>3. \A j \in DOMAIN dfsStack : dfsStack[j].id \in Visited
    BY <1>1, CursorTypes
  <2>4. discIdx[dfsStack[k].id] \in Nat /\ discIdx[dfsStack[i].id] \in Nat
    BY <1>1, <2>2, <2>3 DEF Types
  <2>5. CASE i = k
    BY <2>2, <2>4, <2>5
  <2>6. CASE i < k
    <3>1. discIdx[dfsStack[i].id] < discIdx[dfsStack[k].id]
      BY <1>1, <2>2, <2>6 DEF Order
    <3> QED BY <2>2, <2>4, <3>1
  <2> QED BY <2>2, <2>5, <2>6, <1>3
<1> QED BY <1>2, <1>3, <1>4, <1>5

\* Both stacks after a cursor is popped, when Tarjan's stack stays: the cursor
\* was not the last one.
LEMMA StayFacts ==
    ASSUME TarjanInv, Finish, NEW t, t = Top.id, lowLink[t] # discIdx[t]
    PROVE  /\ Len(dfsStack) # 1 /\ lowLink[t] < discIdx[t]
           /\ \E u \in OnStack : discIdx[u] = lowLink[t] /\ Reaches(t, u)
<1>1. Types /\ Order /\ LowLinks
  BY DEF TarjanInv
<1>2. t \in OnStack /\ Len(dfsStack) \in Nat \ {0}
  BY FinishFacts
<1>3. OnStack \subseteq Visited /\ \A v \in Visited : discIdx[v] \in Nat /\ lowLink[v] \in Nat
  BY <1>1 DEF Types, OnStack, Range
<1>4. lowLink[t] < discIdx[t]
  <2>1. lowLink[t] <= discIdx[t]
    BY <1>1, <1>2 DEF LowLinks
  <2> QED BY <2>1, <1>2, <1>3
<1>5. PICK u \in OnStack : discIdx[u] = lowLink[t] /\ Reaches(t, u)
  BY <1>1, <1>2 DEF LowLinks
<1>6. ASSUME Len(dfsStack) = 1 PROVE FALSE
  <2>1. stack # << >> /\ stack[1] = t
    <3>1. dfsStack # << >>
      BY DEF Finish
    <3>2. stack # << >> /\ stack[1] = dfsStack[1].id
      BY <1>1, <3>1 DEF Order
    <3> QED BY <1>6, <3>2 DEF Top
  <2>2. PICK i \in DOMAIN stack : u = stack[i]
    BY DEF OnStack, Range
  <2>3. 1 \in DOMAIN stack /\ i \in Nat /\ i >= 1
    BY <1>1, <2>2 DEF Types
  <2>4. i # 1
    BY <1>4, <1>5, <2>1, <2>2, <1>2, <1>3
  <2>5. discIdx[t] < discIdx[u]
    BY <1>1, <2>1, <2>2, <2>3, <2>4 DEF Order
  <2> QED BY <1>2, <1>3, <1>4, <1>5, <2>5
<1> QED BY <1>4, <1>5, <1>6

\* A cursor is popped whose node is not a root: its low-link goes to its parent.
LEMMA StayOrder ==
    ASSUME TarjanInv, Finish, NEW t, t = Top.id, lowLink[t] # discIdx[t]
    PROVE  /\ Types' /\ Order'
           /\ UNCHANGED <<stack, components, nodeToComp, index, discIdx, origin, componentGraph>>
<1> DEFINE C == [id : Visited, branches : SUBSET origin.nodes]
<1> DEFINE p == dfsStack[Len(dfsStack) - 1].id
<1>1. Types /\ Order
  BY DEF TarjanInv
<1>2. UNCHANGED <<stack, components, nodeToComp, index, discIdx, origin, componentGraph>>
  BY DEF Finish
<1>3. /\ Path' = Path \ {t} /\ Len(dfsStack) \in Nat \ {0}
      /\ dfsStack' \in Seq(C) /\ Len(dfsStack') = Len(dfsStack) - 1
      /\ \A i \in DOMAIN dfsStack' : i \in DOMAIN dfsStack /\ dfsStack'[i] = dfsStack[i]
  BY FinishFacts, ZenonT(30)
<1>4. Len(dfsStack) # 1
  BY StayFacts
<1>5. OnStack' = OnStack /\ Visited' = Visited /\ Found' = Found
  BY <1>2 DEF OnStack, Visited, Found
<1>6. lowLink' \in [Visited -> Nat]
  <2>1. lowLink' = [lowLink EXCEPT ![p] = Min({lowLink[p], lowLink[t]})]
    BY <1>4 DEF Finish, Propagated
  <2>2. p \in Visited /\ t \in Visited /\ lowLink \in [Visited -> Nat]
    <3>1. p \in Path /\ t \in Path
      BY <1>4, ParentFacts, FinishFacts
    <3> QED BY <3>1, <1>1, CursorTypes, ZenonT(30) DEF Types, Path
  <2> HIDE DEF p
  <2>3. Min({lowLink[p], lowLink[t]}) \in Nat
    <3>1. lowLink[p] \in Nat /\ lowLink[t] \in Nat
      BY <2>2
    <3>2. \E x \in {lowLink[p], lowLink[t]} : \A y \in {lowLink[p], lowLink[t]} : x <= y
      BY <3>1
    <3> QED BY <3>1, <3>2 DEF Min
  <2> QED BY <2>1, <2>2, <2>3
<1>7. Types'
  BY <1>1, <1>2, <1>3, <1>5, <1>6, ZenonT(30) DEF Types
<1> HIDE DEF C
<1>8. /\ dfsStack' # << >> /\ 1 \in DOMAIN dfsStack'
  BY <1>3, <1>4
<1>9. /\ dfsStack # << >> /\ dfsStack'[1] = dfsStack[1]
  BY <1>3, <1>8 DEF Finish
<1>10. \A i, j \in DOMAIN dfsStack' :
          i < j => discIdx'[dfsStack'[i].id] < discIdx'[dfsStack'[j].id]
  BY <1>1, <1>2, <1>3 DEF Order
<1>11. \A i \in DOMAIN dfsStack' :
          dfsStack'[i].branches \subseteq AdjacentNodes(origin, dfsStack'[i].id, "outbound")
  BY <1>1, <1>3 DEF Order
<1>12. Path' \subseteq OnStack'
  BY <1>1, <1>3, <1>5 DEF Order
<1>13. stack' # << >> /\ stack'[1] = dfsStack'[1].id
  BY <1>1, <1>2, <1>9 DEF Order
<1>14. Order'
  BY <1>1, <1>2, <1>5, <1>8, <1>10, <1>11, <1>12, <1>13 DEF Order
<1> QED BY <1>2, <1>7, <1>14

\* The low-links after a step that keeps Tarjan's stack: only the parent's moves,
\* to the lesser of its own and its child's.
LEMMA StayLowLinks ==
    ASSUME TarjanInv, Finish, NEW t, t = Top.id, lowLink[t] # discIdx[t],
           NEW p, p = dfsStack[Len(dfsStack) - 1].id
    PROVE  /\ p \in Path \ {t} /\ \A g \in Path \ {t} : discIdx[g] <= discIdx[p]
           /\ \A v \in Visited : v # p => lowLink'[v] = lowLink[v]
           /\ lowLink'[p] <= lowLink[p] /\ lowLink'[p] <= lowLink[t]
           /\ lowLink'[p] \in {lowLink[p], lowLink[t]}
           /\ Path \subseteq OnStack /\ OnStack \subseteq Visited /\ Visited \subseteq origin.nodes
           /\ \A v \in Visited : discIdx[v] \in Nat /\ lowLink[v] \in Nat
<1>1. Types /\ Order
  BY DEF TarjanInv
<1>2. Len(dfsStack) # 1
  BY StayFacts
<1>3. p \in Path \ {t} /\ \A g \in Path \ {t} : discIdx[g] <= discIdx[p]
  BY <1>2, ParentFacts
<1>4. t \in Path
  BY FinishFacts
<1>5. /\ Path \subseteq OnStack /\ OnStack \subseteq Visited /\ Visited \subseteq origin.nodes
      /\ \A v \in Visited : discIdx[v] \in Nat /\ lowLink[v] \in Nat
      /\ lowLink \in [Visited -> Nat]
  BY <1>1 DEF Types, Order, OnStack, Range
<1>6. lowLink' = [lowLink EXCEPT ![p] = Min({lowLink[p], lowLink[t]})]
  BY <1>2 DEF Finish, Propagated
<1>7. p \in Visited /\ lowLink[p] \in Nat /\ lowLink[t] \in Nat
  BY <1>3, <1>4, <1>5
<1>8. /\ Min({lowLink[p], lowLink[t]}) \in {lowLink[p], lowLink[t]}
      /\ Min({lowLink[p], lowLink[t]}) <= lowLink[p]
      /\ Min({lowLink[p], lowLink[t]}) <= lowLink[t]
  <2>1. \E x \in {lowLink[p], lowLink[t]} : \A y \in {lowLink[p], lowLink[t]} : x <= y
    BY <1>7
  <2> QED BY <1>7, <2>1 DEF Min
<1>9. \A v \in Visited : v # p => lowLink'[v] = lowLink[v]
  BY <1>5, <1>6
<1>10. lowLink'[p] = Min({lowLink[p], lowLink[t]})
  BY <1>5, <1>6, <1>7, ZenonT(30)
<1> QED BY <1>3, <1>5, <1>8, <1>9, <1>10

\* A node that is finished and no root passes its low-link to its parent.
LEMMA StayTree ==
    ASSUME TarjanInv, Finish, NEW t, t = Top.id, lowLink[t] # discIdx[t]
    PROVE  LowLinks' /\ Tree'
<1>0. PICK p : p = dfsStack[Len(dfsStack) - 1].id
  OBVIOUS
<1>1. Types /\ Order /\ LowLinks /\ Tree
  BY DEF TarjanInv
<1>2. /\ p \in Path \ {t} /\ \A g \in Path \ {t} : discIdx[g] <= discIdx[p]
      /\ \A v \in Visited : v # p => lowLink'[v] = lowLink[v]
      /\ lowLink'[p] <= lowLink[p] /\ lowLink'[p] <= lowLink[t]
      /\ lowLink'[p] \in {lowLink[p], lowLink[t]}
      /\ Path \subseteq OnStack /\ OnStack \subseteq Visited /\ Visited \subseteq origin.nodes
      /\ \A v \in Visited : discIdx[v] \in Nat /\ lowLink[v] \in Nat
  BY <1>0, StayLowLinks
<1>3. /\ Path' = Path \ {t} /\ t \in Path /\ t \in OnStack
      /\ \A g \in Path : discIdx[g] <= discIdx[t]
      /\ \A g \in Path \ {t} : discIdx[g] < discIdx[t]
      /\ \A v : Done(v)' = Done(v)
  BY FinishFacts
<1>4. UNCHANGED <<stack, index, discIdx, origin>> /\ OnStack' = OnStack /\ Visited' = Visited
  BY StayOrder DEF OnStack, Visited
<1>5. \A v, w : Reaches(v, w)' <=> Reaches(v, w)
  BY <1>4, SameReach
<1>6. lowLink[t] < discIdx[t] /\ \E u \in OnStack : discIdx[u] = lowLink[t] /\ Reaches(t, u)
  BY StayFacts
<1>7. /\ \A v, w, x \in origin.nodes : Reaches(v, w) /\ Reaches(w, x) => Reaches(v, x)
      /\ \A v, w : Reaches(v, w) => w \in origin.nodes
  BY <1>1, ReachesFacts
<1>8. Reaches(p, t)
  BY <1>1, <1>2, <1>3 DEF Tree
<1>9. lowLink'[p] \in Nat /\ p \in OnStack /\ p \in Visited /\ discIdx[p] < discIdx[t]
  BY <1>2, <1>3
<1>10. ASSUME NEW v \in OnStack
       PROVE  /\ lowLink'[v] <= discIdx[v]
              /\ \E u \in OnStack : discIdx[u] = lowLink'[v] /\ Reaches(v, u)
              /\ Done(v)' \subseteq Visited
              /\ \A w \in Done(v)' \cap OnStack : lowLink'[v] <= discIdx[w]
  <2>1. /\ lowLink[v] <= discIdx[v]
        /\ \E u \in OnStack : discIdx[u] = lowLink[v] /\ Reaches(v, u)
        /\ Done(v)' \subseteq Visited
        /\ \A w \in Done(v)' \cap OnStack : lowLink[v] <= discIdx[w]
    BY <1>1, <1>3 DEF LowLinks
  <2>2. CASE v # p
    BY <2>1, <2>2, <1>2
  <2>3. CASE v = p
    <3>1. lowLink'[p] <= discIdx[p]
      BY <1>2, <1>9, <2>1, <2>3
    <3>2. \E u \in OnStack : discIdx[u] = lowLink'[p] /\ Reaches(p, u)
      <4>1. CASE lowLink'[p] = lowLink[p]
        BY <2>1, <2>3, <4>1
      <4>2. CASE lowLink'[p] = lowLink[t]
        <5>1. PICK u \in OnStack : discIdx[u] = lowLink[t] /\ Reaches(t, u)
          BY <1>6
        <5>2. Reaches(p, u)
          BY <1>2, <1>3, <1>7, <1>8, <1>9, <5>1
        <5> QED BY <4>2, <5>1, <5>2
      <4> QED BY <1>2, <4>1, <4>2
    <3>3. ASSUME NEW w \in Done(p)' \cap OnStack PROVE lowLink'[p] <= discIdx[w]
      <4>1. lowLink[p] <= discIdx[w] /\ discIdx[w] \in Nat
        BY <2>1, <2>3, <1>2
      <4> QED BY <4>1, <1>2, <1>9
    <3> QED BY <2>1, <2>3, <3>1, <3>2, <3>3
  <2> QED BY <2>2, <2>3
<1>11. LowLinks'
  BY <1>4, <1>5, <1>10 DEF LowLinks
<1>12. ASSUME NEW w \in OnStack
       PROVE  \E g \in Path \ {t} : discIdx[g] <= discIdx[w] /\ Reaches(w, g)
  <2>1. PICK g \in Path : discIdx[g] <= discIdx[w] /\ Reaches(w, g)
    BY <1>1 DEF Tree
  <2>2. CASE g # t
    BY <2>1, <2>2
  <2>3. CASE g = t
    <3>1. PICK u \in OnStack : discIdx[u] = lowLink[t] /\ Reaches(t, u)
      BY <1>6
    <3>2. PICK h \in Path : discIdx[h] <= discIdx[u] /\ Reaches(u, h)
      BY <1>1 DEF Tree
    <3>3. {w, t, u, h} \subseteq Visited
      BY <1>2, <1>3
    <3>4. discIdx[h] < discIdx[t] /\ discIdx[h] <= discIdx[w]
      BY <1>2, <1>6, <2>1, <2>3, <3>1, <3>2, <3>3
    <3>5. h # t
      BY <3>3, <3>4, <1>2
    <3>6. Reaches(w, u)
      BY <1>2, <1>7, <2>1, <2>3, <3>1, <3>3
    <3>7. Reaches(w, h)
      BY <1>2, <1>7, <3>2, <3>3, <3>6
    <3> QED BY <3>4, <3>5, <3>7
  <2> QED BY <2>2, <2>3
<1>13. ASSUME NEW g \in Path \ {t}, NEW u \in OnStack, discIdx[g] <= discIdx[u],
              \A h \in Path \ {t} : discIdx[h] <= discIdx[u] => discIdx[h] <= discIdx[g]
       PROVE  lowLink'[g] <= lowLink'[u]
  <2>1. {g, u, t, p} \subseteq Visited
    BY <1>2, <1>3
  <2>2. CASE discIdx[u] < discIdx[t]
    <3>1. \A h \in Path : discIdx[h] <= discIdx[u] => discIdx[h] <= discIdx[g]
      BY <1>2, <1>13, <2>1, <2>2
    <3>2. lowLink[g] <= lowLink[u]
      BY <1>1, <1>13, <3>1 DEF Tree
    <3>3. CASE u = p
      <4>1. discIdx[g] = discIdx[p]
        BY <1>2, <1>13, <2>1, <3>3
      <4>2. g = p
        BY <1>1, <2>1, <4>1 DEF Order
      <4> QED BY <3>3, <4>2, <1>9
    <3>4. CASE u # p
      BY <1>2, <1>9, <2>1, <3>2, <3>4
    <3> QED BY <3>3, <3>4
  <2>3. CASE ~(discIdx[u] < discIdx[t])
    <3>1. discIdx[p] <= discIdx[u] /\ u # p
      BY <1>2, <1>9, <2>1, <2>3
    <3>2. discIdx[g] = discIdx[p]
      BY <1>2, <1>13, <2>1, <3>1
    <3>3. g = p
      BY <1>1, <2>1, <3>2 DEF Order
    <3>4. discIdx[t] <= discIdx[u]
      BY <1>2, <2>1, <2>3
    <3>5. lowLink[t] <= lowLink[u]
      BY <1>1, <1>3, <3>4 DEF Tree
    <3> QED BY <1>2, <1>9, <2>1, <3>1, <3>3, <3>5
  <2> QED BY <2>2, <2>3
<1>14. \A g \in Path \ {t}, w \in OnStack : discIdx[g] <= discIdx[w] => Reaches(g, w)
  BY <1>1 DEF Tree
<1>15. Tree'
  BY <1>3, <1>4, <1>5, <1>12, <1>13, <1>14 DEF Tree
<1> QED BY <1>11, <1>15

\* What was discovered since t and is still on the stack.
Above(t) == {u \in OnStack : discIdx[t] <= discIdx[u]}

\* Unwinding the stack down to a root t takes what was discovered since t.
LEMMA UnwoundFacts ==
    ASSUME TarjanInv, NEW t \in OnStack
    PROVE  \E k \in DOMAIN stack :
              /\ stack[k] = t
              /\ Range(Unwound(t)) = Above(t)
              /\ Len(stack) - Len(Unwound(t)) = k - 1
              /\ SubSeq(stack, 1, k - 1) \in Seq(Visited)
              /\ Len(SubSeq(stack, 1, k - 1)) = k - 1
              /\ \A i \in 1..(k - 1) : SubSeq(stack, 1, k - 1)[i] = stack[i]
              /\ Range(SubSeq(stack, 1, k - 1)) = {u \in OnStack : discIdx[u] < discIdx[t]}
<1> DEFINE k == CHOOSE i \in DOMAIN stack : stack[i] = t
<1>1. Types /\ Order
  BY DEF TarjanInv
<1>2. stack \in Seq(Visited) /\ DOMAIN stack = 1..Len(stack) /\ Len(stack) \in Nat
  BY <1>1 DEF Types
<1>3. k \in DOMAIN stack /\ stack[k] = t
  BY DEF OnStack, Range
<1>4. Unwound(t) = SubSeq(stack, k, Len(stack))
  BY DEF Unwound
<1> HIDE DEF k
<1>5. k \in 1..Len(stack) /\ k \in Int /\ Len(stack) \in Int /\ k - 1 \in Int
  BY <1>2, <1>3
<1>6. /\ Unwound(t) \in Seq(Visited) /\ Len(Unwound(t)) = Len(stack) - k + 1
      /\ \A i \in 1..(Len(stack) - k + 1) : Unwound(t)[i] = stack[k + i - 1]
  <2>1. \A i \in k..Len(stack) : stack[i] \in Visited
    BY <1>2, <1>5
  <2> QED BY <1>4, <1>5, <2>1
<1>7. /\ SubSeq(stack, 1, k - 1) \in Seq(Visited)
      /\ Len(SubSeq(stack, 1, k - 1)) = k - 1
      /\ \A i \in 1..(k - 1) : SubSeq(stack, 1, k - 1)[i] = stack[i]
  <2>1. \A i \in 1..(k - 1) : stack[i] \in Visited
    BY <1>2, <1>5
  <2>2. /\ SubSeq(stack, 1, k - 1) \in Seq(Visited)
        /\ Len(SubSeq(stack, 1, k - 1)) = IF 1 <= k - 1 THEN (k - 1) - 1 + 1 ELSE 0
        /\ \A i \in 1..((k - 1) - 1 + 1) : SubSeq(stack, 1, k - 1)[i] = stack[1 + i - 1]
    BY <1>5, <2>1
  <2> QED BY <1>5, <2>2
<1>8. \A v \in Visited : discIdx[v] \in Nat
  BY <1>1 DEF Types
<1>9. \A i \in DOMAIN stack : /\ stack[i] \in Visited
                              /\ i < k => discIdx[stack[i]] < discIdx[t]
                              /\ i >= k => discIdx[t] <= discIdx[stack[i]]
  <2>1. ASSUME NEW i \in DOMAIN stack PROVE stack[i] \in Visited
    BY <1>2
  <2>2. ASSUME NEW i \in DOMAIN stack, i < k PROVE discIdx[stack[i]] < discIdx[t]
    BY <2>2, <1>1, <1>3 DEF Order
  <2>3. ASSUME NEW i \in DOMAIN stack, i >= k PROVE discIdx[t] <= discIdx[stack[i]]
    <3>1. CASE i = k
      BY <3>1, <1>3, <1>8, <2>1
    <3>2. CASE i # k
      <4>1. k < i
        BY <2>3, <3>2, <1>2, <1>5
      <4>2. discIdx[t] < discIdx[stack[i]]
        BY <4>1, <1>1, <1>3 DEF Order
      <4> QED BY <4>2, <1>3, <1>8, <2>1
    <3> QED BY <3>1, <3>2
  <2> QED BY <2>1, <2>2, <2>3
<1>10. Range(Unwound(t)) = Above(t)
  <2>1. DOMAIN Unwound(t) = 1..(Len(stack) - k + 1)
    BY <1>5, <1>6
  <2>2. ASSUME NEW u \in Range(Unwound(t)) PROVE u \in OnStack /\ discIdx[t] <= discIdx[u]
    <3>1. PICK i \in DOMAIN Unwound(t) : u = Unwound(t)[i]
      BY DEF Range
    <3>2. u = stack[k + i - 1] /\ k + i - 1 \in DOMAIN stack /\ k + i - 1 >= k
      BY <3>1, <2>1, <1>2, <1>5, <1>6
    <3> QED BY <3>2, <1>9 DEF OnStack, Range
  <2>3. ASSUME NEW u \in OnStack, discIdx[t] <= discIdx[u] PROVE u \in Range(Unwound(t))
    <3>1. PICK i \in DOMAIN stack : u = stack[i]
      BY DEF OnStack, Range
    <3>2. i >= k
      <4>1. stack[i] \in Visited /\ t \in Visited
        BY <1>3, <1>9
      <4> QED BY <3>1, <2>3, <1>2, <1>5, <1>8, <1>9, <4>1
    <3>3. i - k + 1 \in DOMAIN Unwound(t) /\ Unwound(t)[i - k + 1] = stack[i]
      <4>1. i - k + 1 \in 1..(Len(stack) - k + 1) /\ k + (i - k + 1) - 1 = i
        BY <3>1, <3>2, <1>2, <1>5
      <4> QED BY <4>1, <2>1, <1>6
    <3> QED BY <3>1, <3>3 DEF Range
  <2> QED BY <2>2, <2>3 DEF Above
<1>11. Range(SubSeq(stack, 1, k - 1)) = {u \in OnStack : discIdx[u] < discIdx[t]}
  <2> DEFINE low == SubSeq(stack, 1, k - 1)
  <2>1. DOMAIN low = 1..(k - 1) /\ \A i \in 1..(k - 1) : low[i] = stack[i]
    BY <1>5, <1>7
  <2> HIDE DEF low
  <2>2. ASSUME NEW u \in Range(low) PROVE u \in OnStack /\ discIdx[u] < discIdx[t]
    <3>1. PICK i \in DOMAIN low : u = low[i]
      BY DEF Range
    <3>2. u = stack[i] /\ i \in DOMAIN stack /\ i < k
      BY <3>1, <2>1, <1>2, <1>5
    <3> QED BY <3>2, <1>9 DEF OnStack, Range
  <2>3. ASSUME NEW u \in OnStack, discIdx[u] < discIdx[t] PROVE u \in Range(low)
    <3>1. PICK i \in DOMAIN stack : u = stack[i]
      BY DEF OnStack, Range
    <3>2. i < k
      <4>1. stack[i] \in Visited /\ t \in Visited
        BY <1>3, <1>9
      <4> QED BY <3>1, <2>3, <1>2, <1>5, <1>8, <1>9, <4>1
    <3>3. i \in DOMAIN low /\ low[i] = stack[i]
      BY <3>1, <3>2, <2>1, <1>2, <1>5
    <3> QED BY <3>1, <3>3 DEF Range
  <2> QED BY <2>2, <2>3 DEF low
<1>12. Len(stack) - Len(Unwound(t)) = k - 1
  BY <1>5, <1>6
<1> QED BY <1>3, <1>7, <1>10, <1>11, <1>12

\* The numbers of the components with comp as the next one.
Numbered(comp) == [v \in DOMAIN nodeToComp \cup comp |->
                      IF v \in comp THEN Len(components) ELSE nodeToComp[v]]

\* A cursor is popped whose node t is a root: its component leaves the stack,
\* and no low-link moves.
LEMMA PopFacts ==
    ASSUME TarjanInv, Finish, NEW t, t = Top.id, lowLink[t] = discIdx[t],
           NEW comp, comp = Above(t)
    PROVE  /\ components' = Append(components, comp)
           /\ nodeToComp' = Numbered(comp)
           /\ OnStack' = {u \in OnStack : discIdx[u] < discIdx[t]}
           /\ lowLink' = lowLink /\ index' = index /\ discIdx' = discIdx /\ origin' = origin
           /\ componentGraph' = componentGraph /\ Visited' = Visited
           /\ Path \subseteq OnStack /\ OnStack \subseteq Visited /\ Visited \subseteq origin.nodes
           /\ \A v \in Visited : discIdx[v] \in Nat /\ lowLink[v] \in Nat
<1>1. Types /\ Order /\ LowLinks
  BY DEF TarjanInv
<1>2. /\ t \in Path /\ t \in OnStack /\ Len(dfsStack) \in Nat \ {0}
      /\ \A g \in Path \ {t} : discIdx[g] < discIdx[t]
  BY FinishFacts
<1>3. /\ Path \subseteq OnStack /\ OnStack \subseteq Visited /\ Visited \subseteq origin.nodes
      /\ \A v \in Visited : discIdx[v] \in Nat /\ lowLink[v] \in Nat
      /\ lowLink \in [Visited -> Nat]
  BY <1>1 DEF Types, Order, OnStack, Range
<1>4. PICK k \in DOMAIN stack :
          /\ Range(Unwound(t)) = comp
          /\ Len(stack) - Len(Unwound(t)) = k - 1
          /\ Range(SubSeq(stack, 1, k - 1)) = {u \in OnStack : discIdx[u] < discIdx[t]}
  BY <1>2, UnwoundFacts
<1>5. /\ components' = Append(components, comp)
      /\ nodeToComp' = Numbered(comp)
      /\ stack' = SubSeq(stack, 1, k - 1)
  BY <1>4 DEF Finish, Numbered
<1>6. OnStack' = {u \in OnStack : discIdx[u] < discIdx[t]}
  BY <1>4, <1>5 DEF OnStack
<1>7. /\ index' = index /\ discIdx' = discIdx /\ origin' = origin /\ componentGraph' = componentGraph
      /\ lowLink' = Propagated
  BY DEF Finish
<1>8. lowLink' = lowLink
  <2>1. CASE Len(dfsStack) = 1
    BY <2>1, <1>7 DEF Propagated
  <2>2. CASE Len(dfsStack) # 1
    <3>1. PICK p : p = dfsStack[Len(dfsStack) - 1].id
      OBVIOUS
    <3>2. p \in Path \ {t}
      BY <2>2, <3>1, ParentFacts
    <3>3. lowLink[p] <= discIdx[p] /\ discIdx[p] < discIdx[t]
      BY <1>1, <1>2, <1>3, <3>2 DEF LowLinks
    <3>4. lowLink[p] \in Nat /\ lowLink[t] \in Nat /\ lowLink[p] < lowLink[t]
      BY <1>2, <1>3, <3>2, <3>3
    <3>5. Min({lowLink[p], lowLink[t]}) = lowLink[p]
      BY <3>4 DEF Min
    <3>6. lowLink' = [lowLink EXCEPT ![p] = lowLink[p]]
      BY <1>7, <2>2, <3>1, <3>5, ZenonT(30) DEF Propagated
    <3> QED BY <3>6, <1>3
  <2> QED BY <2>1, <2>2
<1> QED BY <1>3, <1>5, <1>6, <1>7, <1>8 DEF Visited

\* What is left below a component that is cut off is still a tree with its low-links.
LEMMA PopTree ==
    ASSUME TarjanInv, Finish, NEW t, t = Top.id, lowLink[t] = discIdx[t]
    PROVE  LowLinks' /\ Tree'
<1>1. Types /\ Order /\ LowLinks /\ Tree
  BY DEF TarjanInv
<1>2. /\ OnStack' = {u \in OnStack : discIdx[u] < discIdx[t]}
      /\ lowLink' = lowLink /\ index' = index /\ discIdx' = discIdx /\ origin' = origin /\ Visited' = Visited
      /\ Path \subseteq OnStack /\ OnStack \subseteq Visited /\ Visited \subseteq origin.nodes
      /\ \A v \in Visited : discIdx[v] \in Nat /\ lowLink[v] \in Nat
  BY PopFacts
<1>3. /\ Path' = Path \ {t} /\ t \in Path /\ \A v : Done(v)' = Done(v)
  BY FinishFacts
<1>4. \A v, w : Reaches(v, w)' <=> Reaches(v, w)
  BY <1>2, SameReach
<1>5. ASSUME NEW v \in OnStack'
      PROVE  /\ lowLink[v] <= discIdx[v]
             /\ \E u \in OnStack' : discIdx[u] = lowLink[v] /\ Reaches(v, u)
             /\ Done(v)' \subseteq Visited
             /\ \A w \in Done(v)' \cap OnStack' : lowLink[v] <= discIdx[w]
  <2>1. /\ lowLink[v] <= discIdx[v]
        /\ \E u \in OnStack : discIdx[u] = lowLink[v] /\ Reaches(v, u)
        /\ Done(v)' \subseteq Visited
        /\ \A w \in Done(v)' \cap OnStack : lowLink[v] <= discIdx[w]
    BY <1>1, <1>2, <1>3 DEF LowLinks
  <2>2. PICK u \in OnStack : discIdx[u] = lowLink[v] /\ Reaches(v, u)
    BY <2>1
  <2>3. u \in OnStack'
    BY <1>2, <1>3, <2>1, <2>2
  <2> QED BY <1>2, <2>1, <2>2, <2>3
<1>6. LowLinks'
  BY <1>2, <1>4, <1>5 DEF LowLinks
<1>7. \A g \in Path \ {t}, w \in OnStack' : discIdx[g] <= discIdx[w] => Reaches(g, w)
  BY <1>1, <1>2 DEF Tree
<1>8. ASSUME NEW w \in OnStack'
      PROVE  \E g \in Path \ {t} : discIdx[g] <= discIdx[w] /\ Reaches(w, g)
  <2>1. PICK g \in Path : discIdx[g] <= discIdx[w] /\ Reaches(w, g)
    BY <1>1, <1>2 DEF Tree
  <2>2. g # t
    BY <1>2, <1>3, <2>1
  <2> QED BY <2>1, <2>2
<1>9. ASSUME NEW g \in Path \ {t}, NEW u \in OnStack', discIdx[g] <= discIdx[u],
             \A h \in Path \ {t} : discIdx[h] <= discIdx[u] => discIdx[h] <= discIdx[g]
      PROVE  lowLink[g] <= lowLink[u]
  <2>1. \A h \in Path : discIdx[h] <= discIdx[u] => discIdx[h] <= discIdx[g]
    BY <1>2, <1>3, <1>9
  <2> QED BY <1>1, <1>2, <1>9, <2>1 DEF Tree
<1>10. Tree'
  BY <1>2, <1>3, <1>4, <1>7, <1>8, <1>9 DEF Tree
<1> QED BY <1>6, <1>10

\* Cutting off a component leaves both stacks in order.
LEMMA PopOrder ==
    ASSUME TarjanInv, Finish, NEW t, t = Top.id, lowLink[t] = discIdx[t]
    PROVE  Types' /\ Order'
<1> DEFINE C == [id : Visited, branches : SUBSET origin.nodes]
<1>0. PICK comp : comp = Above(t)
  OBVIOUS
<1>1. Types /\ Order
  BY DEF TarjanInv
<1>2. /\ components' = Append(components, comp)
      /\ nodeToComp' = Numbered(comp)
      /\ OnStack' = {u \in OnStack : discIdx[u] < discIdx[t]}
      /\ lowLink' = lowLink /\ index' = index /\ discIdx' = discIdx /\ origin' = origin /\ Visited' = Visited
      /\ Path \subseteq OnStack /\ OnStack \subseteq Visited /\ Visited \subseteq origin.nodes
      /\ \A v \in Visited : discIdx[v] \in Nat /\ lowLink[v] \in Nat
  BY <1>0, PopFacts
<1>3. /\ Path' = Path \ {t} /\ t \in OnStack /\ Len(dfsStack) \in Nat \ {0}
      /\ \A g \in Path \ {t} : discIdx[g] < discIdx[t]
      /\ dfsStack' \in Seq(C) /\ Len(dfsStack') = Len(dfsStack) - 1
      /\ \A i \in DOMAIN dfsStack' : i \in DOMAIN dfsStack /\ dfsStack'[i] = dfsStack[i]
  BY FinishFacts, ZenonT(30)
<1>4. PICK k \in DOMAIN stack :
          /\ stack[k] = t
          /\ Len(stack) - Len(Unwound(t)) = k - 1
          /\ SubSeq(stack, 1, k - 1) \in Seq(Visited)
          /\ Len(SubSeq(stack, 1, k - 1)) = k - 1
          /\ \A i \in 1..(k - 1) : SubSeq(stack, 1, k - 1)[i] = stack[i]
  BY <1>3, UnwoundFacts
<1>5. stack' = SubSeq(stack, 1, k - 1)
  BY <1>4 DEF Finish
<1>6. stack \in Seq(Visited) /\ k \in 1..Len(stack) /\ Len(stack) \in Nat
  BY <1>1, <1>4, SMTT(30) DEF Types
<1>7. /\ stack' \in Seq(Visited) /\ Len(stack') = k - 1 /\ DOMAIN stack' = 1..(k - 1)
      /\ \A i \in DOMAIN stack' : i \in DOMAIN stack /\ stack'[i] = stack[i]
  BY <1>4, <1>5, <1>6
<1>8. Types'
  <2>1. components' \in Seq(SUBSET origin.nodes)
    BY <1>0, <1>1, <1>2, SMTT(30) DEF Types, Above
  <2>2. nodeToComp' \in [Found' -> Nat] /\ Found' \subseteq origin.nodes
    <3>1. Found' = Found \cup comp
      BY <1>2 DEF Found, Numbered
    <3>2. Len(components) \in Nat /\ nodeToComp \in [Found -> Nat] /\ Found \subseteq origin.nodes
      BY <1>1, SMTT(30) DEF Types
    <3> QED BY <1>0, <1>2, <3>1, <3>2 DEF Found, Above, Numbered
  <2> QED BY <1>1, <1>2, <1>3, <1>7, <2>1, <2>2, ZenonT(30) DEF Types
<1> HIDE DEF C
<1>9. \A i, j \in DOMAIN stack' : i < j => discIdx[stack'[i]] < discIdx[stack'[j]]
  BY <1>1, <1>7 DEF Order
<1>10. \A i, j \in DOMAIN dfsStack' :
          i < j => discIdx[dfsStack'[i].id] < discIdx[dfsStack'[j].id]
  BY <1>1, <1>3 DEF Order
<1>11. \A i \in DOMAIN dfsStack' :
          dfsStack'[i].branches \subseteq AdjacentNodes(origin, dfsStack'[i].id, "outbound")
  BY <1>1, <1>3 DEF Order
<1>12. Path' \subseteq OnStack'
  BY <1>2, <1>3
<1>13. stack # << >> /\ stack[1] = dfsStack[1].id
  BY <1>1 DEF Order, Finish
<1>14. IF dfsStack' = << >> THEN stack' = << >>
       ELSE stack' # << >> /\ stack'[1] = dfsStack'[1].id
  <2>1. CASE dfsStack' = << >>
    <3>1. Len(dfsStack) = 1
      BY <1>3, <2>1
    <3>2. stack[1] = t /\ 1 \in DOMAIN stack
      BY <1>6, <1>13, <3>1 DEF Top
    <3>3. k = 1
      <4>1. discIdx[t] \in Nat
        BY <1>2, <1>3
      <4>2. \A i, j \in DOMAIN stack : i < j => discIdx[stack[i]] < discIdx[stack[j]]
        BY <1>1, Zenon DEF Order
      <4>3. stack[k] = t
        BY <1>4, Zenon
      <4>4. 1 < k => discIdx[t] < discIdx[t]
        BY <3>2, <4>2, <4>3, Zenon
      <4>5. ~(1 < k)
        BY <4>1, <4>4
      <4> QED BY <1>6, <4>5
    <3>4. stack' = << >>
      BY <1>7, <3>3
    <3> QED BY <2>1, <3>4
  <2>2. CASE dfsStack' # << >>
    <3>1. 1 \in DOMAIN dfsStack'
      BY <1>3, <2>2
    <3>2. dfsStack'[1] = dfsStack[1] /\ dfsStack[1].id \in Path \ {t}
      BY <1>3, <3>1, ZenonT(30) DEF Path
    <3>3. k # 1
      BY <1>4, <1>13, <3>2
    <3>4. 1 \in DOMAIN stack'
      BY <1>6, <1>7, <3>3
    <3>5. stack' # << >> /\ stack'[1] = stack[1]
      BY <1>7, <3>4
    <3> QED BY <1>13, <2>2, <3>2, <3>5
  <2> QED BY <2>1, <2>2
<1>15. Order'
  BY <1>1, <1>2, <1>9, <1>10, <1>11, <1>12, <1>14 DEF Order
<1> QED BY <1>8, <1>15

\* The component of a root t is exact: its nodes reach each other through the
\* path, and no edge leads out of it but into components found before.
LEMMA PopExact ==
    ASSUME TarjanInv, Finish, NEW t, t = Top.id, lowLink[t] = discIdx[t],
           NEW comp, comp = Above(t)
    PROVE  /\ t \in comp /\ comp \cap Found = {} /\ comp \subseteq origin.nodes
           /\ \A v \in comp : comp = {w \in origin.nodes : Reaches(v, w) /\ Reaches(w, v)}
           /\ Closed(origin, Found \cup comp, "outbound")
<1>1. Types /\ Order /\ LowLinks /\ Tree /\ FoundInv
  BY DEF TarjanInv
<1>2. /\ t \in Path /\ t \in OnStack /\ \A g \in Path : discIdx[g] <= discIdx[t]
      /\ \A g \in Path \ {t} : discIdx[g] < discIdx[t]
      /\ Done(t) = Adjacent(t)
  BY FinishFacts
<1>3. /\ Path \subseteq OnStack /\ OnStack \subseteq Visited /\ Visited \subseteq origin.nodes
      /\ \A v \in Visited : discIdx[v] \in Nat /\ lowLink[v] \in Nat
  BY PopFacts
<1>4. t \in comp /\ comp \subseteq OnStack /\ comp \cap Found = {} /\ comp \subseteq origin.nodes
  BY <1>1, <1>2, <1>3 DEF FoundInv, Above
<1>5. /\ \A v, w, x \in origin.nodes : Reaches(v, w) /\ Reaches(w, x) => Reaches(v, x)
  BY <1>1, ReachesFacts
<1>6. \A u \in comp : Reaches(t, u)
  BY <1>1, <1>2 DEF Tree, Above
<1>7. ASSUME NEW u \in comp PROVE Reaches(u, t)
  <2>1. PICK g \in Path : discIdx[g] <= discIdx[u] /\ Reaches(u, g)
    BY <1>1, <1>4 DEF Tree
  <2>2. Reaches(g, t)
    BY <1>1, <1>2, <2>1 DEF Tree
  <2> QED BY <1>2, <1>3, <1>4, <1>5, <2>1, <2>2
<1>8. ASSUME NEW u \in comp PROVE Adjacent(u) \subseteq Found \cup comp
  <2>1. Done(u) = Adjacent(u)
    <3>1. CASE u = t
      BY <1>2, <3>1
    <3>2. CASE u # t
      <4>1. u \notin Path
        BY <1>2, <1>3, <1>4, <3>2 DEF Above
      <4> QED BY <4>1 DEF Done, Path
    <3> QED BY <3>1, <3>2
  <2>2. lowLink[t] <= lowLink[u]
    BY <1>1, <1>2, <1>4 DEF Tree, Above
  <2>3. ASSUME NEW w \in Adjacent(u) PROVE w \in Found \cup comp
    <3>1. w \in Visited
      BY <1>1, <1>4, <2>1 DEF LowLinks
    <3>2. Visited = OnStack \cup Found
      <4>1. dfsStack # << >>
        BY DEF Finish
      <4> QED BY <1>1, <4>1 DEF FoundInv
    <3>3. CASE w \in OnStack
      <4>1. lowLink[u] <= discIdx[w]
        BY <1>1, <1>4, <2>1, <3>3 DEF LowLinks
      <4>2. discIdx[t] <= discIdx[w]
        BY <1>2, <1>3, <1>4, <2>2, <3>1, <4>1
      <4> QED BY <3>3, <4>2 DEF Above
    <3> QED BY <3>1, <3>2, <3>3
  <2> QED BY <2>3
<1>9. Closed(origin, Found \cup comp, "outbound")
  BY <1>1, <1>8 DEF FoundInv, Closed, Adjacent
<1>10. ASSUME NEW v \in comp, NEW w \in comp PROVE Reaches(v, w)
  BY <1>2, <1>3, <1>4, <1>5, <1>6, <1>7
<1>11. ASSUME NEW v \in comp, NEW w \in origin.nodes, Reaches(v, w), Reaches(w, v)
       PROVE  w \in comp
  <2>1. Found \cup comp \in SUBSET origin.nodes /\ Found \in SUBSET origin.nodes
    BY <1>1, <1>4 DEF Types
  <2>2. w \in Found \cup comp
    BY <1>9, <1>11, <2>1, ReachInClosed DEF Reaches
  <2>3. w \notin Found
    BY <1>1, <1>4, <1>11, <2>1, ReachInClosed DEF Reaches, FoundInv
  <2> QED BY <2>2, <2>3
<1>12. ASSUME NEW v \in comp
       PROVE  comp = {w \in origin.nodes : Reaches(v, w) /\ Reaches(w, v)}
  BY <1>4, <1>10, <1>11
<1> QED BY <1>4, <1>9, <1>12

\* The component that is cut off is exact, and no edge leads out of those found.
LEMMA PopFound ==
    ASSUME TarjanInv, Finish, NEW t, t = Top.id, lowLink[t] = discIdx[t]
    PROVE  FoundInv'
<1>0. PICK comp : comp = Above(t)
  OBVIOUS
<1>1. FoundInv /\ components \in Seq(SUBSET origin.nodes) /\ nodeToComp \in [Found -> Nat]
  BY DEF TarjanInv, Types
<1>2. /\ components' = Append(components, comp)
      /\ nodeToComp' = Numbered(comp)
      /\ OnStack' = {u \in OnStack : discIdx[u] < discIdx[t]}
      /\ lowLink' = lowLink /\ index' = index /\ discIdx' = discIdx /\ origin' = origin
      /\ componentGraph' = componentGraph /\ Visited' = Visited
      /\ Path \subseteq OnStack /\ OnStack \subseteq Visited /\ Visited \subseteq origin.nodes
      /\ \A v \in Visited : discIdx[v] \in Nat /\ lowLink[v] \in Nat
  BY <1>0, PopFacts
<1>3. /\ t \in comp /\ comp \cap Found = {} /\ comp \subseteq origin.nodes
      /\ \A v \in comp : comp = {w \in origin.nodes : Reaches(v, w) /\ Reaches(w, v)}
      /\ Closed(origin, Found \cup comp, "outbound")
  BY <1>0, PopExact
<1>4. \A v, w : Reaches(v, w)' <=> Reaches(v, w)
  BY <1>2, SameReach
<1>5. /\ Found' = Found \cup comp
      /\ \A v \in comp : nodeToComp'[v] = Len(components)
      /\ \A v \in Found : nodeToComp'[v] = nodeToComp[v]
  BY <1>2, <1>3 DEF Found, Numbered
<1>6. /\ DOMAIN components' = DOMAIN components \cup {Len(components) + 1}
      /\ \A i \in DOMAIN components : components'[i] = components[i]
      /\ components'[Len(components) + 1] = comp
      /\ Len(components) \in Nat
  BY <1>1, <1>2
<1>7. ASSUME NEW i \in DOMAIN components'
      PROVE  /\ components'[i] # {} /\ components'[i] \subseteq Found'
             /\ \A v \in components'[i] :
                   /\ nodeToComp'[v] = i - 1
                   /\ components'[i] = {w \in origin.nodes : Reaches(v, w) /\ Reaches(w, v)}
  <2>1. CASE i \in DOMAIN components
    <3>1. /\ components[i] # {} /\ components[i] \subseteq Found
          /\ \A v \in components[i] :
                /\ nodeToComp[v] = i - 1
                /\ components[i] = {w \in origin.nodes : Reaches(v, w) /\ Reaches(w, v)}
      BY <1>1, <2>1 DEF FoundInv
    <3> QED BY <1>5, <1>6, <2>1, <3>1
  <2>2. CASE i = Len(components) + 1
    <3>1. components'[i] = comp /\ Len(components) = i - 1
      BY <1>6, <2>2
    <3> QED BY <1>3, <1>5, <3>1
  <2> QED BY <1>6, <2>1, <2>2
<1>8. ASSUME NEW v \in Found'
      PROVE  /\ nodeToComp'[v] + 1 \in DOMAIN components'
             /\ v \in components'[nodeToComp'[v] + 1]
  <2>1. CASE v \in comp
    BY <1>5, <1>6, <2>1
  <2>2. CASE v \in Found
    <3>1. nodeToComp[v] + 1 \in DOMAIN components /\ v \in components[nodeToComp[v] + 1]
      BY <1>1, <2>2 DEF FoundInv
    <3> QED BY <1>5, <1>6, <2>2, <3>1
  <2> QED BY <1>5, <2>1, <2>2
<1>9. Closed(origin, Found, "outbound")'
  BY <1>2, <1>3, <1>5
<1>10. componentGraph = NotBuilt /\ Visited = OnStack \cup Found
  <2>1. dfsStack # << >>
    BY DEF Finish
  <2> QED BY <1>1, <2>1 DEF FoundInv
<1>11. OnStack \cap Found = {}
  BY <1>1 DEF FoundInv
<1>12. OnStack' \cap comp = {} /\ OnStack' \cup comp = OnStack
  <2>1. t \in Visited
    BY <1>0, <1>2, <1>3 DEF Above
  <2>2. \A u \in OnStack : discIdx[u] \in Nat /\ discIdx[t] \in Nat
    BY <1>2, <2>1
  <2> QED BY <1>0, <1>2, <2>2 DEF Above
<1>13. OnStack' \cap Found' = {} /\ Visited' = OnStack' \cup Found' /\ componentGraph' = NotBuilt
  BY <1>2, <1>5, <1>10, <1>11, <1>12
<1> QED BY <1>2, <1>4, <1>7, <1>8, <1>9, <1>13 DEF FoundInv

\* Popping a cursor keeps the invariant, whether its node is a root or not.
LEMMA FinishKeeps ==
    ASSUME TarjanInv, Finish
    PROVE  TarjanInv'
<1>1. PICK t : t = Top.id
  OBVIOUS
<1>2. CASE lowLink[t] = discIdx[t]
  BY <1>1, <1>2, PopOrder, PopTree, PopFound DEF TarjanInv
<1>3. CASE lowLink[t] # discIdx[t]
  <2>1. /\ Types' /\ Order'
        /\ UNCHANGED <<stack, components, nodeToComp, index, discIdx, origin, componentGraph>>
    BY <1>1, <1>3, StayOrder
  <2>2. LowLinks' /\ Tree'
    BY <1>1, <1>3, StayTree
  <2>3. FoundInv'
    <3>1. FoundInv /\ componentGraph = NotBuilt
      BY DEF TarjanInv, FoundInv, Finish
    <3>2. \A v, w : Reaches(v, w)' <=> Reaches(v, w)
      BY <2>1, SameReach
    <3>3. Closed(origin, Found, "outbound")' /\ Found' = Found /\ OnStack' = OnStack
      BY <2>1, <3>1 DEF FoundInv, Found, OnStack
    <3>4. Visited' = Visited
      BY <2>1 DEF Visited
    <3> QED BY <2>1, <3>1, <3>2, <3>3, <3>4 DEF FoundInv
  <2> QED BY <2>1, <2>2, <2>3 DEF TarjanInv
<1> QED BY <1>2, <1>3

\* Building the component graph leaves the components as they are.
LEMMA BuildKeeps ==
    ASSUME TarjanInv, NewComponentGraph
    PROVE  TarjanInv'
<1>1. /\ Types /\ Order /\ FoundInv /\ componentGraph = NotBuilt /\ dfsStack = << >>
      /\ Visited = origin.nodes
      /\ index' = 0 /\ discIdx' = << >> /\ lowLink' = << >>
      /\ UNCHANGED <<origin, stack, dfsStack, components, nodeToComp>>
  BY DEF TarjanInv, NewComponentGraph
<1>2. stack = << >>
  BY <1>1 DEF Order
<1>3. /\ Visited' = {} /\ OnStack = {} /\ OnStack' = {} /\ Path' = {} /\ Found' = Found
      /\ DOMAIN stack' = {} /\ DOMAIN dfsStack' = {}
  BY <1>1, <1>2 DEF Visited, OnStack, Path, Found, Range
<1>4. Types'
  BY <1>1, <1>2, <1>3 DEF Types, Visited
<1>5. Order'
  BY <1>1, <1>2, <1>3 DEF Order
<1>6. LowLinks' /\ Tree'
  BY <1>3 DEF LowLinks, Tree
<1>7. Found = origin.nodes
  BY <1>1, <1>3 DEF FoundInv
<1>8. \A v, w : Reaches(v, w)' <=> Reaches(v, w)
  BY <1>1, SameReach
<1>9. Closed(origin, Found, "outbound")'
  BY <1>1, <1>3 DEF FoundInv
<1>10. componentGraph' # NotBuilt
  <2>1. componentGraph'.built = TRUE
    BY DEF NewComponentGraph
  <2>2. NotBuilt.built = FALSE
    BY DEF NotBuilt
  <2> QED BY <2>1, <2>2
<1>11. FoundInv'
  BY <1>1, <1>3, <1>7, <1>8, <1>9, <1>10 DEF FoundInv
<1> QED BY <1>4, <1>5, <1>6, <1>11 DEF TarjanInv

\* Every step of the algorithm keeps the invariant.
LEMMA TarjanStep == TarjanInv /\ [Next]_vars => TarjanInv'
<1> SUFFICES ASSUME TarjanInv, [Next]_vars PROVE TarjanInv'
  OBVIOUS
<1>1. ASSUME NEW v \in origin.nodes, Start(v) PROVE TarjanInv'
  BY <1>1, StartKeeps
<1>2. ASSUME NEW v \in origin.nodes, Branch(v) PROVE TarjanInv'
  BY <1>2, BranchKeeps
<1>3. CASE Finish
  BY <1>3, FinishKeeps
<1>4. CASE NewComponentGraph
  BY <1>4, BuildKeeps
<1>5. CASE UNCHANGED vars
  <2>1. UNCHANGED <<origin, index, discIdx, lowLink, stack, dfsStack, components, nodeToComp,
                    componentGraph>>
    BY <1>5 DEF vars, search
  <2>2. \A v, w : Reaches(v, w)' <=> Reaches(v, w)
    BY <2>1, SameReach
  <2>3. /\ Visited' = Visited /\ OnStack' = OnStack /\ Path' = Path /\ Found' = Found
        /\ \A v : Done(v)' = Done(v)
    BY <2>1 DEF Visited, OnStack, Path, Found, Done, Adjacent
  <2>4. Types' /\ Order'
    BY <2>1, <2>3, ZenonT(30) DEF TarjanInv, Types, Order
  <2>5. LowLinks'
    BY <2>1, <2>2, <2>3 DEF TarjanInv, LowLinks
  <2>6. Tree'
    BY <2>1, <2>2, <2>3 DEF TarjanInv, Tree
  <2>7. FoundInv'
    BY <2>1, <2>2, <2>3 DEF TarjanInv, FoundInv
  <2> QED BY <2>4, <2>5, <2>6, <2>7 DEF TarjanInv
<1> QED BY <1>1, <1>2, <1>3, <1>4, <1>5 DEF Next

\* The components the invariant speaks of are those of ComponentsExact.
LEMMA TarjanExact == TarjanInv => ComponentsExact
<1> SUFFICES ASSUME TarjanInv, NEW i \in DOMAIN components
             PROVE  /\ components[i] # {} /\ components[i] \cap OnStack = {}
                    /\ \A v \in components[i] :
                          /\ components[i] =
                                {w \in [u \in origin.nodes |-> ReachOf(origin, u, "outbound")][v] :
                                   v \in [u \in origin.nodes |-> ReachOf(origin, u, "outbound")][w]}
                          /\ nodeToComp[v] = i - 1
  BY DEF ComponentsExact
<1>1. /\ components[i] # {} /\ components[i] \subseteq Found
      /\ \A v \in components[i] :
            /\ nodeToComp[v] = i - 1
            /\ components[i] = {w \in origin.nodes : Reaches(v, w) /\ Reaches(w, v)}
      /\ OnStack \cap Found = {} /\ Found \subseteq origin.nodes
  BY ZenonT(30) DEF TarjanInv, FoundInv, Types
<1>2. ASSUME NEW v \in components[i]
      PROVE  components[i] =
                {w \in [u \in origin.nodes |-> ReachOf(origin, u, "outbound")][v] :
                   v \in [u \in origin.nodes |-> ReachOf(origin, u, "outbound")][w]}
  <2>1. v \in origin.nodes /\ ReachOf(origin, v, "outbound") \subseteq origin.nodes
    BY <1>1 DEF ReachOf
  <2>2. components[i] = {w \in origin.nodes : Reaches(v, w) /\ Reaches(w, v)}
    BY <1>1
  <2> QED BY <2>1, <2>2 DEF Reaches
<1> QED BY <1>1, <1>2

-----------------------------------------------------------------------------
(* The whole.                                                              *)

GraphInv ==
    /\ TarjanInv /\ SearchInv
    /\ IF componentGraph = NotBuilt THEN NoSearch ELSE digraph = Rows(componentGraph.digraph)

\* The invariant holds before the search starts.
LEMMA GraphInitInv == GraphInit => GraphInv
BY TarjanInit, SearchInit DEF GraphInit, GraphInv, Init

\* The construction leaves the searches alone, the searches the construction.
LEMMA GraphStep == GraphInv /\ [GraphNext]_allVars => GraphInv'
<1> SUFFICES ASSUME GraphInv, [GraphNext]_allVars PROVE GraphInv'
  OBVIOUS
<1>1. ASSUME Next, UNCHANGED <<call, queues, answer>>,
             digraph' = IF componentGraph' = NotBuilt THEN digraph
                        ELSE Rows(componentGraph'.digraph)
      PROVE  GraphInv'
  <2>1. TarjanInv'
    BY <1>1, TarjanStep DEF GraphInv
  <2>2. componentGraph = NotBuilt
    BY <1>1, ZenonT(30) DEF GraphInv, TarjanInv, FoundInv, Next, Start, Branch, Finish, NewComponentGraph
  <2>3. NoSearch'
    BY <1>1, <2>2 DEF GraphInv, NoSearch, queues
  <2>4. SearchInv'
    BY <2>3 DEF NoSearch, SearchInv, SearchTypeOK, Calls, Idle, SearchExact
  <2> QED BY <1>1, <2>1, <2>3, <2>4 DEF GraphInv
<1>2. ASSUME componentGraph # NotBuilt, SearchNext, UNCHANGED vars
      PROVE  GraphInv'
  <2>1. TarjanInv'
    BY <1>2, TarjanStep DEF GraphInv
  <2>2. SearchInv'
    BY <1>2, SearchStep DEF GraphInv
  <2>3. digraph' = digraph /\ componentGraph' = componentGraph
    BY <1>2 DEF SearchNext, vars, Begin, ExpandOutbound, ExpandInbound, Search, Exhausted,
                SearchedAll, Return
  <2> QED BY <1>2, <2>1, <2>2, <2>3 DEF GraphInv
<1>3. CASE UNCHANGED allVars
  <2>1. UNCHANGED vars /\ UNCHANGED searchVars
    BY <1>3 DEF allVars
  <2>2. TarjanInv' /\ SearchInv'
    BY <2>1, TarjanStep, SearchStep DEF GraphInv
  <2>3. /\ UNCHANGED <<componentGraph, digraph, call, answer, outboundQueue, outboundSeen,
                       inboundQueue, inboundSeen>>
    BY <2>1 DEF vars, searchVars, queues
  <2> QED BY <2>2, <2>3 DEF GraphInv, NoSearch
<1> QED BY <1>1, <1>2, <1>3 DEF GraphNext

\* The answer for two components is the one for their nodes.
LEMMA AnswersLift == GraphInv /\ BuiltIsComponentGraph => CanReachExact
<1> SUFFICES ASSUME GraphInv, BuiltIsComponentGraph, answer # "none",
                    NEW v \in components[call.start + 1], NEW w \in components[call.end + 1]
             PROVE  /\ CanReach => w \in ReachOf(origin, v, call.direction)
                    /\ ~componentGraph.interrupted =>
                          (w \in ReachOf(origin, v, call.direction) => CanReach)
  BY DEF CanReachExact
<1>1. call # Idle /\ componentGraph # NotBuilt
  BY DEF GraphInv, SearchInv, NoSearch
<1>2. TarjanInv /\ Lifted
  BY <1>1, RowsLifted DEF GraphInv
<1>3. /\ call.start \in CompIDs /\ call.end \in CompIDs /\ call.direction \in Direction
  BY <1>1, <1>2, CallTypes DEF GraphInv, SearchInv, Lifted
<1>4. CanReach <=> call.end \in ReachOf(digraph, call.start, call.direction)
  BY DEF GraphInv, SearchInv, SearchExact, CanReach
<1> QED BY <1>1, <1>2, <1>3, <1>4, PathDown, PathUp

\* The invariant of the search, the construction and the queries.
LEMMA GraphInvariant == GraphSpec => []GraphInv
BY GraphInitInv, GraphStep, PTL DEF GraphSpec

\* For every digraph and every order of enumeration, a component Tarjan's
\* algorithm has found is the whole set of nodes on a common cycle.
THEOREM TarjanIsExact == GraphSpec => []ComponentsExact
<1>1. GraphInv => ComponentsExact
  BY TarjanExact DEF GraphInv
<1> QED BY GraphInvariant, <1>1, PTL

\* ComponentReachable and ComponentSearch answer yes exactly when a path in the
\* direction of the call leads from the start to the end of the built graph.
THEOREM SearchIsExact == GraphSpec => []SearchExact
<1>1. GraphInv => SearchExact
  BY DEF GraphInv, SearchInv
<1> QED BY GraphInvariant, <1>1, PTL

\* Whenever the rows of the built graph are the edges between components, the
\* answer of CanReach for two nodes of the origin graph is that of the origin
\* graph itself, and of an interrupted construction it errs towards no only.
THEOREM CanReachIsExact == GraphSpec => [](BuiltIsComponentGraph => CanReachExact)
<1>1. GraphInv => (BuiltIsComponentGraph => CanReachExact)
  BY AnswersLift
<1> QED BY GraphInvariant, <1>1, PTL
=============================================================================
