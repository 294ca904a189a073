-------------------------- MODULE StrongComponents --------------------------
(***************************************************************************)
(* StronglyConnectedComponents of src/algo/scc.go: Tarjan's algorithm with *)
(* an explicit stack of cursors, one step per turn of its loop, and the    *)
(* component graph NewComponentGraph builds from the result with the       *)
(* compressed sparse row builder of src/container/csr.go.                  *)
(*                                                                         *)
(* A container enumerates its nodes and neighbours in an order of its own, *)
(* so any unvisited node may be the next start and any remaining branch of *)
(* a cursor the next one.                                                  *)
(***************************************************************************)
EXTENDS Integers, Sequences, FiniteSets, FiniteSetsExt, Digraph, CSRDigraph

CONSTANT Origins    \* the digraphs the algorithm may be given

ASSUME OriginsAssumption == \A g \in Origins : IsDigraph(g)

VARIABLES
    origin,         \* the digraph
    index,          \* discovery counter
    discIdx,        \* discovery index of the visited nodes
    lowLink,
    stack,          \* Tarjan's stack
    dfsStack,       \* cursors: a node and the branches it has left
    components,     \* the components found, in order; component i is components[i + 1]
    nodeToComp,     \* the component of a node that has one
    componentGraph  \* the built component graph, or NotBuilt

search == <<index, discIdx, lowLink, stack, dfsStack>>
vars == <<origin, search, components, nodeToComp, componentGraph>>

NotBuilt == [built |-> FALSE]

Init ==
    /\ origin \in Origins
    /\ index = 0 /\ discIdx = << >> /\ lowLink = << >> /\ stack = << >> /\ dfsStack = << >>
    /\ components = << >> /\ nodeToComp = << >>
    /\ componentGraph = NotBuilt

Visited == DOMAIN discIdx
OnStack == Range(stack)
Top == dfsStack[Len(dfsStack)]

\* The function f with the value v at x.
With(f, x, v) == [y \in DOMAIN f \cup {x} |-> IF y = x THEN v ELSE f[y]]

tarjanPush(v) ==
    /\ discIdx' = With(discIdx, v, index) /\ lowLink' = With(lowLink, v, index)
    /\ index' = index + 1
    /\ stack' = Append(stack, v)

Cursor(v) == [id |-> v, branches |-> AdjacentNodes(origin, v, "outbound")]

\* EachNode reaches a node no search has visited.
Start(v) ==
    /\ componentGraph = NotBuilt /\ dfsStack = << >>
    /\ v \in origin.nodes \ Visited
    /\ dfsStack' = <<Cursor(v)>>
    /\ tarjanPush(v)
    /\ UNCHANGED <<origin, components, nodeToComp, componentGraph>>

\* A bug: the low-link is taken from any visited neighbour.
BackEdgeToVisited(n) == n \in Visited

\* A neighbour that is still on Tarjan's stack.
BackEdge(n) == n \in OnStack

\* The next neighbour of the cursor on top: descend into it when it is new,
\* note the back edge when it is on the stack.
Branch(n) ==
    /\ dfsStack # << >> /\ n \in Top.branches
    /\ LET rest == [dfsStack EXCEPT ![Len(dfsStack)].branches = @ \ {n}] IN
       IF n \notin Visited
       THEN /\ dfsStack' = Append(rest, Cursor(n))
            /\ tarjanPush(n)
       ELSE /\ dfsStack' = rest
            /\ lowLink' = IF BackEdge(n) /\ lowLink[Top.id] > discIdx[n]
                          THEN [lowLink EXCEPT ![Top.id] = discIdx[n]]
                          ELSE lowLink
            /\ UNCHANGED <<index, discIdx, stack>>
    /\ UNCHANGED <<origin, components, nodeToComp, componentGraph>>

\* The low-link of the finished cursor is passed to its parent.
Propagated ==
    IF Len(dfsStack) = 1 THEN lowLink
    ELSE [lowLink EXCEPT ![dfsStack[Len(dfsStack) - 1].id] = Min({@, lowLink[Top.id]})]

\* What is popped from Tarjan's stack down to and including v.
Unwound(v) == SubSeq(stack, CHOOSE i \in DOMAIN stack : stack[i] = v, Len(stack))

\* A cursor without branches is popped; when its node is the root of a
\* component the stack is unwound down to it.
Finish ==
    /\ dfsStack # << >> /\ Top.branches = {}
    /\ dfsStack' = SubSeq(dfsStack, 1, Len(dfsStack) - 1)
    /\ lowLink' = Propagated
    /\ IF lowLink[Top.id] = discIdx[Top.id]
       THEN LET comp == Range(Unwound(Top.id)) IN
            /\ stack' = SubSeq(stack, 1, Len(stack) - Len(Unwound(Top.id)))
            /\ components' = Append(components, comp)
            /\ nodeToComp' = [v \in DOMAIN nodeToComp \cup comp |->
                                IF v \in comp THEN Len(components) ELSE nodeToComp[v]]
       ELSE UNCHANGED <<stack, components, nodeToComp>>
    /\ UNCHANGED <<origin, index, discIdx, componentGraph>>

\* A bug: an edge is added from the end it leads to.
ComponentEdgesReversed ==
    {<<nodeToComp[e[2]], nodeToComp[e[1]]>> :
        e \in {d \in origin.edges : nodeToComp[d[1]] # nodeToComp[d[2]]}}

\* The edges between components that the enumeration of every node's
\* neighbours in both directions gives.
ComponentEdges ==
    {<<nodeToComp[e[1]], nodeToComp[e[2]]>> :
        e \in {d \in origin.edges : nodeToComp[d[1]] # nodeToComp[d[2]]}}

\* NewComponentGraph registers all components in order, then adds the edges.
ComponentBuilder(edges) ==
    FoldSet(LAMBDA e, b : AddEdge(b, e[1], e[2]),
            MapThenFoldSet(LAMBDA id, b : ensureNode(b, id), NewCSRDigraphBuilder,
                           LAMBDA i : i - 1, Max, DOMAIN components),
            edges)

\* When the context ends the enumeration stops early and says nothing of it:
\* the graph has some of the edges.
NewComponentGraph ==
    /\ componentGraph = NotBuilt /\ dfsStack = << >> /\ Visited = origin.nodes
    /\ \E edges \in SUBSET ComponentEdges :
          componentGraph' = [built |-> TRUE, interrupted |-> edges # ComponentEdges,
                             digraph |-> Build(ComponentBuilder(edges))]
    /\ index' = 0 /\ discIdx' = << >> /\ lowLink' = << >>    \* out of scope
    /\ UNCHANGED <<origin, stack, dfsStack, components, nodeToComp>>

Next ==
    \/ \E v \in origin.nodes : Start(v) \/ Branch(v)
    \/ Finish
    \/ NewComponentGraph

Spec == Init /\ [][Next]_vars
-----------------------------------------------------------------------------
\* A component is final when it is found, long before the search ends: it is
\* the whole set of nodes on a common cycle with any of its members, its
\* members are in no other component and on the stack no more.
ComponentsExact ==
    LET reach == [v \in origin.nodes |-> ReachOf(origin, v, "outbound")] IN
    \A i \in DOMAIN components :
        /\ components[i] # {} /\ components[i] \cap OnStack = {}
        /\ \A v \in components[i] :
              /\ components[i] = {w \in reach[v] : v \in reach[w]}
              /\ nodeToComp[v] = i - 1

\* The component graph a caller gets has every component as a node, its rows
\* enumerate the neighbours in each direction once, and the two copies of an
\* edge, the outbound and the inbound one, agree.
BuiltIsComponentGraph ==
    componentGraph # NotBuilt =>
        LET g == componentGraph.digraph
            Comp == {i - 1 : i \in DOMAIN components}
            out == [c \in Comp |-> csrRange(g, c, "outbound")]
            in == [c \in Comp |-> csrRange(g, c, "inbound")]
            outEdges == {e \in Comp \X Comp : e[2] \in Range(out[e[1]])}
            inEdges == {e \in Comp \X Comp : e[1] \in Range(in[e[2]])}
        IN /\ Range(g.ids) = Comp /\ IsInjective(g.ids)
           /\ \A c \in Comp : IsInjective(out[c]) /\ IsInjective(in[c])
           /\ outEdges = inEdges /\ outEdges \subseteq ComponentEdges
           /\ ~componentGraph.interrupted => outEdges = ComponentEdges
=============================================================================
