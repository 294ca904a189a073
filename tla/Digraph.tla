------------------------------ MODULE Digraph ------------------------------
(***************************************************************************)
(* Directed graphs as src/container presents them to its callers (the      *)
(* interface DirectedGraph of digraph.go): nodes, and for every node its   *)
(* neighbours in a direction.  A digraph is a record of its nodes and its  *)
(* edges, which are pairs.                                                 *)
(***************************************************************************)

Direction == {"inbound", "outbound", "both"}

ReverseDirection(dir) == CASE dir = "inbound" -> "outbound"
                  [] dir = "outbound" -> "inbound"
                  [] OTHER -> "both"

IsDigraph(g) == /\ g = [nodes |-> g.nodes, edges |-> g.edges]
                /\ g.edges \subseteq g.nodes \X g.nodes

\* An edge that leads from m to n for a traversal in the direction dir.
Arc(g, m, n, dir) == \/ dir # "inbound" /\ <<m, n>> \in g.edges
                     \/ dir # "outbound" /\ <<n, m>> \in g.edges

\* What EachAdjacentNode(node, dir) enumerates.
AdjacentNodes(g, node, dir) == {n \in g.nodes : Arc(g, node, n, dir)}

-----------------------------------------------------------------------------
(* The reference the searches are measured against.                        *)

\* No arc leads out of S.
Closed(g, S, dir) == \A n \in S : AdjacentNodes(g, n, dir) \subseteq S

ClosedAround(g, node, dir) == {S \in SUBSET g.nodes : node \in S /\ Closed(g, S, dir)}

\* The nodes on some path from node, node itself included: what every closed
\* set around node contains.
ReachOf(g, node, dir) ==
    LET around == ClosedAround(g, node, dir)
    IN {n \in g.nodes : \A S \in around : n \in S}
=============================================================================
