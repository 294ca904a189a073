--------------------------- MODULE ComponentGraph ---------------------------
(***************************************************************************)
(* NewComponentGraph followed by the queries of the component graph it     *)
(* returns: the searches of ComponentSearch run over the built rows, for   *)
(* the components of two nodes of the origin graph (CanReach of reach.go   *)
(* and OriginReachable of scc.go).                                         *)
(***************************************************************************)
EXTENDS StrongComponents, ComponentSearch

allVars == <<vars, searchVars>>

\* The component graph as its outbound rows show it.
Rows(g) ==
    [nodes |-> Range(g.ids),
     edges |-> UNION {{<<c, d>> : d \in Range(csrRange(g, c, "outbound"))} : c \in Range(g.ids)}]

GraphInit == Init /\ digraph = [nodes |-> {}, edges |-> {}] /\ NoSearch

GraphNext ==
    \/ /\ Next /\ UNCHANGED <<call, queues, answer>>
       /\ digraph' = IF componentGraph' = NotBuilt THEN digraph ELSE Rows(componentGraph'.digraph)
    \/ /\ componentGraph # NotBuilt
       /\ SearchNext /\ UNCHANGED vars

GraphSpec == GraphInit /\ [][GraphNext]_allVars
-----------------------------------------------------------------------------
\* The answer for two nodes of the origin graph is the one for their components.
\* An ID that is in no component is answered with no, without a search.
CanReach == answer = "yes"

\* CanReach answers for nodes of the origin graph: yes exactly when a path in
\* the direction of the call leads from one node to the other.  A component
\* graph whose construction was interrupted only errs towards no.
CanReachExact ==
    answer # "none" =>
        \A v \in components[call.start + 1], w \in components[call.end + 1] :
            LET path == w \in ReachOf(origin, v, call.direction) IN
            /\ CanReach => path
            /\ ~componentGraph.interrupted => (path => CanReach)
=============================================================================
