-------------------------- MODULE ComponentSearch --------------------------
(***************************************************************************)
(* The two searches of src/algo/scc.go for a path between two components:  *)
(* ComponentReachable, which searches from both ends and always expands    *)
(* the end with the shorter queue, and ComponentSearch, which searches     *)
(* from the start alone.                                                   *)
(*                                                                         *)
(* A step expands one component: the whole enumeration of its neighbours.  *)
(* The order in which a container enumerates them is left open, and with   *)
(* it the order of a queue, so a queue is the set of its components and    *)
(* any of them may leave.  A hit ends the call, so what the code adds to   *)
(* its bitmaps during the enumeration that meets it does not matter.       *)
(***************************************************************************)
EXTENDS FiniteSets, Naturals, Digraph

VARIABLES
    digraph,                      \* the component graph
    call,                         \* the arguments, or Idle
    outboundQueue, outboundSeen,  \* what is to be expanded, and was met, from the start
    inboundQueue, inboundSeen,    \* the same from the end
    answer                        \* "none" while the call runs

queues == <<outboundQueue, outboundSeen, inboundQueue, inboundSeen>>
searchVars == <<digraph, call, queues, answer>>

Idle == [method |-> "none"]
Calls == [method : {"ComponentReachable", "ComponentSearch"}, start : digraph.nodes,
          end : digraph.nodes, direction : Direction]

NoSearch ==
    /\ call = Idle /\ answer = "none"
    /\ outboundQueue = {} /\ outboundSeen = {} /\ inboundQueue = {} /\ inboundSeen = {}

Running(method) == call # Idle /\ call.method = method /\ answer = "none"

\* ComponentSearch does not mark its start as met.
Begin(c) ==
    /\ call = Idle
    /\ call' = c
    /\ outboundQueue' = {c.start}
    /\ IF c.method = "ComponentReachable"
       THEN outboundSeen' = {c.start} /\ inboundQueue' = {c.end} /\ inboundSeen' = {c.end}
       ELSE UNCHANGED <<outboundSeen, inboundQueue, inboundSeen>>
    /\ answer' = IF c.start = c.end THEN "yes" ELSE "none"
    /\ UNCHANGED digraph

\* The end with the shorter queue is expanded, the start on a tie.
OutboundNext == outboundQueue # {} /\ Cardinality(outboundQueue) <= Cardinality(inboundQueue)

\* What the expansion of next from the start meets for the first time.
NewOutbound(next) == AdjacentNodes(digraph, next, call.direction) \ outboundSeen

\* A bug: the inbound side is expanded in the direction of the call.
NewInboundForward(next) == AdjacentNodes(digraph, next, call.direction) \ inboundSeen

NewInbound(next) == AdjacentNodes(digraph, next, ReverseDirection(call.direction)) \ inboundSeen

\* The code also skips a component it has expanded before; none is queued twice.
ExpandOutbound(next) ==
    /\ Running("ComponentReachable") /\ OutboundNext
    /\ next \in outboundQueue
    /\ IF NewOutbound(next) \cap inboundSeen # {}
       THEN answer' = "yes" /\ UNCHANGED <<outboundQueue, outboundSeen>>
       ELSE /\ outboundQueue' = (outboundQueue \ {next}) \cup NewOutbound(next)
            /\ outboundSeen' = outboundSeen \cup NewOutbound(next)
            /\ UNCHANGED answer
    /\ UNCHANGED <<digraph, call, inboundQueue, inboundSeen>>

ExpandInbound(next) ==
    /\ Running("ComponentReachable") /\ ~OutboundNext
    /\ next \in inboundQueue
    /\ IF NewInbound(next) \cap outboundSeen # {}
       THEN answer' = "yes" /\ UNCHANGED <<inboundQueue, inboundSeen>>
       ELSE /\ inboundQueue' = (inboundQueue \ {next}) \cup NewInbound(next)
            /\ inboundSeen' = inboundSeen \cup NewInbound(next)
            /\ UNCHANGED answer
    /\ UNCHANGED <<digraph, call, outboundQueue, outboundSeen>>

\* No more expansions remain.
Exhausted ==
    /\ Running("ComponentReachable") /\ ~OutboundNext /\ inboundQueue = {}
    /\ answer' = "no"
    /\ UNCHANGED <<digraph, call, queues>>

\* ComponentSearch: the loop over its one queue.
Search(next) ==
    /\ Running("ComponentSearch")
    /\ next \in outboundQueue
    /\ IF call.end \in AdjacentNodes(digraph, next, call.direction)
       THEN answer' = "yes" /\ UNCHANGED <<outboundQueue, outboundSeen>>
       ELSE /\ outboundQueue' = (outboundQueue \ {next}) \cup NewOutbound(next)
            /\ outboundSeen' = outboundSeen \cup NewOutbound(next)
            /\ UNCHANGED answer
    /\ UNCHANGED <<digraph, call, inboundQueue, inboundSeen>>

SearchedAll ==
    /\ Running("ComponentSearch") /\ outboundQueue = {}
    /\ answer' = "no"
    /\ UNCHANGED <<digraph, call, queues>>

Return ==
    /\ answer # "none"
    /\ call' = Idle /\ answer' = "none"
    /\ outboundQueue' = {} /\ outboundSeen' = {} /\ inboundQueue' = {} /\ inboundSeen' = {}
    /\ UNCHANGED digraph

SearchNext ==
    \/ \E c \in Calls : Begin(c)
    \/ \E n \in digraph.nodes : ExpandOutbound(n) \/ ExpandInbound(n) \/ Search(n)
    \/ Exhausted \/ SearchedAll \/ Return
-----------------------------------------------------------------------------
SearchTypeOK ==
    /\ call \in Calls \cup {Idle}
    /\ outboundQueue \subseteq digraph.nodes /\ outboundSeen \subseteq digraph.nodes
    /\ inboundQueue \subseteq digraph.nodes /\ inboundSeen \subseteq digraph.nodes
    /\ answer \in {"none", "yes", "no"}

\* Both searches answer yes exactly when a path in the direction of the call
\* leads from the start to the end, whichever side is expanded and although
\* the search from both ends stops when the inbound side has nothing left
\* while the outbound side has.
SearchExact ==
    answer # "none" =>
        (answer = "yes" <=> call.end \in ReachOf(digraph, call.start, call.direction))
=============================================================================
