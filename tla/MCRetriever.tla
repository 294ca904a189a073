---------------------------- MODULE MCRetriever ----------------------------
(* The databases that TLC dumps and loads: a first graph of up to four nodes *)
(* and three relationships, one of them once without its node, and a second *)
(* one that is empty or has a node related to itself.  Other clients of the *)
(* target have taken the IDs 2 to 10 from its sequence.                     *)
EXTENDS Retriever

Pairs == [e \in ID |-> CASE e = 0 -> <<0, 1>> [] e = 1 -> <<1, 0>> [] e = 2 -> <<1, 2>> [] OTHER -> <<0, 0>>]
Graph(n, e) == [nodes |-> n, edges |-> e]
First == {Graph({0, 1, 2, 3}, {0, 1, 2}), Graph({1, 2}, {2}), Graph({1}, {2}), Graph({0}, {}), Graph({}, {})}
AllSources == {<<g, h>> : g \in First, h \in {Graph({}, {}), Graph({0}, {3})}}
Sequence(n) == IF n = 1 THEN 1 ELSE 9 + n

\* A load reads the manifest and the fragments only: those that follow a dump
\* with at most one interruption and no change stand for the others (ExactDump).
LoadsUndisturbed == at # "idle" \/ damage # None => interruptions <= 1 /\ changes = 0
=============================================================================
