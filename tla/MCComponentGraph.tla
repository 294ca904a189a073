-------------------------- MODULE MCComponentGraph --------------------------
(***************************************************************************)
(* Every digraph of four nodes without loops.  A loop adds a branch that   *)
(* finds its own node on the stack and changes nothing.                    *)
(***************************************************************************)
EXTENDS ComponentGraph, TLC

CONSTANTS n1, n2, n3, n4

N == {n1, n2, n3, n4}
SmallDigraphs == [nodes : {N}, edges : SUBSET {e \in N \X N : e[1] # e[2]}]
Symmetry == Permutations(N)

\* Queries run over graphs whose construction was not interrupted; what an
\* interrupted one is like is checked when it is built.
QueriesOverWhole == componentGraph # NotBuilt => ~componentGraph.interrupted
=============================================================================
