------------------------ MODULE MCReachabilityCache ------------------------
(***************************************************************************)
(* Component graphs in which two branches meet, the shape that makes the   *)
(* search skip components, and a chain, for two concurrent callers; and every acyclic   *)
(* graph of four components for one caller.                                *)
(***************************************************************************)
EXTENDS ReachabilityCache, TLC

CONSTANTS p, q

Diamond == {<<1, 0>>, <<2, 1>>, <<3, 1>>, <<3, 2>>}
Wide == {<<1, 0>>, <<2, 0>>, <<3, 1>>, <<3, 2>>}
Chain == {<<1, 0>>, <<2, 1>>, <<3, 2>>}
Meeting == {Diamond, Wide, Diamond \cup Wide, Chain}
Acyclic == SUBSET {e \in Component \X Component : e[2] < e[1]}
Symmetry == Permutations(Caller)
=============================================================================
