---------------------------- MODULE MCTraversal ----------------------------
(* A root alone, a fork, and a fork with a path below one of its branches. *)
EXTENDS Traversal, TLC

CONSTANTS r, a, b, c
Nothing == [s \in Segment |-> <<>>]
Fork == r :> <<a, b>> @@ Nothing
Deep == r :> <<a, b>> @@ a :> <<c>> @@ Nothing
SmallTrees == {Nothing, Fork, Deep}
=============================================================================
