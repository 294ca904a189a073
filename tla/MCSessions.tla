----------------------------- MODULE MCSessions -----------------------------
(***************************************************************************)
(* Sessions for TLC: goroutines and kinds are interchangeable.  Two IDs    *)
(* are drawn from the sequences, and one thing goes wrong.                 *)
(***************************************************************************)
EXTENDS Sessions, TLC

Symmetry == Permutations(Actor) \cup Permutations(Kind)
Bound == nextID + graphID <= 4 /\ failures + rollbacks <= 1
=============================================================================
