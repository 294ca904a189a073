-------------------------- MODULE MCSchemaManager --------------------------
(***************************************************************************)
(* SchemaManager for TLC: goroutines are interchangeable, and so are kinds. *)
(***************************************************************************)
EXTENDS SchemaManager, TLC

Symmetry == Permutations(Actor) \cup Permutations(Kind)
=============================================================================
