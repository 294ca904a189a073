------------------------------ MODULE MCSieve ------------------------------
(***************************************************************************)
(* The loop of evict, step by step, against the closed form the Sieve      *)
(* module uses.                                                            *)
(***************************************************************************)
EXTENDS Sieve

\* The loop of evict from index h with the visited flags vis: where it stops
\* and the flags it leaves.
RECURSIVE EvictLoop(_, _)
EvictLoop(h, vis) ==
    IF queue[h] \in vis
    THEN EvictLoop(IF h = 1 THEN Len(queue) ELSE h - 1, vis \ {queue[h]})
    ELSE <<h, vis>>

\* In every reachable state evict stops where the loop stops, having cleared
\* the flags the loop clears: the loop terminates, wraps around at the front
\* and never clears the flag of an entry it does not pass.
EvictMatchesLoop ==
    queue # << >> =>
        EvictLoop(HandIndex, visited) = <<VictimIndex, visited \ Cleared>>
=============================================================================
