------------------------------ MODULE MCBcache ------------------------------
(* Instances of Bcache for TLC. *)
EXTENDS Bcache, TLC

\* Nothing but the LRU list orders the buffers, and nothing orders the rest.
Symmetry ==
  Permutations(Procs) \cup Permutations(Blocks) \cup Permutations(Values)
    \cup Permutations(Bufs)
=============================================================================
