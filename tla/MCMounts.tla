----------------------------- MODULE MCMounts -------------------------------
(* A map of few entries.                                                   *)
EXTENDS Mounts, TLC

Symmetries ==
  Permutations(Threads) \cup Permutations(Bdevs) \cup Permutations(Caches)
    \cup Permutations(Supers)
=============================================================================
