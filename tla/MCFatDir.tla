------------------------------ MODULE MCFatDir ------------------------------
(* Directories with few slots on a small volume.                           *)
EXTENDS FatDir, TLC

\* Bound: on a volume with old bytes one file is open at a time.
OneOpenIfAged == aged => \E h \in Handles : handles[h] = Closed

Symmetries ==
  Permutations(Clusters) \cup Permutations(Handles) \cup Permutations(Names)
=============================================================================
