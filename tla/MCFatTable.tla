----------------------------- MODULE MCFatTable -----------------------------
(* The file allocation table on small volumes.                             *)
EXTENDS FatTable

\* No hint, a cluster beyond the end, the least number that is too large for an
\* int with one added, and 0xffffffff: FSINFO does not know.
MCHints == {0, MaxCluster + 3, Word \div 2 - 1, Word - 1}

\* One bad cluster, or only the first and the last ones good.
MCVolumes ==
  {[bad |-> {3}, faulty |-> FALSE],
   [bad |-> 3 .. MaxCluster - 2, faulty |-> TRUE]}

\* Nothing fails.
MCSound == {[bad |-> {}, faulty |-> FALSE]}
=============================================================================
