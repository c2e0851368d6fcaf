--------------------------- MODULE MCClusterCache ---------------------------
(* The cluster chain cache on small chains.                                *)
EXTENDS ClusterCache

\* A new file, which grows in any order, and a damaged one:
\* 2 -> 3 -> 5 -> 3.
MCChains == {<<>>, <<2, 3, 5, 3, 5, 3, 5>>}

\* Bound: the first cluster is i_start, never in a cached run, so that its number
\* makes no difference.
StartsAtTwo == chain # <<>> => chain[1] = 2
=============================================================================
