--------------------------- MODULE MCBufferCache ---------------------------
(* The buffer cache on small instances.                                    *)
EXTENDS BufferCache

\* The runs on references and the LRU list do not look at contents.
SymmetryAll == Permutations(Clients) \cup Permutations(Blocks)
=============================================================================
