----------------------------- MODULE MCFatTree ------------------------------
(* A tree of few clusters, with names that get shortened.                  *)
EXTENDS FatTree, TLC

\* "long" is cut to "b".
Shorten == ("a" :> "a") @@ ("b" :> "b") @@ ("long" :> "b")

\* All sequences of at most four tokens without two components in a row.
Texts ==
  {path \in UNION {[1 .. k -> {"a", "b", "/", ".", ".."}] : k \in 0 .. 4} :
     \A i \in 1 .. Len(path) - 1 : path[i] = "/" \/ path[i + 1] = "/"}

\* Free at both ends, so that an entry goes before or after the other bytes.
Blanks == {<<Empty, Other, Empty>>}

Symmetries == Permutations(Clusters)
=============================================================================
