------------------------------ MODULE PathWalk ------------------------------
(***************************************************************************)
(* Paths: ufs_path_walk and ufs_path_parent of vfs/src/path.c and          *)
(* ufs_path_split of dentry.c.                                             *)
(*                                                                         *)
(* A path is a sequence of tokens, "/" or a component; two components are  *)
(* never next to each other.  IsDir and Find stand for the inodes and for  *)
(* i_op->lookup of the file system; Find gives Nothing for -ENOENT.        *)
(***************************************************************************)
EXTENDS Integers, SequencesExt

CONSTANTS Start,        \* the root inode
          Nothing,      \* every error
          IsDir(_),
          Find(_, _)

Slashes(path) == {i \in DOMAIN path : path[i] = "/"}

\* One turn of the loop.  Slashes are skipped, and "." stays, also at a file.
Descend(cur, token) ==
  IF cur = Nothing \/ token \in {"/", "."} THEN cur
  ELSE IF IsDir(cur) THEN Find(cur, token) ELSE Nothing

\* Where the loop is after each token.
Visited(path) ==
  LET at[k \in 0 .. Len(path)] ==
        IF k = 0 THEN Start ELSE Descend(at[k - 1], path[k])
  IN at

\* A slash at the end, after a component, asks for a directory.
MustBeDir(path) == DOMAIN path # Slashes(path) /\ Last(path) = "/"

\* ufs_path_resolve: ufs_path_walk from the root inode.
Walk(path) ==
  LET found == Visited(path)[Len(path)] IN
  IF found # Nothing /\ MustBeDir(path) /\ ~ IsDir(found) THEN Nothing ELSE found

\* ufs_path_split skips the slashes at the beginning.
Stripped(path) ==
  LET names == DOMAIN path \ Slashes(path) IN
  IF names = {} THEN << >> ELSE SubSeq(path, Min(names), Len(path))

\* Mutant of Cut: the search for the last slash finds the first one.
CutAtFirst(path) == IF Slashes(path) = {} THEN 0 ELSE Min(Slashes(path))

\* Where the last slash is; 0 if there is none.
Cut(path) == Max(Slashes(path) \cup {0})

\* ufs_path_split: what is left of the last slash, and what is right of it,
\* which is nothing for the root and for a path that ends in a slash.
ParentPath(path) == SubSeq(Stripped(path), 1, Cut(Stripped(path)) - 1)
Leaf(path) == SubSeq(Stripped(path), Cut(Stripped(path)) + 1, Len(Stripped(path)))

\* ufs_path_parent
Parent(path) == IF Leaf(path) = << >> THEN Start ELSE Walk(ParentPath(path))
=============================================================================
