------------------------------ MODULE NameTree ------------------------------
(***************************************************************************)
(* What a volume promises a careful caller: a tree.  A file or directory   *)
(* is made in a directory and under a name that is not in use there, only  *)
(* what has nothing below it is removed, and what is moved keeps all that  *)
(* is below it.                                                            *)
(***************************************************************************)
EXTENDS FiniteSets, Integers

CONSTANTS Nodes,  \* files and directories
          Top,    \* the root directory
          Names

VARIABLE tree     \* where each node is, under which name, and its kind

Place == [node : Nodes, parent : Nodes \cup {Top}, name : Names, kind : {"file", "dir"}]

Init == tree = {}

\* In the tree t there is the directory of p, and its name is not in use there.
Vacant(t, p) ==
  /\ p.parent = Top \/ \E r \in t : r.node = p.parent /\ r.kind = "dir"
  /\ \A r \in t : r.parent = p.parent => r.name # p.name

IsLeaf(t, p) == \A r \in t : r.parent # p.node

\* n and everything below it, which is in every set that has n and, with a
\* node, what is in it.
Subtree(t, n) ==
  {m \in Nodes : \A S \in SUBSET Nodes :
     n \in S /\ (\A r \in t : r.parent \in S => r.node \in S) => m \in S}

\* From the tree t to the tree u.
Make(t, u, p) ==
  /\ u = t \cup {p}
  /\ \A r \in t : r.node # p.node
  /\ Vacant(t, p)

Delete(t, u, p) ==
  /\ u = t \ {p}
  /\ IsLeaf(t, p)

Move(t, u, p, q) ==
  /\ u = (t \ {p}) \cup {q}
  /\ q.node = p.node /\ q.kind = p.kind
  /\ Vacant(t, q)
  /\ q.parent \notin Subtree(t, p.node)

Change(t, u) ==
  \/ \E p \in u \ t : p \in Place /\ Make(t, u, p)
  \/ \E p \in t \ u : Delete(t, u, p)
  \/ \E p \in t \ u, q \in u \ t : q \in Place /\ Move(t, u, p, q)

\* The trees before and after the step.
Next == \E t \in {tree}, u \in {tree'} : Change(t, u)

Spec == Init /\ [][Next]_tree
=============================================================================
