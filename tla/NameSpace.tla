------------------------------ MODULE NameSpace ------------------------------
(***************************************************************************)
(* What a directory promises a careful user, one who does not reuse a name *)
(* that is taken and closes a file before removing or renaming it: a map   *)
(* from names to file sizes, in which an operation on one name leaves the  *)
(* others alone and a file keeps its size when its name changes.           *)
(***************************************************************************)
EXTENDS Integers

CONSTANTS Names, MaxSize, Absent

VARIABLE files

Init == files = [n \in Names |-> Absent]

Create(n) ==
  /\ files[n] = Absent
  /\ files' = [files EXCEPT ![n] = 0]

Remove(n) == files' = [files EXCEPT ![n] = Absent]

Move(n, m) ==
  /\ files[n] # Absent
  /\ files[m] = Absent
  /\ files' = [files EXCEPT ![n] = Absent, ![m] = files[n]]

\* A file that is closed has grown, or not.
Record(n, s) ==
  /\ files[n] # Absent
  /\ s >= files[n]
  /\ files' = [files EXCEPT ![n] = s]

Next ==
  \E n \in Names :
    \/ Create(n)
    \/ Remove(n)
    \/ \E m \in Names : Move(n, m)
    \/ \E s \in 0 .. MaxSize : Record(n, s)

Spec == Init /\ [][Next]_files
=============================================================================
