------------------------------ MODULE BlockStore ------------------------------
(***************************************************************************)
(* What the buffer cache promises a thread that works alone: the device    *)
(* behaves as an array of blocks with two versions of each, the one a      *)
(* reader sees and the one that survives a crash.  What has been stored    *)
(* stays visible until a crash, or until the device refuses to take it     *)
(* when the cache has to let go of it.                                     *)
(***************************************************************************)
CONSTANTS Blocks, Vals, Junk

VARIABLES view,    \* what ufs_bread returns
          stable,  \* what is on the device
          stored   \* what was last stored in a block, Junk once it is undone

vars == <<view, stable, stored>>

Init ==
  /\ stable \in [Blocks -> Vals]
  /\ view = stable
  /\ stored = [b \in Blocks |-> Junk]

Write(b, v) ==
  /\ view' = [view EXCEPT ![b] = v]
  /\ stored' = [stored EXCEPT ![b] = v]
  /\ UNCHANGED stable

Persist(b) ==
  /\ stable' = [stable EXCEPT ![b] = view[b]]
  /\ UNCHANGED <<view, stored>>

Refuse(b) ==
  /\ view' = [view EXCEPT ![b] = stable[b]]
  /\ stored' = [stored EXCEPT ![b] = Junk]
  /\ UNCHANGED stable

\* Everything but F goes to the device.
Close(F) ==
  /\ stable' = [b \in Blocks |-> IF b \in F THEN stable[b] ELSE view[b]]
  /\ view' = stable'
  /\ stored' = [b \in Blocks |-> IF b \in F THEN Junk ELSE stored[b]]

Crash ==
  /\ view' = stable
  /\ stored' = [b \in Blocks |-> Junk]
  /\ UNCHANGED stable

Next ==
  \/ \E b \in Blocks :
       \/ \E v \in Vals : Write(b, v)
       \/ Persist(b)
       \/ Refuse(b)
  \/ \E F \in SUBSET Blocks : Close(F)
  \/ Crash

Spec == Init /\ [][Next]_vars
=============================================================================
