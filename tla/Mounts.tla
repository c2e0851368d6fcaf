------------------------------- MODULE Mounts -------------------------------
(***************************************************************************)
(* ufs_mount and ufs_umount of vfs/src/api.c by several threads, with the  *)
(* device map of block_io.c (bcache_for, ufs_bcache_init,                  *)
(* ufs_bcache_destroy), and the root inodes that ufs_iget finds in the     *)
(* table of inode.c.                                                       *)
(*                                                                         *)
(* Devices, caches and super blocks are heap addresses, which are used     *)
(* again once they are free.  A device is opened anew at each mount, so    *)
(* two mounts of one image have two devices and two caches.  Callers leave *)
(* a volume mounted while they use it.                                     *)
(***************************************************************************)
EXTENDS Integers, Sequences

CONSTANTS Threads,
          Bdevs, Caches, Supers,   \* addresses
          UFS_MAX_BDEVS,
          MaxMounts,               \* bound on mounts that succeed
          None

Volume == [bdev : Bdevs, root : Nat]

ASSUME MountsAssumption ==
  /\ UFS_MAX_BDEVS \in Nat
  /\ MaxMounts \in Nat
  /\ None \notin Bdevs \cup Caches \cup Supers \cup Volume

VARIABLES bdevs,    \* devices that are open
          owner,    \* the device of each cache; None if it is not allocated
          map,      \* ufs_bcache_map
          nr,       \* ufs_bcache_nr
          mounted,  \* the volume at each super block, or None
          inodes,   \* root inodes in their chain of the inode table
          pc, goal, \* where each thread is, and what it looks a cache up for
          dev, sup, \* the device and the super block it works on
          idx, got, \* i and the result of bcache_for
          gone,     \* history: an entry was removed since the thread let go of
                    \* the lock in bcache_for
          crossed,  \* history: and then one was inserted
          misled    \* history: bcache_for has returned another device's cache

tables  == <<bdevs, owner, map, nr, mounted, inodes>>
threads == <<pc, goal, dev, sup, idx, got, gone, crossed>>
vars    == <<tables, threads, misled>>

Slots == 1 .. UFS_MAX_BDEVS

Goals == {"use", "init", "fill", "flush", "undo", "close"}

TypeOK ==
  /\ bdevs \subseteq Bdevs
  /\ owner \in [Caches -> Bdevs \cup {None}]
  /\ map \in [Slots -> [bdev : Bdevs \cup {None}, bc : Caches \cup {None}]]
  /\ nr \in 0 .. UFS_MAX_BDEVS
  /\ mounted \in [Supers -> Volume \cup {None}]
  /\ inodes \in Seq([sb : Supers, id : Nat])
  /\ pc \in [Threads -> {"idle", "find", "found", "return", "insert", "super", "destroyed"}]
  /\ goal \in [Threads -> Goals]
  /\ dev \in [Threads -> Bdevs \cup {None}]
  /\ sup \in [Threads -> Supers \cup {None}]
  /\ idx \in [Threads -> Slots \cup {0}]
  /\ got \in [Threads -> Caches \cup {None}]
  /\ gone \in [Threads -> BOOLEAN]
  /\ crossed \in [Threads -> BOOLEAN]
  /\ misled \in BOOLEAN

Init ==
  /\ bdevs = {}
  /\ owner = [c \in Caches |-> None]
  /\ map = [i \in Slots |-> [bdev |-> None, bc |-> None]]
  /\ nr = 0
  /\ mounted = [s \in Supers |-> None]
  /\ inodes = << >>
  /\ pc = [t \in Threads |-> "idle"]
  /\ goal = [t \in Threads |-> "use"]
  /\ dev = [t \in Threads |-> None]
  /\ sup = [t \in Threads |-> None]
  /\ idx = [t \in Threads |-> 0]
  /\ got = [t \in Threads |-> None]
  /\ gone = [t \in Threads |-> FALSE]
  /\ crossed = [t \in Threads |-> FALSE]
  /\ misled = FALSE

-----------------------------------------------------------------------------
(* bcache_for, which every function of the block layer calls.              *)

\* t is at p, and a lookup is for g.
Goto(t, p, g) ==
  /\ pc' = [pc EXCEPT ![t] = p]
  /\ goal' = [goal EXCEPT ![t] = g]

Lookup(t, g) == Goto(t, "find", g)

Find(t) ==
  /\ pc[t] = "find"
  /\ \/ \E i \in 1 .. nr :
          /\ map[i].bdev = dev[t]
          /\ idx' = [idx EXCEPT ![t] = i]
          /\ Goto(t, "found", goal[t])
          /\ UNCHANGED got
     \/ /\ \A i \in 1 .. nr : map[i].bdev # dev[t]
        /\ got' = [got EXCEPT ![t] = None]
        /\ Goto(t, "return", goal[t])
        /\ UNCHANGED idx
  /\ gone' = [gone EXCEPT ![t] = FALSE]
  /\ crossed' = [crossed EXCEPT ![t] = FALSE]
  /\ UNCHANGED <<tables, dev, sup, misled>>

\* The entry is read when the lock has been released.
ReadEntry(t) ==
  /\ pc[t] = "found"
  /\ got' = [got EXCEPT ![t] = map[idx[t]].bc]
  /\ misled' = (owner[map[idx[t]].bc] # dev[t])
  /\ idx' = [idx EXCEPT ![t] = 0]
  /\ Goto(t, "return", goal[t])
  /\ UNCHANGED <<tables, dev, sup, gone, crossed>>

Done(t) ==
  /\ Goto(t, "idle", "use")
  /\ dev' = [dev EXCEPT ![t] = None]
  /\ sup' = [sup EXCEPT ![t] = None]
  /\ got' = [got EXCEPT ![t] = None]

-----------------------------------------------------------------------------
(* Calls on a mounted volume.                                              *)

Use(t, s) ==
  /\ pc[t] = "idle" /\ mounted[s] # None
  /\ Lookup(t, "use")
  /\ dev' = [dev EXCEPT ![t] = mounted[s].bdev]
  /\ sup' = [sup EXCEPT ![t] = s]
  /\ UNCHANGED <<tables, idx, got, gone, crossed, misled>>

UseReturns(t) ==
  /\ pc[t] = "return" /\ goal[t] = "use"
  /\ Done(t)
  /\ UNCHANGED <<tables, idx, gone, crossed, misled>>

-----------------------------------------------------------------------------
(* ufs_mount.                                                              *)

\* ufs_get_fs finds the type, ufs_bdev_open returns a device.
MountBegin(t) ==
  /\ pc[t] = "idle"
  /\ Len(inodes) < MaxMounts
  /\ \E b \in Bdevs \ bdevs :
       /\ bdevs' = bdevs \cup {b}
       /\ dev' = [dev EXCEPT ![t] = b]
  /\ Lookup(t, "init")
  /\ UNCHANGED <<owner, map, nr, mounted, inodes, sup, idx, got, gone, crossed, misled>>

\* ufs_bcache_init goes on if there is no cache yet.
InitReturns(t) ==
  /\ pc[t] = "return" /\ goal[t] = "init"
  /\ Goto(t, IF got[t] = None THEN "insert" ELSE "super", "init")
  /\ UNCHANGED <<tables, dev, sup, idx, got, gone, crossed, misled>>

\* Mutant of Insert: the limit is not looked at.
InsertAnyway(t) ==
  /\ pc[t] = "insert"
  /\ \E c \in Caches :
       /\ owner[c] = None
       /\ owner' = [owner EXCEPT ![c] = dev[t]]
       /\ map' = [map EXCEPT ![IF nr < UFS_MAX_BDEVS THEN nr + 1 ELSE nr] =
                    [bdev |-> dev[t], bc |-> c]]
  /\ nr' = IF nr < UFS_MAX_BDEVS THEN nr + 1 ELSE nr
  /\ crossed' = [u \in Threads |-> crossed[u] \/ gone[u]]
  /\ Goto(t, "super", "init")
  /\ UNCHANGED <<bdevs, mounted, inodes, dev, sup, idx, got, gone, misled>>

Insert(t) ==
  /\ pc[t] = "insert"
  /\ nr < UFS_MAX_BDEVS
  /\ \E c \in Caches :
       /\ owner[c] = None
       /\ owner' = [owner EXCEPT ![c] = dev[t]]
       /\ map' = [map EXCEPT ![nr + 1] = [bdev |-> dev[t], bc |-> c]]
  /\ nr' = nr + 1
  /\ crossed' = [u \in Threads |-> crossed[u] \/ gone[u]]
  /\ Goto(t, "super", "init")
  /\ UNCHANGED <<bdevs, mounted, inodes, dev, sup, idx, got, gone, misled>>

\* No memory, or no entry: the device is closed.
InsertFails(t) ==
  /\ pc[t] = "insert"
  /\ Lookup(t, "close")
  /\ UNCHANGED <<tables, dev, sup, idx, got, gone, crossed, misled>>

NewSuper(t) ==
  /\ pc[t] = "super"
  /\ \E s \in Supers :
       /\ mounted[s] = None /\ \A u \in Threads : sup[u] # s
       /\ sup' = [sup EXCEPT ![t] = s]
  /\ Lookup(t, "fill")
  /\ UNCHANGED <<tables, dev, idx, got, gone, crossed, misled>>

NoMemoryForSuper(t) ==
  /\ pc[t] = "super"
  /\ Lookup(t, "undo")
  /\ UNCHANGED <<tables, dev, sup, idx, got, gone, crossed, misled>>

\* Mutant of InsertHash: at the end.
InsertHashLast(s, id) == Append(inodes, [sb |-> s, id |-> id])

\* ufs_inode_insert_hash: at the head of the chain.  The inodes of volumes that
\* are no longer mounted stay in the table.
InsertHash(s, id) == <<[sb |-> s, id |-> id]>> \o inodes

\* fat_fill_super reads the volume and attaches its root inode.
FillSuper(t) ==
  /\ pc[t] = "return" /\ goal[t] = "fill"
  /\ got[t] # None
  /\ Len(inodes) < MaxMounts
  /\ mounted' = [mounted EXCEPT ![sup[t]] = [bdev |-> dev[t], root |-> Len(inodes)]]
  /\ inodes' = InsertHash(sup[t], Len(inodes))
  /\ Done(t)
  /\ UNCHANGED <<bdevs, owner, map, nr, idx, gone, crossed, misled>>

\* Mutant of FillFails: the device is not closed.
FillFailsOpen(t) ==
  /\ pc[t] = "return" /\ goal[t] = "fill"
  /\ Done(t)
  /\ UNCHANGED <<tables, idx, gone, crossed, misled>>

\* Not a FAT volume, or it cannot be read, or there is no memory.
FillFails(t) ==
  /\ pc[t] = "return" /\ goal[t] = "fill"
  /\ Lookup(t, "undo")
  /\ UNCHANGED <<tables, dev, sup, idx, got, gone, crossed, misled>>

-----------------------------------------------------------------------------
(* ufs_umount, and what ufs_mount undoes.                                  *)

\* The buffers are flushed first, whether that succeeds or not.
Umount(t, s) ==
  /\ pc[t] = "idle" /\ mounted[s] # None
  /\ \A u \in Threads : sup[u] # s
  /\ mounted' = [mounted EXCEPT ![s] = None]
  /\ dev' = [dev EXCEPT ![t] = mounted[s].bdev]
  /\ sup' = [sup EXCEPT ![t] = s]
  /\ Lookup(t, "flush")
  /\ UNCHANGED <<bdevs, owner, map, nr, inodes, idx, got, gone, crossed, misled>>

FlushReturns(t) ==
  /\ pc[t] = "return" /\ goal[t] = "flush"
  /\ Lookup(t, "close")
  /\ UNCHANGED <<tables, dev, sup, idx, got, gone, crossed, misled>>

NoCache(t) ==
  /\ pc[t] = "return" /\ goal[t] \in {"undo", "close"}
  /\ got[t] = None
  /\ Goto(t, "destroyed", goal[t])
  /\ UNCHANGED <<tables, dev, sup, idx, got, gone, crossed, misled>>

\* Mutant of Destroy: the entry changes places with the last one.
DestroySwapping(t) ==
  /\ pc[t] = "return" /\ goal[t] \in {"undo", "close"}
  /\ got[t] # None
  /\ \E i \in 1 .. nr :
       /\ map[i].bdev = dev[t]
       /\ map' = [map EXCEPT ![i] = map[nr], ![nr] = map[i]]
  /\ nr' = nr - 1
  /\ gone' = [u \in Threads |-> TRUE]
  /\ owner' = [owner EXCEPT ![got[t]] = None]
  /\ Goto(t, "destroyed", goal[t])
  /\ UNCHANGED <<bdevs, mounted, inodes, dev, sup, idx, got, crossed, misled>>

\* ufs_bcache_destroy: the last entry takes the place of the one removed, and
\* stays where it was behind the end.
Destroy(t) ==
  /\ pc[t] = "return" /\ goal[t] \in {"undo", "close"}
  /\ got[t] # None
  /\ \E i \in 1 .. nr :
       /\ map[i].bdev = dev[t]
       /\ map' = [map EXCEPT ![i] = map[nr]]
  /\ nr' = nr - 1
  /\ gone' = [u \in Threads |-> TRUE]
  /\ owner' = [owner EXCEPT ![got[t]] = None]
  /\ Goto(t, "destroyed", goal[t])
  /\ UNCHANGED <<bdevs, mounted, inodes, dev, sup, idx, got, crossed, misled>>

\* ufs_mount has destroyed the cache and calls ufs_bdev_close, which does it
\* again.
Undone(t) ==
  /\ pc[t] = "destroyed" /\ goal[t] = "undo"
  /\ Lookup(t, "close")
  /\ UNCHANGED <<tables, dev, sup, idx, got, gone, crossed, misled>>

\* The device and the super block are freed.
Closed(t) ==
  /\ pc[t] = "destroyed" /\ goal[t] = "close"
  /\ bdevs' = bdevs \ {dev[t]}
  /\ Done(t)
  /\ UNCHANGED <<owner, map, nr, mounted, inodes, idx, gone, crossed, misled>>

Step(t) ==
  \/ Find(t) \/ ReadEntry(t)
  \/ \E s \in Supers : Use(t, s) \/ Umount(t, s)
  \/ UseReturns(t)
  \/ MountBegin(t) \/ InitReturns(t) \/ Insert(t) \/ InsertFails(t)
  \/ NewSuper(t) \/ NoMemoryForSuper(t) \/ FillSuper(t) \/ FillFails(t)
  \/ FlushReturns(t) \/ NoCache(t) \/ Destroy(t) \/ Undone(t) \/ Closed(t)

\* With the cache of another device in hand anything may happen: no step of
\* the model follows.
Next == ~ misled /\ \E t \in Threads : Step(t)

Spec == Init /\ [][Next]_vars

-----------------------------------------------------------------------------
(* Properties.                                                             *)

Live == {i \in Slots : i <= nr}

\* The map has each cache that exists once, under its own device, which is
\* open, and each mounted volume has its cache there.
MapSound ==
  /\ \A i \in Live : map[i].bc \in Caches /\ owner[map[i].bc] = map[i].bdev
  /\ \A i, j \in Live : map[i].bdev = map[j].bdev => i = j
  /\ \A c \in Caches : owner[c] # None => \E i \in Live : map[i].bc = c
  /\ \A i \in Live : map[i].bdev \in bdevs
  /\ \A s \in Supers : mounted[s] # None => \E i \in Live : map[i].bdev = mounted[s].bdev

\* Whichever step of a mount fails, and after an unmount, nothing stays open:
\* a device belongs to one mounted volume or to a thread in ufs_mount or
\* ufs_umount.
NothingLeaks ==
  \A b \in bdevs :
    \/ \E s \in Supers : mounted[s] # None /\ mounted[s].bdev = b
    \/ \E t \in Threads : dev[t] = b /\ goal[t] # "use"

\* bcache_for gives a device its own cache although it reads the map after it
\* has released the lock, unless in between a volume was unmounted and another
\* one mounted.
LookupOwn ==
  \A t \in Threads :
    pc[t] = "found" /\ ~ crossed[t] => owner[map[idx[t]].bc] = dev[t]

\* ufs_iget(sb, 1) finds the root inode of the volume mounted at sb, not one
\* that an earlier volume at the same address has left in the table.
RootIsCurrent ==
  \A s \in Supers : mounted[s] # None =>
    \E k \in 1 .. Len(inodes) :
      /\ inodes[k] = [sb |-> s, id |-> mounted[s].root]
      /\ \A j \in 1 .. k - 1 : inodes[j].sb # s

=============================================================================
