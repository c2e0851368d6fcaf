------------------------------ MODULE FatTable ------------------------------
(***************************************************************************)
(* The file allocation table: allocating, linking and freeing clusters,    *)
(* fs/fat/src/fatent.c with its callers fat_chain_add, fat_add_cluster,    *)
(* vfat_create, vfat_unlink and fat_free.                                  *)
(*                                                                         *)
(* A file stands for its in-core inode and the one thread that operates on *)
(* it; different files are operated on at the same time.  fat_lock covers  *)
(* the scan of fat_alloc_clusters and the walk of fat_free_clusters, one   *)
(* step per FAT entry, but not fat_chain_add, whose walk to the end of the *)
(* chain and whose write interleave with them.  The walk is the uncached   *)
(* one; ClusterCache is about the cache in front of it.                    *)
(*                                                                         *)
(* Entries of FAT16 and FAT32 have bytes of their own.  On FAT12 the two   *)
(* entries of a pair share half a byte, for both of fat12_ent_get and      *)
(* fat12_ent_put (Fat12Entry), so that putting one changes the other.      *)
(*                                                                         *)
(* On a faulty volume a read or a synchronous write of a FAT sector may    *)
(* fail at any point.                                                      *)
(***************************************************************************)
EXTENDS Integers, FiniteSets

CONSTANTS Files,
          NoFile,
          MaxCluster,  \* max_cluster
          MaxFat,      \* max_fat: a value from here on ends a chain
          Half,        \* FAT12: the values of the shared half byte, 16; else 0
          Hints,       \* FSINFO next_cluster; {0} without an FSINFO
          FsFree,      \* FSINFO free_clusters, 0 without an FSINFO
          Word,        \* 2^32
          Volumes      \* kinds of volumes

Clusters == 2 .. MaxCluster - 1     \* fat_valid_entry
NoCluster == 0
Free == 0

Fat12 == Half > 0

\* FAT_ENT_EOF in the bits of an entry; any number that ends a chain stands for
\* it when entries have bytes of their own.
Eof == IF Fat12 THEN Half * Half * Half - 1 ELSE MaxCluster

\* The mark of a bad cluster; FAT12 is modelled without any.
Bad == Eof + 1

\* What an entry may hold.
Values == IF Fat12 THEN 0 .. Eof ELSE Clusters \cup {Free, Eof, Bad}

ASSUME FatAssumption ==
  /\ IsFiniteSet(Files) /\ NoFile \notin Files
  /\ MaxCluster \in Nat /\ MaxCluster > 2
  /\ Half \in {0, 16}
  /\ MaxFat \in MaxCluster .. Eof
  /\ Word \in Nat /\ Word % 2 = 0 /\ Word \div 2 > MaxCluster + 1
  /\ Hints \subseteq 0 .. Word - 1
  /\ FsFree \in Nat

ASSUME VolumesAssumption ==
  /\ Volumes \subseteq [bad : SUBSET Clusters, faulty : BOOLEAN]
  /\ Fat12 => \A v \in Volumes : v.bad = {}

VARIABLES volume,        \* clusters marked as bad, may the device fail
          fat,
          prevFree,      \* prev_free
          freeClusters,  \* free_clusters
          fatLock,       \* the file whose thread holds fat_lock
          scan,          \* i and count of fat_alloc_clusters
          start,         \* i_start
          op,            \* the operation a file is in
          pc,
          hand,          \* the cluster fat_alloc_clusters has returned
          cur            \* where fat_get_cluster or fat_free_clusters is

counters == <<prevFree, freeClusters>>
local    == <<start, op, pc, hand, cur>>
vars     == <<volume, fat, counters, fatLock, scan, local>>

\* Between two operations; "nospace" if the last one ended with -ENOSPC.
Rest == {"idle", "nospace"}

Ops == {"none", "create", "append", "truncate", "unlink"}

\* No scan is under way.
NoScan == [at |-> 0, tried |-> 0]

TypeOK ==
  /\ volume \in Volumes
  /\ fat \in [Clusters -> Values]
  /\ prevFree \in 0 .. Word - 1
  /\ freeClusters \in 0 .. Word - 1
  /\ fatLock \in Files \cup {NoFile}
  /\ scan \in [at : Int, tried : 0 .. MaxCluster]
  /\ start \in [Files -> Clusters \cup {NoCluster}]
  /\ op \in [Files -> Ops]
  /\ pc \in [Files -> Rest \cup {"scan", "entry", "walk", "undo", "free"}]
  /\ hand \in [Files -> Clusters \cup {NoCluster}]
  /\ cur \in [Files -> Clusters \cup {NoCluster}]

FreeOnes == {c \in Clusters : fat[c] = Free}

\* The shared half byte is the top of the even entry and the bottom of the odd
\* one: what the put of v leaves in the other entry, which holds w.
PutBeside(c, v, w) ==
  IF c % 2 = 0
  THEN ((w \div Half) * Half) + (v \div (Half * Half))
  ELSE ((v % Half) * Half * Half) + (w % (Half * Half))

\* ent_put
Put(c, v) ==
  LET other == IF c % 2 = 0 THEN c + 1 ELSE c - 1
  IN  [d \in Clusters |->
         IF d = c THEN v
         ELSE IF Fat12 /\ d = other THEN PutBeside(c, v, fat[d])
         ELSE fat[d]]

\* Mutant of HintOf: next_cluster is taken as it is.
HintAsRead(h) == h

\* fat_fill_super; prev_free is unsigned.
HintOf(h) == IF h > 2 THEN h ELSE 2

\* An unsigned number as an int.
AsInt(u) == IF u < Word \div 2 THEN u ELSE u - Word

\* fat_fill_super takes FSINFO's count if it can be one, and else scans.
CountAtMount(table) ==
  IF FsFree \in 1 .. MaxCluster - 1
  THEN FsFree
  ELSE Cardinality({c \in Clusters : table[c] = Free})

Init ==
  /\ volume \in Volumes
  /\ fat = [c \in Clusters |-> IF c \in volume.bad THEN Bad ELSE Free]
  /\ prevFree \in {HintOf(h) : h \in Hints}
  /\ freeClusters = CountAtMount(fat)
  /\ fatLock = NoFile
  /\ scan = NoScan
  /\ start = [f \in Files |-> NoCluster]
  /\ op = [f \in Files |-> "none"]
  /\ pc = [f \in Files |-> "idle"]
  /\ hand = [f \in Files |-> NoCluster]
  /\ cur = [f \in Files |-> NoCluster]

Goto(f, place) == pc' = [pc EXCEPT ![f] = place]

\* The operation of f is over.
Done(f, place) ==
  /\ Goto(f, place)
  /\ op' = [op EXCEPT ![f] = "none"]
  /\ cur' = [cur EXCEPT ![f] = NoCluster]

Lock(f) == fatLock = NoFile /\ fatLock' = f

Unlock == fatLock' = NoFile

-----------------------------------------------------------------------------
(* fat_alloc_clusters                                                      *)

\* vfat_create needs a first cluster; a write needs one more, and goes no
\* further than -EIO on an inode without a first one.
AllocBegin(f) ==
  /\ pc[f] \in Rest
  /\ Lock(f)
  /\ scan' = [at |-> AsInt((prevFree + 1) % Word), tried |-> 0]
  /\ op' = [op EXCEPT ![f] = IF start[f] = NoCluster THEN "create" ELSE "append"]
  /\ Goto(f, "scan")
  /\ UNCHANGED <<volume, fat, counters, start, hand, cur>>

\* The entry the scan looks at next.
At == IF scan.at >= MaxCluster THEN 2 ELSE scan.at

\* The entry is free: it becomes the end of a chain of one.
Take(f) ==
  /\ pc[f] = "scan"
  /\ At \in FreeOnes
  /\ fat' = Put(At, Eof)
  /\ prevFree' = At
  /\ freeClusters' = (freeClusters - 1) % Word
  /\ hand' = [hand EXCEPT ![f] = At]
  /\ cur' = [cur EXCEPT ![f] = start[f]]
  /\ Goto(f, IF op[f] = "create" THEN "entry" ELSE "walk")
  /\ Unlock
  /\ scan' = NoScan
  /\ UNCHANGED <<volume, start, op>>

\* Mutant of Skip: count is not incremented.
SkipUncounted(f) ==
  /\ pc[f] = "scan"
  /\ At \in Clusters \ FreeOnes
  /\ scan' = [scan EXCEPT !.at = At + 1]
  /\ UNCHANGED <<volume, fat, counters, fatLock, local>>

Skip(f) ==
  /\ pc[f] = "scan"
  /\ At \in Clusters \ FreeOnes
  /\ scan.tried < MaxCluster - 2
  /\ scan' = [at |-> At + 1, tried |-> scan.tried + 1]
  /\ UNCHANGED <<volume, fat, counters, fatLock, local>>

\* Mutant of NoSpace: half of the clusters are enough.
NoSpaceEarly(f) ==
  /\ pc[f] = "scan"
  /\ At \in Clusters \ FreeOnes
  /\ scan.tried + 1 >= (MaxCluster - 2) \div 2
  /\ Done(f, "nospace")
  /\ Unlock
  /\ scan' = NoScan
  /\ UNCHANGED <<volume, fat, counters, start, hand>>

\* -ENOSPC
NoSpace(f) ==
  /\ pc[f] = "scan"
  /\ At \in Clusters \ FreeOnes
  /\ scan.tried >= MaxCluster - 2
  /\ Done(f, "nospace")
  /\ Unlock
  /\ scan' = NoScan
  /\ UNCHANGED <<volume, fat, counters, start, hand>>

\* fat_ent_read returns -EIO, also when i is not a cluster number.
ScanFails(f) ==
  /\ pc[f] = "scan"
  /\ At \notin Clusters \/ volume.faulty
  /\ Done(f, "idle")
  /\ Unlock
  /\ scan' = NoScan
  /\ UNCHANGED <<volume, fat, counters, start, hand>>

-----------------------------------------------------------------------------
(* Using the new cluster.                                                  *)

\* vfat_create: fat_add_entries succeeds or the cluster goes back.
AddEntry(f) ==
  /\ pc[f] = "entry"
  /\ \/ /\ start' = [start EXCEPT ![f] = hand[f]]
        /\ hand' = [hand EXCEPT ![f] = NoCluster]
        /\ Done(f, "idle")
     \/ /\ Goto(f, "undo")
        /\ UNCHANGED <<start, op, hand, cur>>
  /\ UNCHANGED <<volume, fat, counters, fatLock, scan>>

\* fat_chain_add: fat_get_cluster goes on to the next cluster (no number of a
\* cluster reaches max_fat in the model) ...
Walk(f) ==
  /\ pc[f] = "walk"
  /\ fat[cur[f]] \in Clusters
  /\ cur' = [cur EXCEPT ![f] = fat[cur[f]]]
  /\ UNCHANGED <<volume, fat, counters, fatLock, scan, start, op, pc, hand>>

\* ... or fails, and fat_add_cluster gives the new one back ...
WalkFails(f) ==
  /\ pc[f] = "walk"
  /\ volume.faulty \/ (fat[cur[f]] \notin Clusters /\ fat[cur[f]] < MaxFat)
  /\ Goto(f, "undo")
  /\ UNCHANGED <<volume, fat, counters, fatLock, scan, start, op, hand, cur>>

\* Mutant of Link: the new cluster is taken for linked and given back.
LinkThenUndo(f) ==
  /\ pc[f] = "walk"
  /\ fat[cur[f]] >= MaxFat
  /\ fat' = Put(cur[f], hand[f])
  /\ Goto(f, "undo")
  /\ UNCHANGED <<volume, counters, fatLock, scan, start, op, hand, cur>>

\* ... or has reached the end of the chain, and fat_ent_write links the new
\* cluster to it.  When the synchronous write fails the entry has changed in
\* the buffer all the same.
Link(f) ==
  /\ pc[f] = "walk"
  /\ fat[cur[f]] >= MaxFat
  /\ fat' = Put(cur[f], hand[f])
  /\ \/ /\ hand' = [hand EXCEPT ![f] = NoCluster]
        /\ Done(f, "idle")
     \/ /\ volume.faulty
        /\ Goto(f, "undo")
        /\ UNCHANGED <<op, hand, cur>>
  /\ UNCHANGED <<volume, counters, fatLock, scan, start>>

-----------------------------------------------------------------------------
(* fat_free_clusters                                                       *)

\* fat_free and vfat_unlink free the chain of the file.
FreeChain(f, o) ==
  /\ pc[f] \in Rest
  /\ start[f] # NoCluster
  /\ Lock(f)
  /\ op' = [op EXCEPT ![f] = o]
  /\ cur' = [cur EXCEPT ![f] = start[f]]
  /\ Goto(f, "free")
  /\ UNCHANGED <<volume, fat, counters, scan, start, hand>>

\* fat_add_cluster and vfat_create give a cluster back.
Undo(f) ==
  /\ pc[f] = "undo"
  /\ Lock(f)
  /\ cur' = [cur EXCEPT ![f] = hand[f]]
  /\ Goto(f, "free")
  /\ UNCHANGED <<volume, fat, counters, scan, start, op, hand>>

\* Mutant of FreeStep: the entry is read after it has been freed.
FreeStepFirst(f) ==
  /\ pc[f] = "free"
  /\ cur[f] # NoCluster
  /\ fat' = Put(cur[f], Free)
  /\ freeClusters' = (freeClusters + 1) % Word
  /\ cur' = [cur EXCEPT ![f] = NoCluster]
  /\ UNCHANGED <<volume, prevFree, fatLock, scan, start, op, pc, hand>>

\* Mutant of FreeStep: free_clusters is left alone.
FreeStepUncounted(f) ==
  /\ pc[f] = "free"
  /\ cur[f] # NoCluster
  /\ fat' = Put(cur[f], Free)
  /\ cur' = [cur EXCEPT ![f] =
               IF fat[@] \in Clusters THEN fat[@] ELSE NoCluster]
  /\ UNCHANGED <<volume, counters, fatLock, scan, start, op, pc, hand>>

FreeStep(f) ==
  /\ pc[f] = "free"
  /\ cur[f] # NoCluster
  /\ fat' = Put(cur[f], Free)
  /\ freeClusters' = (freeClusters + 1) % Word
  /\ cur' = [cur EXCEPT ![f] =
               IF fat[@] \in Clusters THEN fat[@] ELSE NoCluster]
  /\ UNCHANGED <<volume, prevFree, fatLock, scan, start, op, pc, hand>>

\* The caller forgets the clusters: fat_free on success only, vfat_unlink
\* removes the directory entry whatever fat_free_clusters says.
Forget(f, ok) ==
  /\ IF op[f] \in {"create", "append"}
     THEN hand' = [hand EXCEPT ![f] = NoCluster] /\ UNCHANGED start
     ELSE /\ start' = [start EXCEPT ![f] =
                         IF ok \/ op[f] = "unlink" THEN NoCluster ELSE @]
          /\ UNCHANGED hand
  /\ Done(f, "idle")
  /\ Unlock
  /\ UNCHANGED <<volume, fat, counters, scan>>

FreeEnd(f) ==
  /\ pc[f] = "free"
  /\ cur[f] = NoCluster
  /\ Forget(f, TRUE)

\* fat_ent_read returns -EIO with a part of the chain freed.
FreeFails(f) ==
  /\ pc[f] = "free"
  /\ cur[f] # NoCluster
  /\ volume.faulty
  /\ Forget(f, FALSE)

-----------------------------------------------------------------------------

\* Unmounted and mounted again.  ufs_umount does not write FSINFO; another
\* system may have.
Remount ==
  /\ \A f \in Files : pc[f] \in Rest
  /\ prevFree' \in {HintOf(h) : h \in Hints}
  /\ freeClusters' = CountAtMount(fat)
  /\ UNCHANGED <<volume, fat, fatLock, scan, local>>

\* What the holder of fat_lock does next.
Locked(f) ==
  \/ Take(f) \/ Skip(f) \/ NoSpace(f) \/ ScanFails(f)
  \/ FreeStep(f) \/ FreeEnd(f) \/ FreeFails(f)

Next ==
  \/ \E f \in Files :
       \/ AllocBegin(f)
       \/ Locked(f)
       \/ AddEntry(f)
       \/ Walk(f) \/ WalkFails(f) \/ Link(f)
       \/ \E o \in {"truncate", "unlink"} : FreeChain(f, o)
       \/ Undo(f)
  \/ Remount

Spec == Init /\ [][Next]_vars

\* No thread is stopped while it holds fat_lock.
FairSpec == Spec /\ \A f \in Files : WF_vars(Locked(f))

-----------------------------------------------------------------------------
(* Properties.  The first four are about FAT16 and FAT32, and a device     *)
(* that does not fail: on FAT12 a put of one entry breaks the chain or the *)
(* free state of its neighbour.                                            *)

\* Everything that can name a cluster: a FAT entry, the i_start of a file, and
\* the cluster its thread has in hand or is freeing from.
Sources == ({"fat"} \X Clusters) \cup ({"start", "thread"} \X Files)

FreeingChain(f) == pc[f] = "free" /\ op[f] \in {"truncate", "unlink"}

Target(s) ==
  CASE s[1] = "fat"    -> fat[s[2]]
    [] s[1] = "start"  -> IF FreeingChain(s[2]) THEN NoCluster ELSE start[s[2]]
    [] s[1] = "thread" -> IF pc[s[2]] = "free" THEN cur[s[2]] ELSE hand[s[2]]

\* No cluster is named twice.
NamedOnce ==
  \A r, s \in Sources :
    Target(r) = Target(s) /\ Target(r) \in Clusters => r = s

\* No free or bad cluster is named.
NamesUsed ==
  \A s \in Sources :
    Target(s) \in Clusters => fat[Target(s)] \notin {Free, Bad}

\* Every cluster that is in use is named.
UsedNamed ==
  \A c \in Clusters :
    fat[c] \in {Free, Bad} \/ \E s \in Sources : Target(s) = c

Counted == freeClusters = Cardinality(FreeOnes)

\* No cluster is in two chains, or twice in one, or in a chain and about to
\* enter another, however allocations, links and frees interleave.
NoCrossLinks == ~volume.faulty => NamedOnce

\* No chain runs into a free or a bad cluster, that the allocator could hand
\* out again.
NoDanglingLinks == ~volume.faulty => NamesUsed

\* A cluster that is not free belongs to somebody, also after a failed
\* vfat_create or write.
NoLeaks == ~volume.faulty => UsedNamed

\* free_clusters, from which ufs_statfs answers, counts the free entries.
FreeCounted == ~volume.faulty => Counted

\* Below 0x7fffffff, wherever the hint makes the scan start, also past the end, it
\* looks at cluster numbers only, and fails with -EIO only if the device does.
\* From there on prev_free + 1 is negative as an int, or zero, and every
\* allocation fails.
ScanInside ==
  (\E f \in Files : pc[f] = "scan") =>
    (At \in Clusters <=> prevFree < Word \div 2 - 1)

\* fat_alloc_clusters returns -ENOSPC of a full volume only, wherever the hint
\* makes it start, also when reads fail.
NoSpaceIsReal ==
  [][\A f \in Files :
       pc[f] = "scan" /\ pc'[f] = "nospace" => FreeOnes = {}]_vars

\* Whoever takes fat_lock releases it: both loops end, also on a full volume,
\* after errors, and on a chain that has been damaged by them.
LockReleased == fatLock # NoFile ~> fatLock = NoFile
=============================================================================
