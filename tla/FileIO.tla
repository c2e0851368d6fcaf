------------------------------- MODULE FileIO -------------------------------
(***************************************************************************)
(* Reading and writing one open file: ufs_read, ufs_write and ufs_seek of  *)
(* vfs/src/file.c and the sector loops fat_file_read and fat_file_write of *)
(* fs/fat/src/vfs_file.c.                                                  *)
(*                                                                         *)
(* Positions count sectors; a sector written in part is read, changed and  *)
(* written like a whole one.  Other files take clusters from the volume    *)
(* and give them back while a call is under way.  The chain of the file    *)
(* shows as its length; that fat_bmap maps exactly the sectors of the      *)
(* chain is what FatTable and ClusterCache are about, FatTable also about  *)
(* the chains that neighbouring entries of FAT12 break.                    *)
(*                                                                         *)
(* When the write of a link fails the link is in the buffer all the same,  *)
(* and goes to a cluster that is given back: the chain runs on over        *)
(* clusters that are not its own.                                          *)
(***************************************************************************)
EXTENDS Integers

CONSTANTS SecPerClus,   \* sectors per cluster
          MaxPos,       \* bound on positions
          Volume,       \* clusters of the volume
          Chains,       \* lengths of the chain when the file is opened
          Volumes,      \* kinds of volumes
          Shared        \* other files use the volume meanwhile

ASSUME FileAssumption ==
  /\ SecPerClus \in Nat \ {0}
  /\ MaxPos \in Nat /\ Volume \in Nat
  /\ Chains \subseteq 0 .. Volume
  /\ Volumes \subseteq [fat32 : BOOLEAN, faulty : BOOLEAN]
  /\ Shared \in BOOLEAN

VARIABLES volume,  \* is fat_bits 32, may device reads fail
          length,  \* clusters in the chain, 0 when i_start is 0
          stray,   \* clusters behind them that the chain runs on over
          free,    \* free clusters of the volume
          ours,    \* the chain ends with FAT_ENT_EOF itself
          size,    \* i_size
          pos,     \* f_pos
          pc,
          off, remaining, total,  \* of the loop
          count,   \* the count the call was made with
          good     \* history: sectors that calls have reported as written

file == <<volume, length, stray, free, ours, size, good>>
loop == <<off, remaining, total, count>>
vars == <<file, pos, pc, loop>>

TypeOK ==
  /\ volume \in Volumes
  /\ length \in 0 .. Volume
  /\ stray \in 0 .. MaxPos
  /\ free \in 0 .. Volume
  /\ ours \in BOOLEAN
  /\ size \in 0 .. MaxPos
  /\ pos \in 0 .. MaxPos
  /\ pc \in {"idle", "read", "write", "full"}
  /\ off \in 0 .. MaxPos
  /\ remaining \in 0 .. MaxPos
  /\ total \in 0 .. MaxPos
  /\ count \in 0 .. MaxPos
  /\ good \subseteq 0 .. MaxPos - 1

Init ==
  /\ volume \in Volumes
  /\ length \in Chains
  /\ stray = 0
  /\ free \in 0 .. Volume - length
  /\ ours \in BOOLEAN
  /\ ~volume.fat32 => ~ours
  /\ size \in 0 .. MaxPos
  /\ size <= length * SecPerClus
  /\ pos = 0
  /\ pc = "idle"
  /\ off = 0 /\ remaining = 0 /\ total = 0 /\ count = 0
  /\ good = {}

Mapped(sector) == sector < (length + stray) * SecPerClus

\* One cluster more than stray, as far as positions go.
StrayMore == IF stray < MaxPos THEN stray + 1 ELSE stray

\* The walk along the chain may reach an end mark: behind a cluster that was given
\* back it does if another file has taken that one.
MayEnd == stray = 0 \/ Shared

Seek(p) ==
  /\ pc = "idle"
  /\ pos' = p
  /\ UNCHANGED <<file, pc, loop>>

\* The call returns total, and f_pos moves by it.
Return ==
  /\ pc' = "idle"
  /\ pos' = pos + total
  /\ off' = 0 /\ remaining' = 0 /\ total' = 0 /\ count' = 0

\* One turn of either loop is done.
Advance ==
  /\ off' = off + 1
  /\ remaining' = remaining - 1
  /\ total' = total + 1
  /\ UNCHANGED count

-----------------------------------------------------------------------------
(* fat_file_read                                                           *)

\* Mutant of ToRead: the count is not cut at the end of the file.
ToReadAll(n) == n

\* What is left of n sectors before the end of the file.
ToRead(n) == IF pos >= size THEN 0 ELSE IF pos + n > size THEN size - pos ELSE n

Read(n) ==
  /\ pc = "idle"
  /\ pc' = "read"
  /\ off' = pos
  /\ remaining' = ToRead(n)
  /\ count' = n
  /\ UNCHANGED <<file, pos, total>>

ReadSector ==
  /\ pc = "read"
  /\ remaining > 0
  /\ Mapped(off)
  /\ Advance
  /\ UNCHANGED <<file, pos, pc>>

\* Everything is read, or fat_bmap has nothing, or a read fails.
ReadReturns ==
  /\ pc = "read"
  /\ remaining = 0 \/ ~Mapped(off) \/ volume.faulty
  /\ Return
  /\ UNCHANGED file

-----------------------------------------------------------------------------
(* fat_file_write                                                          *)

Write(n) ==
  /\ pc = "idle"
  /\ pos + n <= MaxPos
  /\ pc' = "write"
  /\ off' = pos
  /\ remaining' = n
  /\ count' = n
  /\ UNCHANGED <<file, pos, total>>

\* Mutant of WriteSector: i_size is set to where the call will end.
WriteSectorEagerly ==
  /\ pc = "write"
  /\ remaining > 0
  /\ Mapped(off)
  /\ size' = IF off + remaining + 1 > size THEN off + remaining + 1 ELSE size
  /\ Advance
  /\ UNCHANGED <<volume, length, stray, free, ours, pos, pc, good>>

\* fat_bmap has the sector.  The result of ufs_sync_buf is ignored.
WriteSector ==
  /\ pc = "write"
  /\ remaining > 0
  /\ Mapped(off)
  /\ size' = IF off + 1 > size THEN off + 1 ELSE size
  /\ Advance
  /\ UNCHANGED <<volume, length, stray, free, ours, pos, pc, good>>

\* fat_alloc_clusters and fat_chain_add put one more cluster at the end.
Linked ==
  /\ free > 0
  /\ free' = free - 1
  /\ IF stray = 0 THEN length' = length + 1 /\ UNCHANGED stray
                  ELSE stray' = StrayMore /\ UNCHANGED length
  /\ ours' = volume.fat32

\* They fail, for want of space or of a read, with nothing changed; or
\* fat_free_clusters fails to give the new cluster back, linked or not; or it
\* gives back a cluster whose link is in the buffer.
LinkFails ==
  \/ /\ free = 0 \/ volume.faulty
     /\ UNCHANGED <<length, stray, free, ours>>
  \/ volume.faulty /\ Linked
  \/ /\ volume.faulty /\ free > 0
     /\ \/ free' = free - 1 /\ UNCHANGED stray
        \/ stray' = StrayMore /\ UNCHANGED free
     /\ UNCHANGED <<length, ours>>

\* The sector is beyond the chain and fat_get_cluster returns FAT_ENT_EOF,
\* which only a FAT32 chain that this driver has written ends with.
\* fat_add_cluster extends the chain, or fails ...
AddCluster ==
  /\ pc = "write"
  /\ remaining > 0
  /\ ~Mapped(off)
  /\ length > 0
  /\ ours /\ MayEnd
  /\ \/ Linked /\ UNCHANGED pc
     \/ LinkFails /\ pc' = "full"
  /\ UNCHANGED <<volume, size, good, pos, loop>>

\* ... and in either case the loop goes on.
TryAgain ==
  /\ pc = "full"
  /\ pc' = "write"
  /\ UNCHANGED <<file, pos, loop>>

\* fat_get_cluster returns another end mark, or 0 and then fat_bmap fails.
NoneMapped ==
  /\ pc = "write"
  /\ remaining > 0
  /\ length > 0
  /\ (~Mapped(off) /\ ~ours /\ MayEnd) \/ (Mapped(off) /\ volume.faulty)

\* The loop does itself what fat_add_cluster does ...
Extend ==
  /\ NoneMapped
  /\ Linked
  /\ UNCHANGED <<volume, size, good, pos, pc, loop>>

\* Mutant of ExtendFails: the loop goes on after -ENOSPC.
ExtendFailsOn ==
  /\ NoneMapped
  /\ LinkFails
  /\ UNCHANGED <<volume, size, good, pos, pc, loop>>

\* ... and an error ends it.
ExtendFails ==
  /\ NoneMapped
  /\ LinkFails
  /\ Return
  /\ good' = good \cup (pos .. pos + total - 1)
  /\ UNCHANGED <<volume, size>>

\* Nothing is left to write; the inode has no cluster to start from; the chain
\* runs into a free entry; a read fails.
WriteReturns ==
  /\ pc = "write"
  /\ \/ remaining = 0
     \/ ~Mapped(off) /\ (length = 0 \/ stray > 0)
     \/ volume.faulty
  /\ Return
  /\ good' = good \cup (pos .. pos + total - 1)
  /\ UNCHANGED <<volume, length, stray, free, ours, size>>

-----------------------------------------------------------------------------

\* Another file takes a cluster or gives one back, or changes the chain that
\* the file has run into.
Others ==
  /\ Shared
  /\ \/ /\ \/ free > 0 /\ free' = free - 1
           \/ free + length < Volume /\ free' = free + 1
        /\ UNCHANGED <<stray, ours>>
     \/ /\ stray > 0
        /\ stray' \in 1 .. MaxPos
        /\ ours' \in {FALSE, volume.fat32}
        /\ UNCHANGED free
  /\ UNCHANGED <<volume, length, size, good, pos, pc, loop>>

Step ==
  \/ ReadSector \/ ReadReturns
  \/ WriteSector \/ AddCluster \/ TryAgain \/ Extend \/ ExtendFails \/ WriteReturns

Next ==
  \/ \E p \in 0 .. MaxPos : Seek(p)
  \/ \E n \in 0 .. MaxPos : Read(n) \/ Write(n)
  \/ Step
  \/ Others

Spec == Init /\ [][Next]_vars

\* The thread inside a call keeps running.
FairSpec == Spec /\ WF_vars(Step)

-----------------------------------------------------------------------------
(* Properties.                                                             *)

\* Every sector before i_size has a cluster of the file, until the write of a link
\* has failed: a call that runs out of space or cannot read, or that starts beyond
\* the end, never leaves a size the chain cannot hold.
SizeBacked == stray = 0 => size <= length * SecPerClus

\* What ufs_write has reported as written lies inside the file for good, in
\* clusters of its own until the write of a link has failed.
WrittenInside ==
  \A s \in good : s < size /\ (stray = 0 => Mapped(s))

\* ufs_read returns what was asked for, cut at the end of the file, unless
\* the device fails.
ReadComplete ==
  [][pc = "read" /\ pc' = "idle" /\ ~volume.faulty =>
       pos' = IF pos >= size THEN pos
              ELSE IF pos + count > size THEN size ELSE pos + count]_vars

\* ufs_write comes back with the number of sectors written.
WriteEnds == pc \in {"write", "full"} ~> pc = "idle"

\* It comes back from any FAT16 volume, however full, and from a FAT32 volume that
\* neither fails nor is full again and again, unless the chain has run into
\* another that changes meanwhile.
WriteEndsWithRoom ==
  \/ volume.fat32 /\ (volume.faulty \/ []<>(free = 0))
  \/ <>(stray > 0)
  \/ WriteEnds
=============================================================================
