# UserFS in TLA+

UserFS is a FAT12/16/32 file system with long names that runs in user space: a
small VFS (`src/src/vfs`), the FAT driver (`src/src/fs/fat`) and a command line
tool, `fatool`. This directory holds TLA+ modules translated from that code,
configurations with which TLC checks them on small instances, and proofs that
TLAPS checks for instances of any size. `PROJECT.json` maps every definition
that stands for code to its lines.

## 1. The system

```
 ufs_mount ufs_create ufs_open ufs_read ufs_write ufs_rename ...     api.c
    |             |                       |
 register.c   path.c dentry.c   file.c  inode.c  super.c             VFS
    |             |                       |
 fat_fs.c    namei.c dir.c      vfs_file.c  vfs_inode.c              FAT driver
                  \                 |
                   \        cache.c (chain cache)  fatent.c (FAT)
                    \               |
                     block_io.c  (buffer cache, device map)          block layer
                            |
                        pread, pwrite
```

Everything below `api.c` runs in the thread of the caller. The mutexes in use are
`bc->lock` of a buffer cache, `cache_lru_lock` of an inode's chain cache,
`fat_lock` of a volume, one around the two bytes of a 12-bit entry, and one each
for the device map, the inode table and the file system list; the operations on
directories and files take none of their own.
Nothing runs in the background: a buffer is written when somebody syncs,
flushes or evicts it.

| Component | State | Operations | What is hard | What makes it correct |
|---|---|---|---|---|
| Buffer cache, `block_io.c` | hash table and LRU list of buffers, `nr_bufs`, per buffer `b_count`, `b_dirty`, `b_uptodate` | `ufs_bread`, `ufs_bget`, `ufs_brelse`, `ufs_mark_buf_dirty`, `ufs_sync_buf`, `ufs_bcache_flush`, `ufs_bcache_destroy` | the limit on buffers and eviction, reads outside the lock, flushing while others work, failing writes, crashes | no buffer is freed under a user; list, counter and references agree; what is reported as written is on the device |
| Device map, `block_io.c` | `ufs_bcache_map` of 16 devices, `ufs_bcache_nr` | `ufs_bdev_open`, `ufs_bdev_close`, `bcache_for`, `ufs_bcache_init` | the limit; an entry is read after the lock is released while others move it | a device finds its own cache; nothing stays open |
| Chain cache, `cache.c` | per inode an LRU list of runs, `nr_caches`, `cache_valid_id` | `fat_cache_lookup`, `fat_cache_add`, `fat_cache_inval_inode`, `fat_get_cluster` | the lock is dropped to allocate; the chain grows during a walk; loops | every run agrees with the FAT; a lookup gives what a plain walk gives, and returns |
| FAT, `fatent.c`, `misc.c` | the table, `prev_free`, `free_clusters`, `fat_lock` | `fat_alloc_clusters`, `fat_free_clusters`, `fat_chain_add`, and the undo of `vfat_create` and `fat_add_cluster` | linking outside the lock, wrap-around of the scan, errors half way | no cluster is shared, lost or dangling (on FAT16 and FAT32); free count; full means full; lock released |
| 12-bit entries, `fatent.c` | three bytes per two entries | `fat12_ent_get`, `fat12_ent_put` | two entries use the same half byte | get undoes put of the same entry; the other entry should stay and does not |
| File I/O, `vfs_file.c`, `file.c` | `f_pos`, `i_size`, the loop's variables | `ufs_read`, `ufs_write`, `ufs_seek` | running out of space in the loop, errors between turns | `i_size` never exceeds the chain; reads are complete; calls return |
| Directories, `dir.c`, `namei.c`, `vfs_inode.c` | slots, `i_size` of directories, `i_pos`, `i_parent_dir_ino` | search, add, extend, remove; create, unlink, rename, mkdir, rmdir, readdir; recording sizes | extension, rename onto or within, stale positions, remount, loss of power within a call | a directory is a map from names to files, a volume a tree; clusters have one owner; what was synced stays |
| Mounting, `fat_fs.c`, `super.c`, `api.c` | the volume's parameters, the list of super blocks | `ufs_mount`, `ufs_umount`, `fat_fill_super` | undo of a failed mount; regions computed in one file and used in others | nothing stays open; regions do not overlap |
| In-core inodes, `inode.c`, `vfs_inode.c` | hash table of inodes, `i_count` | `ufs_iget`, `ufs_iput`, `fat_build_inode` | inodes that outlive their super block | a volume finds its own root inode |
| Paths, `path.c`, `dentry.c` | none | `ufs_path_walk`, `ufs_path_parent`, `ufs_path_split` | slashes and dots; two functions that cut a path by different rules | every way to write a path leads to the same place |
| Registry, `register.c`, `libufs.c` | list of file system types | register, unregister, get, list | the head of the list is handed out and followed without the lock | each name once |
| Time stamps, `misc.c` | none | `fat_time_unix2fat`, `fat_time_fat2unix` | range of years | stamps are in the order of time |
| `fatool` | a session | commands | - | out of scope |

Section 6 says what is not modelled and why.

## 2. Modules

| Module | What it is | Run by |
|---|---|---|
| `BlockStore` | abstract: what a block device promises one careful user | `cache_serial` (refinement) |
| `BufferCache` | `block_io.c`'s cache with threads, failures and crashes | `cache_*` |
| `BufferCacheProofs` | proofs about `BufferCache`, with lemmas on lists without repetition | - |
| `Mounts`, `MountsProofs` | `ufs_mount`, `ufs_umount`, the device map and the inode table; proofs | `mounts` |
| `ClusterCache`, `ClusterCacheProofs` | `cache.c` with the walk `fat_get_cluster`; proofs | `chain_shared` |
| `FatTable`, `FatTableProofs` | allocation, linking and freeing, `fatent.c` with its callers; proofs | `fat_shared`, `fat12_table` |
| `Fat12Entry` | packing of 12-bit entries | through `Formats` |
| `FatTime` | `fat_time_unix2fat` | through `Formats` |
| `FatLayout` | what `fat_set_sb_info` makes of a boot sector, and where the driver then looks | through `Formats` |
| `Formats`, `FormatProofs` | puts the three formats side by side; proofs | `formats` |
| `FileIO`, `FileIOProofs` | the read and write loops; proofs | `file_shared` |
| `NameSpace` | abstract: a directory as a map from names to sizes | `dir_root` (refinement) |
| `FatDir`, `FatDirProofs` | entries of growing directories, creation, removal, renaming, sizes; proofs | `dir_*` |
| `NameTree` | abstract: a volume as a tree of names | `tree` (refinement) |
| `PathWalk` | `ufs_path_walk`, `ufs_path_split`, `ufs_path_parent` | through `FatTree` |
| `FatTree`, `FatTreeProofs` | directories in directories, paths, the FAT on the device, loss of power; proofs | `tree*` |
| `MC...` | constants and symmetry for TLC | |

How they compose: `FatTree` instantiates `PathWalk` with its directories and is
shown to implement `NameTree`; `FatDir` implements `NameSpace`, `BufferCache`
implements `BlockStore`. `FatTree` takes from `BufferCache` when a block reaches
the device (an entry at once, the FAT at a flush or an eviction, a block from
`ufs_bget` perhaps never) and from `FatTable` that an allocation gives a free
cluster; `FatDir` covers how the directories grow that `FatTree` keeps at one
cluster. `Fat12Entry` is what a put does to the bytes of a pair of entries, and
`FatTable` what the same put does to the table; `ClusterCache`, `FileIO`, `FatDir` and
`FatTree` take an entry of the FAT for its own, as on FAT16 and FAT32. `Mounts` is around all of them: it gives each volume its device, cache
and root inode.

**BufferCache.** `data`, `uptodate`, `dirty` and `count` are the fields of the
buffers, `lru` the list with the most recent first, `nrBufs` the counter. The
hash table is not separate from the list: the code inserts into and removes from
both under one lock. Each client has a place `pc` in the call it is in. What
`bc->lock` covers is one step; `pread`, `pwrite`, the look at `b_uptodate`, the
store into `b_data` and the clearing of `b_dirty` are steps of their own because
the code does them outside the lock. `Crash` forgets the cache and keeps `disk`.
`ufs_breadahead` and `ufs_sync_bufs` are sequences of modelled calls. One device
is modelled; caches of different devices share nothing but the device map.

**Mounts.** A thread's `pc` is its place in `bcache_for`, `ufs_bcache_init` or
`ufs_bcache_destroy`, `goal` says for whose sake it is there: a call on a mounted
volume ("use"), a mount ("init", "fill"), an unmount ("flush", "close") or the undo
of a mount ("undo", "close"). The critical section of the map's lock is `Find`,
`Insert` or the part of `Destroy` that moves the last entry; `ReadEntry` is the
return statement of `bcache_for`, after the lock. Devices, caches and super blocks
are addresses that are used again. `gone`, `crossed` and `misled` are history;
after a lookup has returned another device's cache (`misled`) the model stops,
because a real run has no defined behaviour from there.

**ClusterCache.** `chain` is the part of the FAT that belongs to the inode. A
loop of a damaged volume is a chain written out past the limit at which the code
gives up. The critical sections of `cache_lru_lock` are the steps `Lookup`,
`AddToCache` and `InstallEntry`; the lock is dropped between the last two, as in
`fat_cache_add`. Reading one FAT entry is `Follow`.

**FatTable.** A file is an in-core inode and the thread working on it. The scan
and the freeing loop take one step per entry under `fatLock`; `Walk` and `Link`
do not hold it. `volume` says which clusters are bad and whether the device may fail;
on one that may, reads and synchronous writes can fail at any entry. The
constants say what kind of FAT it is: with `Half = 0` entries have bytes of their own,
with 16 they are those of FAT12, and `Put` then changes the other entry of the pair as
`fat12_ent_put` does, without anything else being adjusted. `prevFree` is unsigned, and
the scan begins at `prevFree + 1` taken for an int (`AsInt`); `Word` is 2^32. FAT
mirroring copies the same values elsewhere and is left out. Truncation is
`fat_free`; its caller `fat_setattr` is called by nobody, so it is a possible
step of the driver rather than one of the API.

**FileIO** counts positions in sectors and has the length of the chain in place
of the chain: which clusters it has and how they are found is what the two
modules above are about. `ours` says that the chain ends with the mark this
driver writes. It matters because `fat_file_write` compares the result of
`fat_get_cluster` with `FAT_ENT_EOF` (0x0fffffff), which only a FAT32 chain
ends with that this driver has written; in the other cases the code takes the
branch `Extend` instead of `AddCluster`. `volume` says whether `fat_bits` is 32
and whether the device may fail. When the write of a link fails (`misc.c:159`) the link
is in the buffer while `fat_add_cluster` gives the cluster back: `stray` counts the
clusters behind such a link, which `fat_bmap` maps like the file's own, and which other
files may take, link on and free (`Others`).

**FatDir** takes a call as one step: no lock of the code makes two calls on one
directory wait for each other, and docs/vfs-completeness-analysis.md:99 assumes
a single thread. A directory is a sequence of slots, `pos` of an open file is
its `i_pos`, or 0 if the inode comes from a lookup and has no
`i_parent_dir_ino`. A file has one cluster. `Uses` lists what the callers do
beyond what a careful one would; each property is checked with the uses under
which the code keeps it, which section 4 names. "reuse" is one of the volume: it may be
`aged`, which means that free clusters hold old bytes. When a directory of an aged volume
grows, the zeroes of `fat_add_entries` do not reach the device (section 4), and what was in
the cluster are entries, with any names, starts and sizes, which searches by name and by
start find like all others.

**FatTree** takes a call apart where its effects reach the device: the cluster
(`Make`, `Drop`), the entry (`AddEntry`, `RemoveEntry`) and the two entries of a
rename (`RenameBegin`, `RenameAdd`, `RemoveEntry`). Directory entries are written
through, so there is one `content`; the FAT has a cached (`used`) and a stored
(`disk`) version, which `Flush` and `Evict` bring together. `Crash` is a loss of
power at any moment; what is left is looked at and not worked on. Evictions and
crashes happen when `power` is "on"; a behaviour that starts "steady" has neither,
and may use more clusters (`MaxCut`), which keeps the instance small. Clusters keep
what they held when they are freed. What files, and whatever was on the device before,
leave in them is `Bytes`, read as the slots of a directory: a file's cluster gets some
when it is made (`Write`), every cluster but the root has some at first (`Init`), and
`NewDir` may show them as entries. `NoOldEntries` says that none of them looks like an
entry; the slots of removed directories are shown in any case. What is below a directory is the smallest set that is closed under going
on to subdirectories (`Closed`, `Descendants`), so that it is the same for TLC, which
looks for it among few clusters, and in the proofs.

**PathWalk** has paths as sequences of tokens. `Find` and `IsDir` are parameters;
`FatTree` puts its directories there, so that ".." is an entry that is looked up,
as in the code. `Visited` has where the loop of `ufs_path_walk` is after each token.

**FatLayout** takes a boot sector that a formatting program writes (`Formatted`)
and computes `msdos_sb_info` as `fat_set_sb_info` does; `EntBlocks`, `Mirrored`,
`RootBlocks` and `Bmap` are the sectors that the FAT functions and `fat_bmap`
then use. **FatTime** lets time pass and looks at the stamps.

## 3. Runs

| Run | Bounds | Checked |
|---|---|---|
| `cache_shared` | 3 blocks, 2 threads, 2 buffers | `LruSound`, `ReferencesHold`, `FlushWalksTheList` |
| `cache_serial` | 3 blocks of 2 values, 1 thread, 2 buffers | `SyncedOnDisk`, `FlushedOnDisk`, `ImplementsStore` |
| `chain_shared` | 2 threads, a chain growing from 0 to 4 clusters in any order behind the first and one with a loop, 2 cached runs; 299,205 states | `CacheSound`, `ClusterFound`, `EndFound`, `SlotsCounted`, `LoopIsReal`, `WalkEnds` |
| `fat_shared` | FAT16 or FAT32, 2 files, clusters 2 to 6 with a bad one, or, on a device that may fail, with only the first and the last one good; words of 5 bits, 4 hints: none, one beyond the end, the least too large for an int, the largest number; 1,551,462 states | `NoCrossLinks`, `NoDanglingLinks`, `NoLeaks`, `FreeCounted`, `ScanInside`, `NoSpaceIsReal`, `LockReleased` |
| `fat12_table` | FAT12, 2 files, clusters 2 to 5 | `NoLeaks` is violated |
| `formats` | half bytes of 3 values; days around 1980, 2000 and 2028; volumes of up to 711 sectors and of 4084 and 4085 clusters | `ReadsBack`, `StampsOrdered`, `SectorsApart` |
| `file_shared` | positions to 5, 2 sectors per cluster, 3 clusters, FAT16 and FAT32 volumes whose device may fail or not | `SizeBacked`, `ReadComplete`, `WriteEndsWithRoom` |
| `dir_root` | FAT32, 3 names, 2 slots per cluster, 5 clusters | `SizeRecorded`, `NoLeaks`, `EntriesKept`, `ImplementsNameSpace` |
| `dir_two` | fixed root and one subdirectory, 2 names, 2 handles, 3 clusters, 1 slot per cluster, all `Uses`, one open file at a time on volumes with old bytes (`OneOpenIfAged`); 63,144 states | `StartsOwned`, `RenameKeeps` |
| `tree` | 3 clusters (2 with crashes), any of them bad, 3 slots, 3 names of which two are one in the directory, the 109 paths of up to four tokens, clusters whose old bytes are two free slots around one that is skipped (`Blanks`); 144,241 states | `UsedOnce`, `SyncedSurvives`, `PathsAgree`, `ImplementsNameTree` |
| `mounts` | 2 threads, 3 devices and caches, 2 super blocks, 2 entries in the map, 3 mounts | `MapSound`, `NothingLeaks`, `LookupOwn`, `RootIsCurrent` |
| `tree_rmdir` | as `tree`, with a fixed root and a caller who does not list a directory before removing it | `RmdirOnlyEmpty` is violated |

Why these bounds are enough for the case each run is about:

- With three blocks and two buffers every miss of the third block evicts or
  finds both buffers referenced, and two threads suffice for each race over a
  buffer, a counter or the list: no step of the code involves three threads.
- A chain of four clusters on four numbers is fragmented in every possible way (the
  first cluster is `i_start` and in no run, so its number is fixed, by the constraint
  `StartsAtTwo`), gives more runs than the two cache slots, so that the tail is reused, and two
  threads can hold both slots reserved at once, the limit the code's 8 stands for
  (`MaxCache` must be at least the number of threads, or there
  is no tail to reuse when all slots are reserved: `ClusterAssumption` says so). A loop of two with a
  tail reaches the limit.
- `fat_shared` has four good clusters for two files, so chains of three exist next
  to another file's, and the scan wraps around a bad cluster; where the device may fail
  there are two, enough for a full volume and for a link that fails. `Word` stands for
  2^32. Being small it shows a wrong wrap of `free_clusters`; being more than
  twice the clusters, as the code's is, it has hints beyond the end that are ints, the two at
  which `prev_free + 1` is the least int and 0, and numbers between. In `fat12_table` two
  pairs of entries are enough for one pair to be changed, in a single allocation.
- `Fat12Entry` with half bytes of three values has 3^6 contents of the bytes; the
  shifts and masks do not depend on the base, and the proof is for sixteen.
- Six sector positions over three clusters of two sectors: in the middle and at
  the border of a cluster, at and beyond the end, and a full volume.
- In `dir_root` both slots of the first cluster are taken (`Taken`), so that the first
  creation extends the directory and the third does so again. One slot per cluster in
  `dir_two` is one free slot left: a second file makes the subdirectory extend, at the
  size of 0 that its inode has after a lookup. An aged volume has any one old slot in
  the cluster: a free one, one that is skipped, or any entry.
- Three clusters give a directory in a directory with a file in it, and a directory
  moved from one to another; a bad cluster leaves two, and a full volume. Three
  slots are the two of the dots and one that is not in the first block. Old
  bytes are two free slots with one that is skipped between them: a new directory has
  them in all of its slots, and room for two entries, or in the third one, beside
  its dots. Four tokens write a component with slashes
  around and between, and dots.
- A map of two entries is full with two mounts while a third is under way, and the
  entry removed is the first, into whose place the last one moves, or the last. Two
  threads are enough to remove an entry and insert one while the other is between the
  unlock and the read. (With three entries, 715,000 states, and with
  three threads, 1.7 million states, all four properties hold as well.)
- The volumes of `formats` have each FAT size that fits into few sectors, root
  directories that fill their last sector and that do not, 12-bit entries that lie
  across two sectors, one and two copies of the FAT, and the two numbers of clusters
  at which the code changes from FAT12 to FAT16.
- `MaxInval`, `MaxPos`, `MaxSize`, `Limit`, `MaxCut`, `MaxMounts`, `Years` are bounds in guards, named in the
  `CONSTANTS` of their modules; `StartsAtTwo` and `OneOpenIfAged` are constraints of
  two runs, defined in their MC modules.

Symmetry is used in `cache_shared`, `dir_*`, `tree*` and `mounts`, none
of which checks a liveness property; no constant of a symmetric set is singled
out by the specification. Each module has a `TypeOK`, which says what its variables
are. For `BufferCache`, `ClusterCache`, `FatTable`, `Fat12Entry`, `FatDir`, `FatTree`,
`FileIO` and `Mounts` it is proved (section 5); for the others it holds in the instances
above and is not repeated in their configurations.

### What the properties say

Buffer cache. *LruSound*: no block is twice in the list, the list holds the
cached blocks, `nr_bufs` is its length and within `UFS_BCACHE_MAX_BUF`.
*ReferencesHold*: who holds a pointer holds a cached buffer, and `b_count`
counts the holders. *FlushWalksTheList*: what a flush has still to visit is a
tail of the list, whatever others want to do meanwhile. *SyncedOnDisk*,
*FlushedOnDisk*: when `ufs_sync_buf` or `ufs_bcache_flush` return 0, the device
has the contents. *ImplementsStore*: to one thread that uses `ufs_bread`, cache
and device together are a `BlockStore`: reads give what was last stored, and
only a crash or a write-back that the device has refused takes a block back to
what the device holds.

Chain cache. *CacheSound*: each cached run agrees with the FAT. *ClusterFound*,
*EndFound*: `fat_get_cluster` finds what a walk from `i_start` finds, and the end
to which `fat_chain_add` links is the end. *SlotsCounted*: `nr_caches` is entries
plus reservations, and no run starts twice at the same place. *LoopIsReal*, *WalkEnds*: a
loop is reported of loops only, and the walk returns.

FAT. *ScanInside*: a scan from a `prev_free` below 0x7FFFFFFF looks at cluster numbers
only, also when its hint is the last cluster or beyond, and one from any other looks at none
and fails. *NoCrossLinks*, *NoDanglingLinks*, *NoLeaks*: each allocated cluster is named
exactly once, by an entry, by the start of a file or by a thread with the
cluster in hand, and nothing names a free or bad one, although `fat_chain_add`
works without `fat_lock`. *FreeCounted*: `free_clusters` is exact. These four are about
devices that do not fail (`~volume.faulty`).
*NoSpaceIsReal*: -ENOSPC is returned only when no entry is free, wherever the
scan starts. *LockReleased*: `fat_lock` is released, also after errors and on
chains that errors have damaged. But for *ScanInside* all of them are of FAT16 and FAT32.

File I/O. *SizeBacked*: `i_size` stays within the clusters of the file until the write of
a link fails. *ReadComplete*: reads are cut at the end
of the file only. *WriteEndsWithRoom*: writes return from FAT16 volumes, however
full, and from FAT32 volumes that neither fail nor fill up again and again,
unless the chain has run into another one that changes meanwhile.

Directories. *StartsOwned*: no two entries share a cluster, and none has a free
one or a directory's, unless old bytes may be entries (`aged`). *NoLeaks*: each cluster is free, a file's or a directory's.
*SizeRecorded*: the entry of a file nobody has open has the size it was written
to, again without old bytes. *EntriesKept*: creating a file destroys no entry. *RenameKeeps*: after a rename
to another name, failed or not, the file is somewhere, with its cluster and size; the
exception (`GrowsOver`) is a full directory whose `i_size` leads to the file's own slot.
*ImplementsNameSpace*: the root directory is a `NameSpace`.

Tree. *UsedOnce*: between calls a cluster is in use if and only if exactly one
entry that a path leads to names it. *SyncedSurvives*: what was there at an
`ufs_fsync` and has not been removed is on the device at every moment, entries and
FAT, in the middle of a rename and after a loss of power. *PathsAgree*: a path comes
to what its components mean, whatever slashes and dots are in it, and walking it is
the same as walking to its parent and searching there, as `ufs_create` and the
others do. *ImplementsNameTree*: the volume is a `NameTree`, also if it is cut off in
the middle of a call. *RmdirOnlyEmpty*: what `ufs_rmdir` removes has nothing in it.

Mounting. *MapSound*: the map has each cache once, under its own device, which is
open, and every mounted volume has one. *NothingLeaks*: whichever step of a mount
fails, a device is open only for a mounted volume or a call in progress. *LookupOwn*:
`bcache_for` returns the device's own cache though it reads the entry after the lock.
*RootIsCurrent*: `ufs_iget` finds the root inode of the volume that is mounted now.

Formats. *ReadsBack*: get undoes put of the same entry; what a put does to the other entry
of the pair is a finding (section 4). *StampsOrdered*: a later time never has an earlier
stamp. *SectorsApart*: no sector has two uses.

Each property of a passing run has a mutant in its module, a definition with a
plausible mistake (an uncounted slot, an unlocked flush, a swapped read and
write); with the mutant in place of the definition TLC finds it violated.

### Fairness

- `ClusterCache!FairSpec`: a thread inside `fat_get_cluster` goes on. It holds no
  lock between its steps and waits for none that another thread keeps.
- `FatTable!FairSpec`: the thread that holds `fat_lock` goes on. Nothing is assumed
  of threads that wait for it, which POSIX mutexes would not justify.
- `FileIO!FairSpec`: the thread inside a call goes on; nothing is assumed of others.

## 4. Where code and documentation disagree

Two runs end in a violation on purpose; their entries in the `findings` of
`PROJECT.json` quote the text.

- `tree_rmdir`: `fat_dir_empty` passes over the first two slots ("Skip "." and
  ".."", `dir.c:229`). `fat_alloc_new_dir` puts the dots there, but in a buffer from
  `ufs_bget`, which `ufs_sync_buf` does not write unless it was up to date before
  (`block_io.c:512`). The directory on the device then has no dots, the first two
  files made in it take their slots, and `ufs_rmdir` removes it with the files.
- `fat12_table`: `fat12_ent_get` and `fat12_ent_put` take the low half of the middle byte
  of a pair for both entries, as the high bits of the even one and the low bits of the odd
  one (`fatent.c:107`, `:133`), and the high half for none; docs/fat-changes-analysis.md:325
  has the masks of the get among the severe bugs. Every put of an entry changes the other
  one: the first allocation on an empty FAT12 volume takes cluster 3, and the entry of
  cluster 2 then reads 0xF00 and is in use without an owner. `FreeCounted` fails in this
  configuration too, and in one with clusters 2 to 7 `NoCrossLinks` and `NoDanglingLinks`,
  since links of other files change in the same way, so that nothing is claimed of FAT12 but
  what is said of its entries one at a time, of where they are, and `ScanInside`.

What the models also show to go wrong when a configuration is changed as said:

- `BufferCache` with `GetBlocks` not empty: `SyncedOnDisk` and `FlushedOnDisk` fail.
  Only `read_into_buf` sets `b_uptodate`; what was stored into a buffer from
  `ufs_bget` is written by neither sync nor flush, and the next `ufs_bread` replaces
  it, although `ufs_block_io.h:92` promises a sync. So the zeroed blocks of a new
  directory cluster (`dir.c:317`) and the further copies of the FAT
  (`fatent.c:268`) may never reach the device.
- `FileIO` without `WriteEndsWithRoom`'s exception, that is `WriteEnds` alone:
  `fat_file_write` ignores the result of `fat_add_cluster` (`vfs_file.c:111`) and, on
  a full FAT32 volume, goes round for ever.
- `FatDir` with "remount" in `Uses` and a root of more than one cluster:
  `fat_fill_super` sets the size of the root directory to one cluster whatever its
  chain (`fat_fs.c:260`), and `fat_add_entries` writes the first entry of an extension
  at that size (`dir.c:327`): `EntriesKept` fails.
- `FatDir` with a subdirectory in `Dirs`: `fat_add_entries` takes `dir->i_size` for "the
  first slot of the extended area" (`dir.c:326`). The size field of a directory's entry is
  0, and each lookup builds the inode of a subdirectory anew from it (`vfs_inode.c:82`): the
  entry for which a subdirectory grows is written over its first slot, and `EntriesKept`
  and `NoLeaks` fail.
- `FatDir` with "reuse" in `Uses`: `fat_add_entries` "zero[es] out the new cluster"
  (`dir.c:313`), also in buffers from `ufs_bget`, and on the device the cluster keeps what
  it had. If that looks like entries, a create makes names appear that nobody has created;
  a lookup finds them, an unlink frees the clusters they name, which may be another file's,
  and `fat_scan_logstart` may find one of them in place of the entry whose size is recorded.
  Of the properties of `dir_root` and `dir_two`, `NoLeaks`, `EntriesKept` and
  `RenameKeeps` hold all the same; `StartsOwned` and `SizeRecorded` do not, which is why they
  are about volumes that are not `aged`, nor does `ImplementsNameSpace`, which fails with
  the first name that appears.
- `FatTree` with `Bytes` in which a slot is an entry: `ufs_mkdir` makes a directory of a
  file's old cluster (`dir.c:428`), and what was a file's data is now a path to a cluster that
  is free or in use elsewhere. `UsedOnce` and `ImplementsNameTree` fail.
- `FatTree` with more `Uses`. "overwrite": a rename removes the target's entry and
  leaves its cluster in use (`namei.c:289`); all properties of the run fail.
  "recreate": two entries with one name (`namei.c:119`). "self": renaming to the same
  name removes the file (`namei.c:311`). "inside": a directory moved into itself is cut
  off. "slash": `ufs_rename` does not look at an empty last component
  (`api.c:286`), so a path that ends in a slash moves the file into the root under a
  blank name. "unlink": `vfat_unlink` takes a directory for a file (`namei.c:160`).
- `FatLayout` with sectors of more than 512 bytes: `fat_bmap` shifts by
  `cluster_bits - 9` (`cache.c:276`) whatever the size of a sector, and skips clusters
  or finds the same ones twice; `SectorsApart` is about 512 bytes.
- `FatTime`: the stamp has `tm_year`, years since 1900, where directory entries have
  years since 1980 (`misc.c:102`): 2026 is read elsewhere as 2106. The comment at the
  clamp says "after 2107" (`misc.c:91`), the code clamps after 2027.
- `Mounts`: `bcache_for` may return another device's cache when a volume is unmounted
  and another one mounted between its unlock and its return (`block_io.c:311`).

More behaviour of this kind, which is why some properties are claimed under
conditions:

- Two threads in `ufs_bread` of one block both read the device, outside the lock
  (`block_io.c:430`), and the later read wipes out what the faster thread has
  stored. `SyncedOnDisk`, `FlushedOnDisk` and `ImplementsStore` are about one
  thread; they fail with two clients.
- `next_free > 2` is all that the mount asks of FSINFO's hint (`fat_fs.c:246`), and the
  unsigned hint plus one goes into an int (`fatent.c:359`). Every hint from 0x7FFFFFFF on,
  among them the 0xFFFFFFFF that stands for "unknown", starts the scan at a negative entry
  or at entry 0, and every allocation fails with -EIO. `ScanInside` says that it is exactly
  these hints, and `NoSpaceIsReal` that the volume is not taken for full.
- When the write in `fat_chain_add` fails (`misc.c:159`), the link stays in the cached FAT
  and the cluster is freed (`vfs_file.c:72`). On FAT32 the loop of `fat_file_write` goes on
  (`vfs_file.c:111`), `fat_bmap` maps the freed cluster, and `i_size` grows over it; another
  file may take it meanwhile. `SizeBacked` holds until then, and without the condition
  `stray = 0` it fails.
- `NoCrossLinks`, `NoDanglingLinks` and `NoLeaks` of `FatTable` are about devices that do
  not fail: besides the failing link, a read error in the middle of `fat_free_clusters`
  loses the rest of the chain.
- `NoLeaks` of `FatDir` fails with "overwrite" in `Uses` (a rename does not free
  the clusters of the file it replaces, `namei.c:289`) and with `FixedRoot` (a
  cluster is chained to a root that cannot grow, `dir.c:310`).
- Renaming a file to its own name ("self") removes it (`namei.c:311`);
  `RenameKeeps` is about two names. A file that is renamed within a full subdirectory and
  whose entry is in the first slot is lost: the copy is written over it, as said above,
  and then removed as the old entry (`namei.c:311`). `RenameKeeps` excepts that.
- The size of a file that was opened in a subdirectory is not recorded
  (`vfs_inode.c:132`); `SizeRecorded` is checked of the root directory.
- With two handles on one file the one closed last sets the size.
- With a name created twice, `ImplementsNameSpace` fails: `vfat_create` does not
  look for the name.
- The ".." of a directory that is moved stays as it was (`namei.c:307`), and that of
  a directory whose dots never reached the device is missing: `PathsAgree` asks for
  both to be right.
- Long names are cut to 8.3 (`namei.c:16`) and found under the short name only: `Sfn`
  is part of what `ImplementsNameTree` promises.
- ".." of a directory in the root of a FAT12 or FAT16 volume names cluster 0, from
  which the driver reads nothing: `FatTree` with `FixedRoot` has such an inode, from
  which no path goes on.
- What was made after the last `ufs_fsync` may, after a loss of power, have an entry
  that names a cluster which is free on the device; `SyncedSurvives` is about what
  was synced.

## 5. Proofs

`BufferCacheProofs` proves, for any finite or infinite set of blocks and values,
any finite set of clients and any limit on buffers (`BufferAssumption` in
`BufferCache`), with all interleavings, failures and crashes:

- `Inductive`: `Spec => []IndInv`;
- from it `LruAlwaysSound`, `ReferencesAlwaysHold` and `FlushAlwaysWalksTheList`.

None of the three is inductive. Whether an eviction keeps the references needs
that a victim has `b_count` 0 *and* that the count is the number of clients that
point to the buffer; that the list stays without repetitions needs that a miss
is a miss in the list, so that list and table agree; that a flush sees a tail of
the list needs that the one flushing holds the lock. `IndInv` therefore adds
`TypeOK`, `ContentsValid` (contents exist for cached blocks), `Pointing` (the
places in which a client holds a buffer) and `Locking` (the lock is held exactly
in the places of a flush). `StepKeeps` goes
through the actions; `GetBufferKeeps`, `UseKeeps`, `ReleaseKeeps`, `FlushKeeps`
and `EmptyIsSound` do one group each. The arguments about the list come first
(`RemoveProps`, `PushProps` and `MoveToFrontProps`, for a list in which each
element occurs once), the ones about counting clients in `AcquireCount` and
`ReleaseCount`, from the theorems on finite cardinalities.

Three more are about callers that use `ufs_bread` only (`GetBlocks = {}`; section 4 says
what `ufs_bget` does) and of whom no two are in a call at once (`[]OneAtATime`; two
readers of one block do undo each other's stores):

- `SyncedAlwaysOnDisk` and `CacheImplementsStore`, the refinement of `BlockStore`. On top
  of `IndInv` one needs that every cached block that is up to date and not dirty is as on
  the device, and so is the one just written; that only such blocks are dirty, and that
  what a caller holds is up to date (`CacheAgrees`). `StepAgrees` shows with it, action by action, that a step is
  one of `BlockStore` or leaves the abstract contents alone.
- `FlushedAlwaysOnDisk`, of one caller, because another one may store between the end of
  the flush and its return. `FlushCleans` says that what the flush has passed in the
  list is clean unless a write has failed.

`ClusterCacheProofs` is about any chain and any chains with a loop that outlast the
limit, any number of threads and any limit on cached runs that is not below it
(`ClusterAssumption`), and proves every safety property of the run (`CacheAlwaysSound`,
`ClusterAlwaysFound`, `EndAlwaysFound`, `SlotsAlwaysCounted`, `LoopAlwaysReal`). The
invariant says, besides that the entries agree with the chain (`ListSound`), what a thread
may rely on where it stands without the lock (`ThreadSound`): it is on the cluster it
believes to be on (`Placed`); the run under collection agrees with the chain and ends
where it stands; and one that has met the end of the chain is still at the end if it is
the writer (`Ended`), since nobody else appends. Without this last part
`EndFound` is not inductive: a reader's end may be out of date, a writer's not. Chains only
get longer, so `FitsGrown` carries all of it over an extension. `MergeKeeps`, `FrontKeeps`,
`PushKeeps` and `DropKeeps` are the operations on the list. That the tail exists when all
slots are taken (`TailExists`) is a count: a thread that is about to install has one
slot reserved, and there are no more threads than slots.

`FormatProofs` has the three formats; its theorems are about `FormatsSpec`, in which a
behavior is one of any of them.

- `ClustersAreApart`, for any boot sector that is accepted and well formed, of any sector
  and cluster size, and `SectorsAreApart`, for any with sectors of 512 bytes and a power of
  two of them in a cluster (`PowersOfTwo`, which FAT prescribes and `fat_bmap`'s shifts
  need). `RowsApart` and `RowsInside` are the arithmetic of rows of sectors,
  `RegionsSound` and `RegionsInOrder` that what `fat_set_sb_info` computes is natural and
  in order, `MirrorInside` that entries and their copies stay before the root directory.
- `AlwaysReadsBack`, for half bytes of sixteen values, the code's. H = 16 is a hypothesis because the solver multiplies and divides by numerals only.
- `StampsAlwaysOrdered`, from any day and time of day that `gmtime_r` may return
  (`RealTimes`). Days and times are compared by fields (`DaysOrdered`,
  `ClockOrdered`), so that the packing by shifts is monotonic although it wraps for years
  that do not fit.

`FatTableProofs` is about any finite set of files, any number of clusters, any
bad clusters and any hints of a word (`FatAssumption` and `VolumesAssumption` in
`FatTable`). The first and third of
these theorems are about every kind of FAT; the others have the hypothesis `~Fat12`, without
which they do not hold (section 4).

- `TypeAlwaysOK`: types, and for each place of an operation what the thread has
  in hand there (`Phases`), with failing reads and writes.
- `NoSpaceAlwaysReal`, also with failures and with any hint: -ENOSPC means a full volume.
  The invariant (`SearchInv`, `SearchAlwaysSound`) is that the entries within `tried` steps behind the scan,
  counted around the end (`Behind`), are in use. They stay in use because freeing
  needs `fat_lock` (`LockHeld`), and because the one write to the FAT without the
  lock, `Link`, stores the number of a cluster.
- `ScanAlwaysInside`, for any hint: the scan stays among the clusters if `prev_free` is
  below half a word less one, and looks at none if not. A `prev_free` that comes from a
  `Take` is a cluster and below it, so that what is to be shown of a scan under way is that
  it began where its `prev_free` says (`InsideInv`), which the lock keeps as it is
  (`LockAlwaysHeld`).
- `ChainsAlwaysSound`, for a device that does not fail: `NoCrossLinks`,
  `NoDanglingLinks` and `NoLeaks` are inductive together once one adds `WalkSound`
  (the walk of `fat_chain_add` stands on a cluster that is neither bad nor the new
  one). The argument is one about names: `SameSteps` are the steps that change
  none, `EntryMoves`, `LinkMoves`, `FreeChainMoves` and `FreeMoves` move one name
  (`Moved`), which keeps each name the only one (`MovedCross`), and `Take` names a
  cluster that was free and hence, by `NoDanglingLinks`, without a name.
  `NeverCrossLinked`, `NeverDangling` and `NeverLeaking` follow.
- `AlwaysCounted`: on such a device, and if the mount has counted
  (`CountedAtMount`), `free_clusters` is exact. What is freed is in use, because
  its thread has its name, so that each change of the table is a change by one.

`FileIOProofs` proves `SizeAlwaysBacked`, `WrittenAlwaysInside` and
`ReadAlwaysComplete` for any cluster
size, any volume and any bound on positions (`FileAssumption`), with other files
taking and giving back clusters and with failing devices. What the first two say of clusters,
they say until the write of a link fails (`stray = 0`): from there on `i_size` grows over
clusters that are not the file's (section 4). The invariant `IndInv`
adds where the loops stand (`LoopSound`: once a write has gone on by a sector,
what it has behind it is within `i_size`, without which a call that returns could
report more than the file has) and that a chain and the free clusters together
fit the volume (`ClustersCounted`, so that a chain does not outgrow it). For the reads it
is strengthened by `ReadSound`, what is done and what is left are together what the call
began with; a read that stops early would then stop at a sector before `i_size`, which by
`SizeBacked` is mapped.

`MountsProofs` is about any sets of threads, devices, caches and super blocks and any
`UFS_MAX_BDEVS` (`MountsAssumption`): `MapIsSound`, `MountsLeakNothing`,
`LookupsFindOwn`, `RootsAreCurrent`. That the map stays sound when a thread inserts
needs that its device is not there, although it looked long ago and without the lock:
`DevicesOwned` says that nobody else works on a device that is being mounted or
unmounted, and that such a device belongs to no mounted volume; `PlacesSound` says in
which places of a call the device is in the map (`Missing`) and that what a lookup
returned is still the device's own. `FoundSound` is about a thread that has let go of
the lock: the entry it will read is behind the end only if an entry was removed
meanwhile, and another one's only if one was then inserted. `LookupOwn` follows. For
the removal, `OneEntry` and `EntryGoes` show that moving the last entry into the gap
keeps all others, also when the gap is the last entry. `RootIsCurrent` is inductive
with these, because a super block is taken only when no volume is mounted at it.

`FatDirProofs` is about any sets of directories, names, clusters and handles, any number
of slots in a cluster and both kinds of root directory (`DirAssumption`). On an `aged` volume
directories grow into any old bytes, entries with any names and starts among them. Lemmas on tables of slots (`ClearProps`, `StoreProps`, `ExtendProps`,
`AddEntryGives`, `CreateGives`, `RenameGives`) say what a call does to the files in a
directory; the invariants are about these.

- `StartsAlwaysOwned`, `TypeCorrect` and `RenameAlwaysKeeps`, whatever the callers do; the
  first is about volumes that are not `aged`. `OwnInv` adds to it that free clusters and those of directories are disjoint and that the root's
  `i_size` is at least a cluster. It holds also where the directory grows over one of its
  entries, because a file then loses its only entry and none gets a second.
- `EntriesAlwaysKept`, for a root directory that is not mounted again (`OneDir`),
  whatever else the callers do and whatever it grows into: its `i_size` is then its length
  (`RootFresh`).
- `NeverLeaks`, for such a root directory that can grow, with callers that neither replace
  a file nor rename one to its own name: a cluster that is neither free nor the
  directory's has an entry (`Placed`). Old bytes that become entries add entries; an
  unlink through one frees a cluster that others name, which `NoLeaks` does not mind and
  `StartsOwned` does.
- `SizeAlwaysRecorded`, for callers that leave open files alone and replace none, on
  volumes that are not `aged`.
  The property is about files that nobody has open, so the invariant is about the others:
  an open file is open once (`HandlesApart`), its entry is in the slot its inode knows,
  and is not ahead of it (`HandlesFound`).
- `RootIsNameSpace`, the refinement of `NameSpace`, for careful callers and without
  "reuse" (`Uses = {}`). A name has one entry (`NamesOnce`), so that an operation on slots is one on the map
  `SizesOf`, wherever the entry is put.

The hypotheses are those under which section 4 says the code keeps the property. None can
be dropped: with one directory more, one use more, or a root directory that cannot grow,
TLC finds a behaviour that breaks the property (three names, two handles, five clusters
and one slot per cluster are enough for all of them).

`FatTreeProofs` is about any set of clusters, any number of slots in them, any names and
paths, both kinds of root directory, and volumes with any bad clusters
(`TreeAssumption`, `TagAssumption`, `BytesAssumption`; what the first assumes of names is that
`vfat_build_sfn` of a short name is that name). Flushes, evictions and a loss of power may
come between any two steps of a call.

- `TreeInvariant`: `Spec => []IInv`; from it `AlwaysUsedOnce`, `SyncedAlwaysSurvives` and
  `TreeTypeOK`.
- `AlwaysANameTree`, the refinement of `NameTree`.
- `PathsAlwaysAgree`, for paths of any length.

The first (with what follows from it) is for callers who do no more than make a name that is
taken (`Careful`), the other two for those who do not even that (`Uses = {}`). All are for volumes on which
nothing that files or earlier volumes have left in clusters looks like an entry
(`NoOldEntries`); in a directory made of a cluster in which something does, the code takes it
for an entry, and the theorems do not hold (section 4). What removed directories have left
needs no hypothesis.

`UsedOnce` and `SyncedSurvives` are about what paths lead to, which an invariant can hardly
follow from step to step: it changes with everything that is moved. `IInv` is therefore
about entries wherever they are. No two of them name one cluster (`NamedOnce`), what is
named is in use and nothing else is, but for the cluster that a call has in hand
(`Accounts`), and a path leads to every directory that has an entry in it (`AllLive`), so
that what a freed directory has left in a cluster is never taken for entries of
the tree. In the middle of a rename there are two entries; `Counted` leaves out the old one
from the moment when the new one is there, and `Live` is what can be reached by entries that
count. The rest says what a call may rely on from what it has looked at: that the directory
into which it adds is still there (`AddSound`), and is not below what it moves
(`RenameSound`), and that nothing is below what it removes (`RemoveSound`).

What can be reached (`Reach`) is the smallest set closed under a step. This takes the place
of an induction over the depth of the tree: whatever set is shown to be closed bounds it.
`ReachGrows` is used where an entry is added, `ReachWithoutLeaf` where one is removed, and
`ReachMoved` in a rename: a subtree stays within reach when the entry that leads to it
moves to a directory outside of it. `NewEntryKeeps`, `LeafGoes`, `NewContentKeeps` and
`SameEntriesKeep` carry the invariant over what can happen to slots, and the lemma of each
action (`MakeKeeps` to `CrashKeeps`) says which of these it is.

For the refinement, `TreeListed` shows that the abstract tree has the entries that count;
`AddEntryMakes`, `RenameAddMoves` and `RemoveEntryDeletes` are then the three operations of
`NameTree`, and all other steps leave the tree alone (`StepChanges`). That no
directory is moved below itself is said with `Inside` of the volume and with `Subtree` of
the abstract tree; `NotInSubtree` relates the two.

`PathsAlwaysAgree` compares two loops over a path. `TurnsAgree` is one turn, from an inode
that either can be at: a search finds what the tree has in the directory (`FoundIsChild`),
and ".." what it has the directory in. `LoopRuns` and `UpTo` are induction over the length
of the path, stated about sets. `SplitAt` says where `ufs_path_split` cuts, and
`ParentVisited` that the parent it gives is where the walk is before the last component.

The hypotheses are those of section 4 again: with any other use, or without
`NoOldEntries`, `UsedOnce` fails, and with "recreate" the refinement and `PathsAgree` do.

Only model-checked: liveness (`WalkEnds`, `LockReleased`, `WriteEndsWithRoom`), which the
prover does not treat. Every safety property, action property and refinement that a passing
run checks is also proved.

## 6. Limits of the models

- Contents of blocks are values; no module relates the bytes of a directory block
  or a FAT sector to entries, other than `Fat12Entry`. That the bytes of a file may be
  entries is in `FatDir` ("reuse") and `FatTree` (`Bytes`), which bytes are not.
- On FAT12 only `FatTable`, `Fat12Entry` and `FatLayout` say what the code does. The
  chains of `ClusterCache`, `FileIO`, `FatDir` and `FatTree` are those of FAT16 and FAT32.
- `fat_get_cluster` takes a number from `max_fat` on (0xFF4 and 0xFFF4) for the end of a chain
  (`cache.c:222`), while a FAT12 volume may have clusters up to 0xFF5 and a FAT16 volume up
  to 0xFFF5: on the largest volumes a link to one of the last two ends the chain.
  `ClusterCache` has chains of clusters below that boundary, and `FatTable` assumes that
  `max_fat` is not among the clusters.
- `FatDir` has one cluster per file, one thread, and no failing device. `FatTree`
  has one cluster per file and directory, one call at a time, and no failing device;
  a write is either on the device or not, and directory entries are not torn.
- `Mounts` has the root inode of each volume. `fat_build_inode` makes other inodes anew at
  each lookup, without a search in the table. The one other search there is,
  `ufs_iget` of the parent's number in `fat_write_inode` (`vfs_inode.c:132`), is in `FatDir`:
  numbers are counted up by `fat_alloc_inode`, so that it finds the inode of the directory
  in which the file was created (`SizeTo`); for the root it is the search that `Mounts` has. No
  inode is ever freed.
- A boot sector that a formatting program would not write is not an input: the code
  checks its first byte and the sector size only.
- `FatTime` has the offset of the time zone at zero; nothing sets it.
- `FileIO` writes whole sectors. The 32-bit and 64-bit types of positions are wider
  than any file of a FAT volume and are not bounded.
- malloc may fail in `BufferCache`, in `ClusterCache` where the code goes on without
  the memory, and in `Mounts`; elsewhere a call that returns -ENOMEM at once is a call
  that was not made.

### Not modelled

- `fatool`: argument handling and output.
- The file system registry: `ufs_init` enters one type and `ufs_cleanup` removes it.
- `fat_time_fat2unix`, `fat_truncate_atime`, `fat_truncate_time`, `fat_clusters_flush`,
  `fat_evict_inode`, `fat_subdirs`: nothing calls them, or only what nothing calls.
- Limits on the length of a path (255 and 1023 characters) and on long names.
- Byte order, attributes and modes: data.

## 7. Plan

What is left, in this order:

1. `FatTable` on a failing device: which clusters an error may leave without an owner.
2. `FatTree` on directories of more than one cluster, which `FatDir` has one at a time.
