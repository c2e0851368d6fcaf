------------------------------- MODULE FatDir -------------------------------
(***************************************************************************)
(* Directories and the files open in them: fs/fat/src/dir.c, namei.c and   *)
(* fat_write_inode of vfs_inode.c, under the calls ufs_create, ufs_open,   *)
(* ufs_write, ufs_close, ufs_unlink and ufs_rename of one thread.          *)
(*                                                                         *)
(* Every call is one step.  A directory entry is written through to the    *)
(* device.  A file has one cluster, the one its entry names; how chains    *)
(* grow is the subject of FatTable and FileIO, for FAT16 and FAT32.  Long  *)
(* names, labels, "." and ".." and the entries of subdirectories take up   *)
(* slots.                                                                  *)
(*                                                                         *)
(* Uses says what the callers do beyond the careful: "recreate" a name     *)
(* that is taken, "overwrite" one in a rename, rename a file to its own    *)
(* name ("self"), remove, rename or open a file that is open ("stale"),    *)
(* unmount and "remount"; and what the volume may do: "reuse", hold the    *)
(* bytes of a file or a directory in the clusters that are free.           *)
(***************************************************************************)
EXTENDS Integers, Sequences, FiniteSetsExt

CONSTANTS Dirs,
          Root,
          Names,
          Clusters,    \* those free at the start
          Handles,
          PerCluster,  \* directory slots in a cluster
          Taken,       \* slots of each directory in use by other entries
          FixedRoot,   \* FAT12 or FAT16: the root directory is not a chain
          MaxSize,     \* bound on file sizes
          Uses,
          Empty, Other, Closed, Absent

Entry == [name : Names, start : Clusters, size : 0 .. MaxSize]

\* pos, an index into the slots of dir, is that of i_pos; 0 if the inode is
\* not fresh from vfat_create.
Handle == [dir : Dirs, pos : Nat, start : Clusters, size : 0 .. MaxSize]

ASSUME DirAssumption ==
  /\ Root \in Dirs
  /\ PerCluster \in Nat \ {0}
  /\ Taken \in 0 .. PerCluster
  /\ MaxSize \in Nat
  /\ FixedRoot \in BOOLEAN
  /\ Uses \subseteq {"recreate", "overwrite", "self", "stale", "remount", "reuse"}
  /\ {Empty, Other} \cap Entry = {}
  /\ Empty # Other
  /\ Closed \notin Handle
  /\ Absent \notin 0 .. MaxSize

VARIABLES slots,     \* the slots of each directory
          rootSize,  \* i_size of the root inode, in slots
          free,      \* free clusters
          dirOwn,    \* clusters the directories have grown by
          handles,   \* open files
          written,   \* history: how far ufs_write has come in each cluster
          aged       \* free clusters hold old bytes

vars == <<slots, rootSize, free, dirOwn, handles, written, aged>>

TypeOK ==
  /\ slots \in [Dirs -> Seq(Entry \cup {Empty, Other})]
  /\ rootSize \in Nat
  /\ FixedRoot \/ rootSize <= Len(slots[Root])
  /\ free \subseteq Clusters
  /\ dirOwn \subseteq Clusters
  /\ handles \in [Handles -> Handle \cup {Closed}]
  /\ written \in [Clusters -> 0 .. MaxSize]
  /\ aged \in BOOLEAN

\* The searches take what is neither free nor special for a file.
IsFile(s) == s \notin {Empty, Other}

EmptyCluster == [i \in 1 .. PerCluster |-> Empty]

Init ==
  /\ slots = [d \in Dirs |->
                [i \in 1 .. PerCluster |-> IF i <= Taken THEN Other ELSE Empty]]
  /\ rootSize = PerCluster
  /\ free = Clusters
  /\ dirOwn = {}
  /\ handles = [h \in Handles |-> Closed]
  /\ written = [c \in Clusters |-> 0]
  /\ aged \in BOOLEAN
  /\ aged => "reuse" \in Uses

-----------------------------------------------------------------------------
(* Searching, adding and removing entries.                                 *)

\* Mutant of Room: a slot counts as free unless it is a special one.
RoomButOther(t, d) == {i \in DOMAIN t[d] : t[d][i] # Other}

\* The slots of directory d of table t that IS_FREE finds free.
Room(t, d) == {i \in DOMAIN t[d] : t[d][i] = Empty}

Named(t, d, n) ==
  {i \in DOMAIN t[d] : IsFile(t[d][i]) /\ t[d][i].name = n}

\* fat_search_long stops at the first match.
Slot(d, n) == Min(Named(slots, d, n))

Exists(d, n) == Named(slots, d, n) # {}

Clear(t, d, i) == [t EXCEPT ![d][i] = Empty]

\* i_size of a directory.  The inode of a subdirectory is built anew at each
\* lookup, from an entry whose size field is 0.
InSize(d) == IF d = Root THEN rootSize ELSE 0

\* What the slots of a new cluster read as.  They are zeroed in buffers from
\* ufs_bget that ufs_sync_buf passes over, and ufs_bread fills these again from
\* the device: whatever bytes are there are slots, with names and clusters.
NewSlots ==
  {EmptyCluster} \cup
  (IF aged THEN [1 .. PerCluster -> Entry \cup {Empty, Other}] ELSE {})

\* Outcomes of fat_add_entries: whether it succeeds, the slots, the index
\* of the new entry, and the cluster taken.
Failure(t, took) == [ok |-> FALSE, slots |-> t, pos |-> 0, took |-> took]

AddTo(t, d, e, i, took) ==
  [ok |-> TRUE, slots |-> [t EXCEPT ![d][i] = e], pos |-> i, took |-> took]

\* Mutant of Grown: the entry goes to the last slot before the new cluster.
GrownBehind(t, d, e, c) ==
  {AddTo([t EXCEPT ![d] = @ \o new], d, e, InSize(d), {c}) : new \in NewSlots}

\* The directory is extended by cluster c and e written at the old i_size.
Grown(t, d, e, c) ==
  {AddTo([t EXCEPT ![d] = @ \o new], d, e, InSize(d) + 1, {c}) :
     new \in NewSlots}

\* fat_add_entries: the first free slot, or a new cluster.  A FAT12/16 root
\* cannot grow, but that shows only when the cluster has been added.
AddEntry(t, d, e, avail) ==
  IF Room(t, d) # {} THEN {AddTo(t, d, e, Min(Room(t, d)), {})}
  ELSE IF avail = {} THEN {Failure(t, {})}
  ELSE IF d = Root /\ FixedRoot THEN {Failure(t, {c}) : c \in avail}
  ELSE UNION {Grown(t, d, e, c) : c \in avail}

\* dir->i_size += cluster_size.
Grow(d, took) ==
  /\ dirOwn' = IF d = Root /\ FixedRoot THEN dirOwn ELSE dirOwn \cup took
  /\ rootSize' = IF d = Root /\ took # {} THEN rootSize + PerCluster ELSE rootSize

\* Files that some handle has open.
InUse(c) == \E h \in Handles : handles[h] # Closed /\ handles[h].start = c

\* A careful caller leaves an open file alone.
Quiet(d, n) == "stale" \in Uses \/ ~InUse(slots[d][Slot(d, n)].start)

-----------------------------------------------------------------------------
(* Calls.                                                                  *)

\* ufs_create.  vfat_create does not look for an entry of the same name.
Create(d, n, h) ==
  /\ handles[h] = Closed
  /\ Exists(d, n) => "recreate" \in Uses
  /\ \E c \in free :
       \E r \in AddEntry(slots, d, [name |-> n, start |-> c, size |-> 0],
                         free \ {c}) :
         /\ slots' = r.slots
         /\ Grow(d, r.took)
         /\ free' = IF r.ok THEN (free \ {c}) \ r.took ELSE free \ r.took
         /\ handles' = [handles EXCEPT ![h] =
              IF r.ok THEN [dir |-> d, pos |-> r.pos, start |-> c, size |-> 0]
                      ELSE Closed]
         /\ written' = [written EXCEPT ![c] = 0]
  /\ UNCHANGED aged

\* ufs_open: fat_build_inode copies the entry and does not know the parent.
Open(d, n, h) ==
  /\ handles[h] = Closed
  /\ Exists(d, n)
  /\ Quiet(d, n)
  /\ LET e == slots[d][Slot(d, n)] IN
     handles' = [handles EXCEPT ![h] =
       [dir |-> Root, pos |-> 0, start |-> e.start, size |-> e.size]]
  /\ UNCHANGED <<slots, rootSize, free, dirOwn, written, aged>>

\* ufs_write at the end of the file.
Write(h) ==
  /\ handles[h] # Closed
  /\ handles[h].size < MaxSize
  /\ handles' = [handles EXCEPT ![h].size = @ + 1]
  /\ written' = [written EXCEPT ![handles[h].start] = handles[h].size + 1]
  /\ UNCHANGED <<slots, rootSize, free, dirOwn, aged>>

\* fat_scan_logstart in the root directory.
RootSlot(c) ==
  {i \in DOMAIN slots[Root] :
     IsFile(slots[Root][i]) /\ slots[Root][i].start = c}

\* Mutant of SizeTo: i_pos is where the search went on, not where it stopped.
SizeToNext(hd) ==
  IF hd.pos # 0 THEN {<<hd.dir, hd.pos + 1>>}
  ELSE IF RootSlot(hd.start) # {} THEN {<<Root, Min(RootSlot(hd.start))>>}
  ELSE {}

\* Where fat_write_inode records the size of the file: at i_pos, whatever is
\* there now, or in the first entry of the root directory with its cluster.
SizeTo(hd) ==
  IF hd.pos # 0 THEN {<<hd.dir, hd.pos>>}
  ELSE IF RootSlot(hd.start) # {} THEN {<<Root, Min(RootSlot(hd.start))>>}
  ELSE {}

\* ufs_close
Close(h) ==
  /\ handles[h] # Closed
  /\ slots' = [d \in Dirs |-> [i \in DOMAIN slots[d] |->
       IF <<d, i>> \in SizeTo(handles[h]) /\ IsFile(slots[d][i])
       THEN [slots[d][i] EXCEPT !.size = handles[h].size]
       ELSE slots[d][i]]]
  /\ handles' = [handles EXCEPT ![h] = Closed]
  /\ UNCHANGED <<rootSize, free, dirOwn, written, aged>>

\* Mutant of Unlink: the clusters are not freed.
UnlinkOnly(d, n) ==
  /\ Exists(d, n)
  /\ Quiet(d, n)
  /\ slots' = Clear(slots, d, Slot(d, n))
  /\ UNCHANGED <<rootSize, free, dirOwn, handles, written, aged>>

\* ufs_unlink: the clusters are freed, then the slot.
Unlink(d, n) ==
  /\ Exists(d, n)
  /\ Quiet(d, n)
  /\ free' = free \cup {slots[d][Slot(d, n)].start}
  /\ slots' = Clear(slots, d, Slot(d, n))
  /\ UNCHANGED <<rootSize, dirOwn, handles, written, aged>>

\* Mutant of Removed: the old entry stays.
NotRemoved(t, d, i) == t

\* fat_remove_entries on the slot the search had found.
Removed(t, d, i) == Clear(t, d, i)

\* ufs_rename: the target's slot is freed, the copy added, the slot of the
\* old entry freed; when there is no room the target is gone nevertheless.
Rename(d, n, d2, n2) ==
  /\ Exists(d, n)
  /\ Quiet(d, n)
  /\ IF <<d, n>> = <<d2, n2>> THEN "self" \in Uses
     ELSE Exists(d2, n2) => "overwrite" \in Uses
  /\ LET t == IF Exists(d2, n2) THEN Clear(slots, d2, Slot(d2, n2)) ELSE slots
         e == [slots[d][Slot(d, n)] EXCEPT !.name = n2]
     IN \E r \in AddEntry(t, d2, e, free) :
          /\ slots' = IF r.ok THEN Removed(r.slots, d, Slot(d, n)) ELSE t
          /\ Grow(d2, r.took)
          /\ free' = free \ r.took
  /\ UNCHANGED <<handles, written, aged>>

\* ufs_umount and ufs_mount: the root inode starts with the size of one
\* cluster, or of the fixed root.
Remount ==
  /\ "remount" \in Uses
  /\ handles = [h \in Handles |-> Closed]
  /\ rootSize' = PerCluster
  /\ UNCHANGED <<slots, free, dirOwn, handles, written, aged>>

Next ==
  \/ \E d \in Dirs, n \in Names :
       \/ \E h \in Handles : Create(d, n, h) \/ Open(d, n, h)
       \/ Unlink(d, n)
       \/ \E d2 \in Dirs, n2 \in Names : Rename(d, n, d2, n2)
  \/ \E h \in Handles : Write(h) \/ Close(h)
  \/ Remount

Spec == Init /\ [][Next]_vars

-----------------------------------------------------------------------------
(* Properties.                                                             *)

FileSlots ==
  UNION {{d} \X {i \in DOMAIN slots[d] : IsFile(slots[d][i])} : d \in Dirs}

EntryAt(s) == slots[s[1]][s[2]]

\* No two files share a cluster, none has one that is free or that a directory
\* has grown by, whatever handles are open while files come and go.  Old bytes
\* that come to be entries name the clusters that they do.
StartsOwned ==
  ~aged =>
    /\ \A r, s \in FileSlots : EntryAt(r).start = EntryAt(s).start => r = s
    /\ \A s \in FileSlots : EntryAt(s).start \notin free \cup dirOwn

\* Every cluster is free, a file's or a directory's.
NoLeaks == Clusters = free \cup dirOwn \cup {EntryAt(s).start : s \in FileSlots}

\* The entry of a file that nobody has open has the size that ufs_write had
\* brought it to, unless old bytes read as an entry with its cluster.
SizeRecorded ==
  ~aged => \A s \in FileSlots :
    ~InUse(EntryAt(s).start) => EntryAt(s).size = written[EntryAt(s).start]

\* A call that adds an entry to a directory leaves the other ones there.
EntriesKept ==
  [][(\E d \in Dirs, n \in Names, h \in Handles : Create(d, n, h)) =>
       \A d \in Dirs : \A i \in DOMAIN slots[d] :
         slots[d][i] # Empty => slots'[d][i] = slots[d][i]]_vars

\* A full directory whose i_size is too small grows at slot i, where a file is.
GrowsOver(d, i) == Room(slots, d) = {} /\ InSize(d) + 1 = i

\* A rename to another name, also one that fails or replaces a file, leaves
\* the file somewhere, and whole, unless the directory has to grow and its
\* i_size leads to the very slot that the file is renamed from.
RenameKeeps ==
  [][\A d, d2 \in Dirs, n, n2 \in Names :
       /\ Rename(d, n, d2, n2)
       /\ <<d, n>> # <<d2, n2>>
       /\ d = d2 /\ ~Exists(d2, n2) => ~GrowsOver(d, Slot(d, n))
       =>
         \E d3 \in Dirs : \E i \in DOMAIN slots'[d3] :
           /\ IsFile(slots'[d3][i])
           /\ slots'[d3][i].start = slots[d][Slot(d, n)].start
           /\ slots'[d3][i].size = slots[d][Slot(d, n)].size]_vars

\* In the root directory alone, a name is there with the size its entry has.
Sizes ==
  [n \in Names |-> IF Exists(Root, n) THEN slots[Root][Slot(Root, n)].size
                                      ELSE Absent]

RootNames == INSTANCE NameSpace WITH files <- Sizes

\* To the careful user the root directory is a map from names to sizes.
ImplementsNameSpace == RootNames!Spec
=============================================================================
