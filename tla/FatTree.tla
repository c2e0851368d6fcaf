------------------------------ MODULE FatTree -------------------------------
(***************************************************************************)
(* Directories within directories: ufs_mkdir, ufs_rmdir, ufs_create,       *)
(* ufs_unlink, ufs_rename and paths, over the FAT, with crashes.           *)
(*                                                                         *)
(* A call of api.c is a sequence of steps, for what it changes reaches the *)
(* device at different times: an entry at once, the FAT when the buffer    *)
(* cache flushes or evicts its block.  Files and directories have one      *)
(* cluster; growing directories are the subject of FatDir.                 *)
(*                                                                         *)
(* Names that differ in case or in what vfat_build_sfn cuts off are one    *)
(* name; Sfn maps a name to the one its entry gets.                        *)
(*                                                                         *)
(* Uses says what the caller does beyond the careful: "recreate" a name    *)
(* that is taken, "overwrite" one in a rename, rename to the same name     *)
(* ("self"), into the renamed directory ("inside") or to a path that ends  *)
(* in a slash ("slash"), remove a directory with ufs_unlink ("unlink") or  *)
(* with ufs_rmdir without having seen that it is empty ("blind").          *)
(*                                                                         *)
(* Bytes has what files, and whatever was on the device before, leave in   *)
(* their clusters, read as the slots of a directory.  Whoever searches a   *)
(* directory takes what is in its clusters for entries, so that these      *)
(* bytes have names and starts as soon as ufs_mkdir makes a directory of   *)
(* the cluster; Bytes that NoOldEntries holds of have none.                *)
(*                                                                         *)
(* An allocation changes its entry of the FAT and no other, as on FAT16    *)
(* and FAT32; FatTable has what FAT12 does.                                *)
(***************************************************************************)
EXTENDS Integers, SequencesExt

CONSTANTS Root,
          Clusters,    \* those free at the start
          NoCluster,   \* what ".." of the directories in the root names on
                       \* FAT12 and FAT16
          FixedRoot,   \* FAT12 or FAT16
          Names,       \* what callers use
          Sfn,
          Blank,       \* the name of an entry made for an empty component
          Slots,       \* directory slots in a cluster
          PerBlock,    \* and in its first block
          MaxCut,      \* bound on the good clusters of a volume that is cut off
          PathTexts,   \* paths as callers write them, in tokens
          Uses,
          Bytes,
          Empty,       \* a slot that is free
          Other,       \* one that is neither free nor searched: a part of a
                       \* long name, the label
          Nothing

ASSUME TreeAssumption ==
  /\ Slots \in Nat /\ PerBlock \in 2 .. Slots
  /\ Sfn \in [Names -> Names]
  /\ \A n \in Names : Sfn[Sfn[n]] = Sfn[n]
  /\ FixedRoot \in BOOLEAN
  /\ MaxCut \in Nat
  /\ Uses \subseteq
       {"recreate", "overwrite", "self", "inside", "slash", "unlink", "blind"}
  /\ {Root, NoCluster} \cap Clusters = {} /\ Root # NoCluster
  /\ {".", "..", Blank} \cap Names = {}
  /\ PathTexts \subseteq Seq(Names \cup {"/", ".", ".."})

VARIABLES content,  \* what the clusters hold, as directory slots
          used,     \* clusters the FAT in the cache has in use
          disk,     \* and the one on the device
          call,     \* the call in progress
          bad,      \* clusters marked as bad
          power,    \* "steady", or "on" and at some time "off"
          synced    \* history: what was there at the last ufs_fsync and has
                    \* not been given to a call that removes it

vars == <<content, used, disk, call, bad, power, synced>>

Entry == [name : Range(Sfn) \cup {".", "..", Blank},
          start : Clusters \cup {Root, NoCluster}, dir : BOOLEAN]

ASSUME TagAssumption ==
  /\ {Empty, Other} \cap Entry = {}
  /\ Nothing \notin [start : Clusters \cup {Root, NoCluster}, dir : BOOLEAN]

ASSUME BytesAssumption == Bytes \subseteq [1 .. Slots -> Entry \cup {Empty, Other}]

Idle == [op |-> "none"]

\* A call that has allocated and has to add its entry, a rename with the old
\* entry in hand, and a call that has to remove an entry.
Calls ==
  [op : {"add"}, to : Clusters \cup {Root}, entry : Entry] \cup
  [op : {"rename"}, to : Clusters \cup {Root}, entry : Entry,
   dir : Clusters \cup {Root}, slot : 1 .. Slots] \cup
  [op : {"remove", "moved"}, dir : Clusters \cup {Root}, slot : 1 .. Slots]

TypeOK ==
  /\ content \in [Clusters \cup {Root} -> [1 .. Slots -> Entry \cup {Empty, Other}]]
  /\ used \subseteq Clusters /\ disk \subseteq Clusters
  /\ call \in Calls \cup {Idle}
  /\ bad \subseteq Clusters
  /\ power \in {"steady", "on", "off"}
  /\ synced \subseteq Clusters

Init ==
  /\ \E old \in [Clusters -> Bytes] :
       content = [c \in Clusters \cup {Root} |->
                    IF c = Root THEN [i \in 1 .. Slots |-> Empty] ELSE old[c]]
  /\ used = {} /\ disk = {}
  /\ call = Idle
  /\ bad \in SUBSET Clusters
  /\ power \in {"steady", "on"}
  /\ power = "on" => Cardinality(Clusters \ bad) <= MaxCut
  /\ synced = {}

Up == power # "off"

Free == Clusters \ (used \cup bad)

-----------------------------------------------------------------------------
(* Looking up.                                                             *)

IsEntry(s) == s \notin {Empty, Other}

Named(d, n) == {i \in 1 .. Slots : IsEntry(content[d][i]) /\ content[d][i].name = n}

Exists(d, n) == Named(d, n) # {}

\* fat_search_long stops at the first match.
Slot(d, n) == Min(Named(d, n))

\* An inode: where it starts and whether it is a directory.
Inode(e) == [start |-> e.start, dir |-> e.dir]

RootInode == [start |-> Root, dir |-> TRUE]

IsDir(inode) == inode.dir

\* vfat_lookup.  An inode that starts at no cluster has no entries.
Find(inode, n) ==
  IF inode.start = NoCluster \/ ~ Exists(inode.start, n) THEN Nothing
  ELSE Inode(content[inode.start][Slot(inode.start, n)])

P == INSTANCE PathWalk WITH Start <- RootInode

\* Entries for which a path goes on, or ends.
Below(d) == {i \in 1 .. Slots : IsEntry(content[d][i]) /\ content[d][i].name \in Names}

Subdirs(d) == {content[d][i].start : i \in {j \in Below(d) : content[d][j].dir}}

\* From d and from the directories in S one comes to directories in S.
Closed(d, S) == \A e \in S \cup {d} : Subdirs(e) \subseteq S

\* d and the directories below it, the fewest that are closed.
Descendants(d) ==
  {d} \cup CHOOSE S \in SUBSET (Clusters \cup {Root}) :
            Closed(d, S) /\ \A T \in SUBSET S : Closed(d, T) => T = S

\* The directories that paths lead to.
Dirs == Descendants(Root)

\* Everything that paths lead to.
Reached == UNION {{content[d][i].start : i \in Below(d)} : d \in Dirs}

Room(d) == {i \in 1 .. Slots : content[d][i] = Empty}

\* fat_dir_empty
DirEmpty(c) == \A i \in 3 .. Slots : content[c][i] = Empty

-----------------------------------------------------------------------------
(* What callers leave alone.                                               *)

\* No bytes of a file or of an earlier volume look like an entry.
NoOldEntries == \A bytes \in Bytes : \A i \in 1 .. Slots : ~ IsEntry(bytes[i])

\* ufs_listdir shows nothing.
SeenEmpty(c) == \A i \in 1 .. Slots :
  IsEntry(content[c][i]) => content[c][i].name \in {".", ".."}

MayTake(d, n) == "recreate" \in Uses \/ ~ Exists(d, Sfn[n])

\* The directory has room, or the volume none to extend it with.
Fits(d, avail) == Room(d) # {} \/ avail = {}

\* d is in the directory c, or is c.
Inside(d, c) == d \in Descendants(c)

-----------------------------------------------------------------------------
(* Calls that add.                                                         *)

\* What fat_alloc_new_dir leaves in the cluster.  The first block is cleared
\* and gets "." and "..", but in a buffer of ufs_bget: only if the block was
\* up to date in the cache does that reach the device.  What was there before
\* stays in the other blocks, or in all.
NewDir(c, parent) ==
  {content[c],
   [i \in 1 .. Slots |->
      IF i = 1 THEN [name |-> ".", start |-> c, dir |-> TRUE]
      ELSE IF i = 2
      THEN [name |-> "..", dir |-> TRUE,
            start |-> IF parent = Root /\ FixedRoot THEN NoCluster ELSE parent]
      ELSE IF i <= PerBlock THEN Empty ELSE content[c][i]]}

\* ufs_create and ufs_mkdir: the cluster is allocated, and the name not
\* searched for.
Make(d, n, dir) ==
  /\ Up /\ call = Idle
  /\ MayTake(d, n)
  /\ \E c \in Free :
       /\ Fits(d, Free \ {c})
       /\ used' = used \cup {c}
       /\ call' = [op |-> "add", to |-> d,
                   entry |-> [name |-> Sfn[n], start |-> c, dir |-> dir]]
       /\ \E new \in IF dir THEN NewDir(c, d) ELSE {content[c]} :
            content' = [content EXCEPT ![c] = new]
  /\ UNCHANGED <<disk, power, bad, synced>>

\* fat_add_entries, into the first free slot.
Added(d, e) == [content EXCEPT ![d][Min(Room(d))] = e]

AddEntry ==
  /\ Up /\ call.op = "add"
  /\ Room(call.to) # {}
  /\ content' = Added(call.to, call.entry)
  /\ call' = Idle
  /\ UNCHANGED <<used, disk, power, bad, synced>>

\* Mutant of Undo: the error is returned at once.
UndoNothing ==
  /\ Up /\ call.op = "add"
  /\ Room(call.to) = {}
  /\ call' = Idle
  /\ UNCHANGED <<content, used, disk, power, bad, synced>>

\* No room: the cluster goes back.
Undo ==
  /\ Up /\ call.op = "add"
  /\ Room(call.to) = {}
  /\ used' = used \ {call.entry.start}
  /\ call' = Idle
  /\ UNCHANGED <<content, disk, power, bad, synced>>

\* ufs_write: any bytes.
Write(c) ==
  /\ Up /\ call = Idle
  /\ \E d \in Dirs : \E i \in Below(d) :
       content[d][i].start = c /\ ~ content[d][i].dir
  /\ \E bytes \in Bytes : content' = [content EXCEPT ![c] = bytes]
  /\ UNCHANGED <<used, disk, call, power, bad, synced>>

-----------------------------------------------------------------------------
(* Calls that remove.                                                      *)

\* ufs_unlink, which does not ask whether it is a file, and ufs_rmdir: the
\* cluster is freed.
Drop(d, i) ==
  /\ used' = used \ {content[d][i].start}
  /\ synced' = synced \ {content[d][i].start}
  /\ call' = [op |-> "remove", dir |-> d, slot |-> i]
  /\ UNCHANGED <<content, disk, power, bad>>

Unlink(d, n) ==
  /\ Up /\ call = Idle
  /\ Exists(d, n)
  /\ content[d][Slot(d, n)].dir => "unlink" \in Uses
  /\ Drop(d, Slot(d, n))

Rmdir(d, n) ==
  /\ Up /\ call = Idle
  /\ Exists(d, n)
  /\ content[d][Slot(d, n)].dir
  /\ DirEmpty(content[d][Slot(d, n)].start)
  /\ "blind" \in Uses \/ SeenEmpty(content[d][Slot(d, n)].start)
  /\ Drop(d, Slot(d, n))

\* fat_remove_entries, also for the old entry at the end of a rename.
RemoveEntry ==
  /\ Up /\ call.op \in {"remove", "moved"}
  /\ content' = [content EXCEPT ![call.dir][call.slot] = Empty]
  /\ call' = Idle
  /\ UNCHANGED <<used, disk, power, bad, synced>>

-----------------------------------------------------------------------------
(* Renaming.                                                               *)

\* Where a rename may go: ufs_path_parent takes a path that ends in a slash
\* for the root, and an empty last component, and ufs_rename goes on.
Targets == (Dirs \X Names) \cup (IF "slash" \in Uses THEN {<<Root, Blank>>} ELSE {})

ShortName(n) == IF n = Blank THEN Blank ELSE Sfn[n]

MayRename(d, i, d2, n2) ==
  /\ IF Exists(d2, ShortName(n2)) /\ <<d, i>> = <<d2, Slot(d2, ShortName(n2))>>
     THEN "self" \in Uses
     ELSE Exists(d2, ShortName(n2)) => "overwrite" \in Uses
  /\ content[d][i].dir /\ Inside(d2, content[d][i].start) => "inside" \in Uses
  /\ Fits(d2, Free)

\* ufs_rename: an entry with the new name is removed, its clusters stay.
RenameBegin(d, n, d2, n2) ==
  /\ Up /\ call = Idle
  /\ Exists(d, n)
  /\ MayRename(d, Slot(d, n), d2, n2)
  /\ IF Exists(d2, n2)
     THEN /\ content' = [content EXCEPT ![d2][Slot(d2, n2)] = Empty]
          /\ synced' = synced \ {content[d2][Slot(d2, n2)].start}
     ELSE UNCHANGED <<content, synced>>
  /\ call' = [op |-> "rename", to |-> d2, dir |-> d, slot |-> Slot(d, n),
              entry |-> [content[d][Slot(d, n)] EXCEPT !.name = ShortName(n2)]]
  /\ UNCHANGED <<used, disk, power, bad>>

\* Mutant of RenameAdd: the old entry is removed first.
RenameClearFirst ==
  /\ Up /\ call.op = "rename"
  /\ content' = [content EXCEPT ![call.dir][call.slot] = Empty]
  /\ call' = [op |-> "add", to |-> call.to, entry |-> call.entry]
  /\ UNCHANGED <<used, disk, power, bad, synced>>

\* Mutant of RenameAdd: the old entry is left there.
RenameAddOnly ==
  /\ Up /\ call.op = "rename"
  /\ content' = IF Room(call.to) # {} THEN Added(call.to, call.entry) ELSE content
  /\ call' = Idle
  /\ UNCHANGED <<used, disk, power, bad, synced>>

\* The copy is added; the ".." of a directory stays as it is.
RenameAdd ==
  /\ Up /\ call.op = "rename"
  /\ IF Room(call.to) # {}
     THEN /\ content' = Added(call.to, call.entry)
          /\ call' = [op |-> "moved", dir |-> call.dir, slot |-> call.slot]
     ELSE call' = Idle /\ UNCHANGED content
  /\ UNCHANGED <<used, disk, power, bad, synced>>

-----------------------------------------------------------------------------
(* The FAT on the device.                                                  *)

\* ufs_fsync
Flush ==
  /\ power = "on" /\ call = Idle
  /\ disk' = used
  /\ synced' = Reached
  /\ UNCHANGED <<content, used, call, power, bad>>

\* The block with the FAT is evicted, whenever another is read.
Evict ==
  /\ power = "on"
  /\ disk' = used
  /\ UNCHANGED <<content, used, call, power, bad, synced>>

Crash ==
  /\ power = "on"
  /\ power' = "off"
  /\ used' = disk
  /\ UNCHANGED <<content, disk, call, bad, synced>>

Next ==
  \/ \E d \in Dirs, n \in Names :
       \/ \E dir \in BOOLEAN : Make(d, n, dir)
       \/ Unlink(d, n)
       \/ Rmdir(d, n)
  \/ \E t \in Targets, d \in Dirs, n \in Names : RenameBegin(d, n, t[1], t[2])
  \/ \E c \in Clusters : Write(c)
  \/ AddEntry \/ Undo \/ RemoveEntry \/ RenameAdd
  \/ Flush \/ Evict \/ Crash

Spec == Init /\ [][Next]_vars

-----------------------------------------------------------------------------
(* Properties.                                                             *)

\* When no call is in progress, a cluster is in use if and only if there is a
\* path to it, and there is one entry for it: no call leaks a cluster, frees
\* one that is named, or gives out one twice.
UsedOnce ==
  Up /\ call = Idle =>
    /\ used = Reached
    /\ \A d, e \in Dirs : \A i \in Below(d), j \in Below(e) :
         content[d][i].start = content[e][j].start => <<d, i>> = <<e, j>>

\* A file or directory that was there at an ufs_fsync and that no call has
\* removed since is on the device at every moment, also in the middle of a
\* rename and after a crash: its cluster is in use and a path leads to it.
SyncedSurvives == synced \subseteq disk \cap Reached

\* fat_dir_empty skips "." and "..", so ufs_rmdir removes a directory only if
\* ufs_listdir, which leaves these two out as well, has nothing to show.
RmdirOnlyEmpty ==
  [][\A d \in Dirs, n \in Names :
       Rmdir(d, n) => SeenEmpty(content[d][Slot(d, n)].start)]_vars

\* The old entry of a rename no longer counts once the new one is there.
Hidden(d, i) == call.op = "moved" /\ call.dir = d /\ call.slot = i

\* The entries that count, as pairs of a directory and a slot.
Places == UNION {{<<d, i>> : i \in {j \in Below(d) : ~ Hidden(d, j)}} : d \in Dirs}

At(place) == content[place[1]][place[2]]

Tree ==
  {[node |-> At(p).start, parent |-> p[1], name |-> At(p).name,
    kind |-> IF At(p).dir THEN "dir" ELSE "file"] : p \in Places}

Promised == INSTANCE NameTree
              WITH tree <- Tree, Nodes <- Clusters, Top <- Root, Names <- Range(Sfn)

\* To a careful user a volume is a tree of names, also when it is cut off in
\* the middle of a call.
ImplementsNameTree == Promised!Spec

Node(r) == [start |-> r.node, dir |-> r.kind = "dir"]

\* Where a component n of a path leads from the inode i, in the tree t.
Parent(t, i) ==
  LET at == CHOOSE r \in t : r.node = i.start IN [start |-> at.parent, dir |-> TRUE]

Child(t, i, n) ==
  LET at == {r \in t : r.parent = i.start /\ r.name = n} IN
  IF at = {} THEN Nothing ELSE Node(CHOOSE r \in at : TRUE)

Turn(t, i, n) ==
  IF i = Nothing \/ n \in {"/", "."} THEN i
  ELSE IF ~ i.dir THEN Nothing
  ELSE IF n # ".." THEN Child(t, i, n)
  ELSE IF i = RootInode THEN Nothing ELSE Parent(t, i)

\* What a path means: the inode it leads to in the tree t, or Nothing.
Meaning(t, path) ==
  LET at[k \in 0 .. Len(path)] ==
        IF k = 0 THEN RootInode ELSE Turn(t, at[k - 1], path[k])
      end == at[Len(path)]
  IN IF path # << >> /\ Last(path) = "/" /\ end # Nothing /\ ~ end.dir
     THEN Nothing ELSE end

\* The "." and ".." of the directory at r are as mkdir made them, and right.
DotsRight(r) ==
  /\ Find(Node(r), ".") = Node(r)
  /\ Find(Node(r), "..") = [start |-> r.parent, dir |-> TRUE]

\* However a path is written, ufs_path_walk comes to what its components mean,
\* and ufs_path_parent with a search for the last component comes there too,
\* as long as no directory on the volume has lost its "." and "..".
PathsAgree ==
  LET tree == Tree IN
  call = Idle /\ (\A r \in tree : r.kind = "dir" => DotsRight(r)) =>
    \A path \in PathTexts :
      LET found == P!Walk(path)
          leaf == P!Leaf(path)
          parent == P!Parent(path)
      IN /\ found = Meaning(tree, path)
         /\ Len(leaf) = 1 /\ leaf[1] # "." =>
              found = IF parent = Nothing \/ ~ parent.dir THEN Nothing
                      ELSE Find(parent, leaf[1])
=============================================================================
