----------------------------- MODULE FatLayout ------------------------------
(***************************************************************************)
(* Where a volume keeps what: fat_read_bpb and fat_set_sb_info of          *)
(* fs/fat/src/fat_fs.c divide it, fat_clus_to_blknr, fat_bmap and the      *)
(* ent_blocknr operations find the sectors.                                *)
(*                                                                         *)
(* The boot sector is one that a formatting program writes; the code       *)
(* checks no more than its first byte and its sector size.  A file here    *)
(* has every cluster of the volume, in order.                              *)
(***************************************************************************)
EXTENDS Integers, FiniteSets

CONSTANT BootSectors   \* those that are well formed are mounted

FAT_START_ENT == 2

DirEntrySize == 32

\* The least k with 2^k >= n, as the loops of fat_set_sb_info count it.
Bits(n) == CHOOSE k \in 0 .. 20 : 2^k >= n /\ \A j \in 0 .. k - 1 : 2^j < n

Total(b) == IF b.total_sect = 0 THEN b.sectors ELSE b.total_sect

FatLength(b) == IF b.fat_length # 0 THEN b.fat_length ELSE b.fat32_length

DirEntries(b) == IF b.fat_length # 0 THEN b.dir_entries ELSE 0

DirStart(b) == b.reserved + b.fats * FatLength(b)

DataStart(b) ==
  DirStart(b) + ((DirEntries(b) * DirEntrySize + b.sector_size - 1) \div b.sector_size)

TotalClusters(b) == (Total(b) - DataStart(b)) \div b.sec_per_clus

FatBits(b) ==
  IF b.fat_length = 0 \/ TotalClusters(b) >= 65525 THEN 32
  ELSE IF TotalClusters(b) < 4085 THEN 12 ELSE 16

Accepted(b) == 512 <= b.sector_size /\ b.sector_size <= 4096

\* The fields of msdos_sb_info.
SbInfo(b) ==
  [s_blocksize  |-> b.sector_size,
   sec_per_clus |-> b.sec_per_clus,
   cluster_bits |-> Bits(b.sec_per_clus * b.sector_size),
   fats         |-> b.fats,
   fat_start    |-> b.reserved,
   fat_length   |-> FatLength(b),
   dir_start    |-> DirStart(b),
   dir_entries  |-> DirEntries(b),
   data_start   |-> DataStart(b),
   max_cluster  |-> TotalClusters(b) + FAT_START_ENT,
   fat_bits     |-> FatBits(b)]

NoInfo == [max_cluster |-> 0]

\* fat_valid_entry
Valid(s) == FAT_START_ENT .. s.max_cluster - 1

\* The first byte of an entry in the FAT (fat12_ent_blocknr, fat_ent_blocknr).
EntByte(s, c) ==
  CASE s.fat_bits = 12 -> c + (c \div 2)
    [] s.fat_bits = 16 -> 2 * c
    [] OTHER           -> 4 * c

\* Only a 12-bit entry can lie on a border (fat12_ent_bread).
EntBlocks(s, c) ==
  LET first == s.fat_start + (EntByte(s, c) \div s.s_blocksize)
  IN  IF s.fat_bits = 12 /\ EntByte(s, c) % s.s_blocksize = s.s_blocksize - 1
      THEN {first, first + 1} ELSE {first}

Boot == [sector_size : Nat, sec_per_clus : Nat \ {0}, reserved : Nat, fats : Nat,
         dir_entries : Nat, sectors : Nat, total_sect : Nat,
         fat_length : Nat, fat32_length : Nat]

\* A formatting program makes one copy of the FAT or more, with an entry for
\* each cluster, and regions that fit.
Formatted(b) ==
  /\ b \in Boot
  /\ b.reserved > 0 /\ b.fats > 0
  /\ Accepted(b) =>
       /\ DataStart(b) <= Total(b)
       /\ \A c \in Valid(SbInfo(b)) :
            EntBlocks(SbInfo(b), c) \subseteq b.reserved .. b.reserved + FatLength(b) - 1

VARIABLES boot, \* the boot sector
          sbi   \* msdos_sb_info once it is filled in

vars == <<boot, sbi>>

Init == boot \in {b \in BootSectors : Formatted(b)} /\ sbi = NoInfo

\* fat_fill_super fails on a sector size it does not take.
FillSuper ==
  /\ sbi = NoInfo
  /\ Accepted(boot)
  /\ sbi' = SbInfo(boot)
  /\ UNCHANGED boot

Next == FillSuper

Spec == Init /\ [][Next]_vars

-----------------------------------------------------------------------------
(* Where things are.                                                       *)

\* fat_mirror_bhs: the same in each copy, but not on FAT32.
Mirrored(s, blocks) ==
  IF s.fat_bits = 32 THEN blocks
  ELSE UNION {{b + i * s.fat_length : b \in blocks} : i \in 0 .. s.fats - 1}

\* Mutant of ClusToBlknr: the first cluster has the number zero.
ClusToBlknrFromZero(s, c) == c * s.sec_per_clus + s.data_start

\* fat_clus_to_blknr
ClusToBlknr(s, c) == (c - FAT_START_ENT) * s.sec_per_clus + s.data_start

\* fat_bmap: the root directory of FAT12 and FAT16 ...
RootBlocks(s) ==
  {s.dir_start + i : i \in 0 .. (s.dir_entries \div (s.s_blocksize \div DirEntrySize)) - 1}

\* ... and a file.
Bmap(s, sector) ==
  ClusToBlknr(s, FAT_START_ENT + (sector \div 2^(s.cluster_bits - 9)))
    + (sector % s.sec_per_clus)

-----------------------------------------------------------------------------
(* Properties.                                                             *)

FileSectors(s) == 0 .. Cardinality(Valid(s)) * s.sec_per_clus - 1

\* With sectors of 512 bytes no sector has two uses: the boot sector and what
\* is reserved, the copies of the FAT, the root directory and each sector of
\* each cluster are apart, and inside the volume.
SectorsApart ==
  sbi # NoInfo /\ sbi.s_blocksize = 512 =>
    LET fat  == Mirrored(sbi, UNION {EntBlocks(sbi, c) : c \in Valid(sbi)})
        root == RootBlocks(sbi)
        data == {Bmap(sbi, i) : i \in FileSectors(sbi)}
    IN  /\ Cardinality(data) = Cardinality(FileSectors(sbi))
        /\ fat \cap root = {} /\ (fat \cup root) \cap data = {}
        /\ fat \cup root \cup data \subseteq boot.reserved .. Total(boot) - 1

\* Of any sector size: clusters are apart, behind the root directory and inside
\* the volume.
ClustersApart ==
  sbi # NoInfo =>
    \A c \in Valid(sbi), i \in 0 .. sbi.sec_per_clus - 1 :
      /\ sbi.data_start <= ClusToBlknr(sbi, c) + i
      /\ ClusToBlknr(sbi, c) + i < Total(boot)
      /\ \A d \in Valid(sbi), j \in 0 .. sbi.sec_per_clus - 1 :
           ClusToBlknr(sbi, c) + i = ClusToBlknr(sbi, d) + j => c = d /\ i = j

=============================================================================
