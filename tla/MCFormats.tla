----------------------------- MODULE MCFormats ------------------------------
(***************************************************************************)
(* Days and volumes for TLC.                                               *)
(***************************************************************************)
EXTENDS Formats

\* Before 1980, a leap year, and the last year of a stamp with the next.
SomeDays ==
  {[year |-> 79, mon |-> 11, mday |-> 30], [year |-> 99, mon |-> 11, mday |-> 31],
   [year |-> 127, mon |-> 1, mday |-> 27]}

\* Volumes of FAT12 and FAT32, root directories that do and do not fill their
\* last sector, sector sizes that are and are not accepted.
SmallBoots ==
  [sector_size : {256, 512, 1024}, sec_per_clus : {1, 2, 8}, reserved : {1, 32}, fats : {1, 2},
   dir_entries : {16, 40}, sectors : {60, 711}, total_sect : {0}, fat_length : 0 .. 3,
   fat32_length : {0, 5}]

\* 4084 clusters, the most of FAT12, and one more.
BorderBoots ==
  [sector_size : {512}, sec_per_clus : {1}, reserved : {1}, fats : {2}, dir_entries : {512},
   sectors : {0}, total_sect : 65 + 4084 .. 65 + 4085, fat_length : {16}, fat32_length : {0}]

SomeBoots == SmallBoots \cup BorderBoots
=============================================================================
