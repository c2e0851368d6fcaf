---------------------------- MODULE FormatProofs ----------------------------
(***************************************************************************)
(* The formats on the volume.                                              *)
(*                                                                         *)
(* Layout: for volumes of any size, clusters do not overlap and lie        *)
(* between the root directory and the end of the volume; with sectors of   *)
(* 512 bytes no sector has two uses.                                       *)
(*                                                                         *)
(* Twelve-bit entries of the real width, for every content of the FAT.     *)
(*                                                                         *)
(* Time stamps, for every day of every year and every time of the day.     *)
(***************************************************************************)
EXTENDS Formats, FiniteSetTheorems, TLAPS

formats == <<turn, p, last, tm, boot, sbi>>

-----------------------------------------------------------------------------
(* The layout of a volume.                                                 *)

LEMMA DivMod ==
  ASSUME NEW n \in Nat, NEW s \in Nat \ {0}
  PROVE  n \div s \in Nat /\ (n \div s) * s <= n
<1>1. n = (n \div s) * s + (n % s) /\ n % s \in 0 .. s - 1 /\ n \div s \in Nat
  OBVIOUS
<1>2. (n \div s) * s \in Nat
  BY <1>1
<1> QED BY <1>1, <1>2

\* Rows of s elements: no element is in two rows.
LEMMA RowsApart ==
  ASSUME NEW s \in Nat \ {0}, NEW c \in Nat, NEW d \in Nat,
         NEW i \in 0 .. s - 1, NEW j \in 0 .. s - 1, c * s + i = d * s + j
  PROVE  c = d /\ i = j
<1>1. CASE c < d
  <2>1. (c + 1) * s <= d * s
    BY <1>1
  <2>2. (c + 1) * s = c * s + s
    OBVIOUS
  <2> QED BY <2>1, <2>2
<1>2. CASE d < c
  <2>1. (d + 1) * s <= c * s
    BY <1>2
  <2>2. (d + 1) * s = d * s + s
    OBVIOUS
  <2> QED BY <2>1, <2>2
<1>3. CASE c = d
  BY <1>3
<1> QED BY <1>1, <1>2, <1>3

\* Of n rows of s elements the last element is the end.
LEMMA RowsInside ==
  ASSUME NEW s \in Nat \ {0}, NEW n \in Nat, NEW c \in 0 .. n - 1, NEW i \in 0 .. s - 1
  PROVE  c * s \in Nat /\ n * s \in Nat /\ c * s + i < n * s
<1>1. (c + 1) * s <= n * s /\ (c + 1) * s = c * s + s
  OBVIOUS
<1>2. c * s \in Nat /\ n * s \in Nat
  OBVIOUS
<1> QED BY <1>1, <1>2

LEMMA RegionsSound ==
  ASSUME NEW b, Layout!Formatted(b), Layout!Accepted(b)
  PROVE  /\ Layout!DataStart(b) \in Nat /\ Layout!Total(b) \in Nat /\ b.sec_per_clus \in Nat \ {0}
         /\ Layout!TotalClusters(b) \in Nat
         /\ Layout!DataStart(b) + Layout!TotalClusters(b) * b.sec_per_clus <= Layout!Total(b)
<1> USE DEF Layout!Formatted, Layout!Boot
<1>1. Layout!Total(b) \in Nat /\ b.sec_per_clus \in Nat \ {0} /\ b.sector_size \in Nat /\ b.sector_size >= 512
  BY DEF Layout!Total, Layout!Accepted
<1>2. Layout!DirStart(b) \in Nat
  <2>1. b.fats \in Nat /\ Layout!FatLength(b) \in Nat /\ b.reserved \in Nat
    BY DEF Layout!FatLength
  <2>2. b.fats * Layout!FatLength(b) \in Nat
    BY <2>1
  <2> QED BY <2>1, <2>2 DEF Layout!DirStart
<1>3. Layout!DirEntries(b) * Layout!DirEntrySize + b.sector_size - 1 \in Nat
  BY <1>1 DEF Layout!DirEntries, Layout!DirEntrySize
<1>4. Layout!DataStart(b) \in Nat
  BY <1>1, <1>2, <1>3, DivMod DEF Layout!DataStart
<1>5. Layout!Total(b) - Layout!DataStart(b) \in Nat
  BY <1>1, <1>4
<1>6. Layout!TotalClusters(b) \in Nat /\ Layout!TotalClusters(b) * b.sec_per_clus <= Layout!Total(b) - Layout!DataStart(b)
  BY <1>1, <1>5, DivMod DEF Layout!TotalClusters
<1> QED BY <1>1, <1>4, <1>5, <1>6

\* The fields are those of an accepted boot sector.
Filled == sbi # Layout!NoInfo => sbi = Layout!SbInfo(boot) /\ Layout!Accepted(boot)

IndInv == Layout!Formatted(boot) /\ Filled

LEMMA FilledApart == IndInv => Layout!ClustersApart
<1> SUFFICES ASSUME IndInv, sbi # Layout!NoInfo,
                    NEW c \in Layout!Valid(sbi), NEW i \in 0 .. sbi.sec_per_clus - 1
             PROVE  /\ sbi.data_start <= Layout!ClusToBlknr(sbi, c) + i
                    /\ Layout!ClusToBlknr(sbi, c) + i < Layout!Total(boot)
                    /\ \A d \in Layout!Valid(sbi), j \in 0 .. sbi.sec_per_clus - 1 :
                         Layout!ClusToBlknr(sbi, c) + i = Layout!ClusToBlknr(sbi, d) + j => c = d /\ i = j
  BY DEF Layout!ClustersApart
<1> DEFINE s == boot.sec_per_clus
           n == Layout!TotalClusters(boot)
           start == Layout!DataStart(boot)
<1>1. /\ sbi.sec_per_clus = s /\ sbi.data_start = start
      /\ sbi.max_cluster = n + 2 /\ Layout!Valid(sbi) = 2 .. n + 1
      /\ n \in Nat /\ start \in Nat /\ Layout!Total(boot) \in Nat /\ s \in Nat \ {0}
      /\ start + n * s <= Layout!Total(boot)
  <2>1. sbi = Layout!SbInfo(boot) /\ Layout!Accepted(boot) /\ Layout!Formatted(boot)
    BY DEF IndInv, Filled
  <2>2. /\ sbi.sec_per_clus = s /\ sbi.data_start = start /\ sbi.max_cluster = n + 2
    BY <2>1 DEF Layout!SbInfo, Layout!FAT_START_ENT
  <2>3. n \in Nat /\ start \in Nat /\ Layout!Total(boot) \in Nat /\ s \in Nat \ {0}
        /\ start + n * s <= Layout!Total(boot)
    BY <2>1, RegionsSound
  <2> HIDE DEF n, start
  <2>4. Layout!Valid(sbi) = 2 .. n + 1
    BY <2>2, <2>3 DEF Layout!Valid, Layout!FAT_START_ENT
  <2> QED BY <2>2, <2>3, <2>4
<1> HIDE DEF s, n, start
<1>2. \A d \in Layout!Valid(sbi) : d - 2 \in 0 .. n - 1 /\ Layout!ClusToBlknr(sbi, d) = (d - 2) * s + start
  BY <1>1 DEF Layout!ClusToBlknr, Layout!FAT_START_ENT
<1>3. (c - 2) * s \in Nat /\ n * s \in Nat /\ (c - 2) * s + i < n * s
  BY <1>1, <1>2, RowsInside
<1>5. i \in 0 .. s - 1
  BY <1>1
<1>4. ASSUME NEW d \in Layout!Valid(sbi), NEW j \in 0 .. s - 1,
             Layout!ClusToBlknr(sbi, c) + i = Layout!ClusToBlknr(sbi, d) + j
      PROVE  c = d /\ i = j
  <2>1. (d - 2) * s \in Nat
    BY <1>1, <1>2, RowsInside
  <2>2. (c - 2) * s + start + i = (d - 2) * s + start + j
    BY <1>2, <1>4
  <2>4. \A x, y \in Nat : x + start + i = y + start + j => x + i = y + j
    BY <1>1, <1>5
  <2>5. (c - 2) * s + i = (d - 2) * s + j
    BY <1>3, <2>1, <2>2, <2>4
  <2>6. c - 2 \in Nat /\ d - 2 \in Nat
    BY <1>1, <1>2
  <2>3. c - 2 = d - 2 /\ i = j
    <3>1. j \in 0 .. s - 1 /\ s \in Nat \ {0}
      BY <1>1
    <3> QED BY <1>5, <2>5, <2>6, <3>1, RowsApart
  <2> QED BY <1>1, <2>3
<1>6. \A y, z \in Nat : y + i < z => start <= y + start + i /\ y + start + i < start + z
  BY <1>1, <1>5
<1>7. sbi.data_start <= Layout!ClusToBlknr(sbi, c) + i /\ Layout!ClusToBlknr(sbi, c) + i < start + n * s
  BY <1>1, <1>2, <1>3, <1>6
<1>8. Layout!ClusToBlknr(sbi, c) + i < Layout!Total(boot)
  <2>2. \A y \in Nat : y + start + i \in Nat
    BY <1>1, <1>5
  <2>1. Layout!ClusToBlknr(sbi, c) + i \in Nat
    BY <1>2, <1>3, <2>2
  <2> QED BY <1>1, <1>3, <1>7, <2>1
<1> QED BY <1>1, <1>4, <1>7, <1>8

\* Two clusters share no sector, and none reaches into the root directory or
\* beyond the end, for every volume that a formatting program makes.
THEOREM ClustersAreApart == FormatsSpec => [](turn = "layout" => Layout!ClustersApart)
<1>1. FormatsInit => (turn = "layout" => IndInv)
  BY DEF FormatsInit, Layout!Init, IndInv, Filled
<1>2. (turn = "layout" => IndInv) /\ [FormatsNext]_formats => (turn = "layout" => IndInv)'
  <2> SUFFICES ASSUME turn = "layout" => IndInv, [FormatsNext]_formats, turn' = "layout"
               PROVE  IndInv'
    OBVIOUS
  <2>1. IndInv /\ (Layout!Next \/ UNCHANGED <<boot, sbi>>)
    BY DEF FormatsNext, formats
  <2> QED BY <2>1 DEF IndInv, Filled, Layout!Next, Layout!FillSuper
<1> QED BY <1>1, <1>2, FilledApart, PTL DEF FormatsSpec, formats

\* The cluster sizes there are.
PowersOfTwo == \A b \in BootSectors : b.sec_per_clus \in {1, 2, 4, 8, 16, 32, 64, 128}

\* The powers of two up to the number of bytes in the largest cluster.
Power(j) ==
  IF j = 0 THEN 1 ELSE IF j = 1 THEN 2 ELSE IF j = 2 THEN 4 ELSE IF j = 3 THEN 8
  ELSE IF j = 4 THEN 16 ELSE IF j = 5 THEN 32 ELSE IF j = 6 THEN 64 ELSE IF j = 7 THEN 128
  ELSE IF j = 8 THEN 256 ELSE IF j = 9 THEN 512 ELSE IF j = 10 THEN 1024 ELSE IF j = 11 THEN 2048
  ELSE IF j = 12 THEN 4096 ELSE IF j = 13 THEN 8192 ELSE IF j = 14 THEN 16384 ELSE IF j = 15 THEN 32768
  ELSE 65536

LEMMA Powers ==
  ASSUME NEW j \in 0 .. 16
  PROVE  2^j = Power(j)
<1>0. \/ j = 0 \/ j = 1 \/ j = 2 \/ j = 3 \/ j = 4 \/ j = 5 \/ j = 6 \/ j = 7 \/ j = 8
      \/ j = 9 \/ j = 10 \/ j = 11 \/ j = 12 \/ j = 13 \/ j = 14 \/ j = 15 \/ j = 16
  OBVIOUS
<1>1. CASE j = 0
  BY <1>1, 2^0 = 1 DEF Power
<1>2. CASE j = 1
  BY <1>2, 2^1 = 2 DEF Power
<1>3. CASE j = 2
  BY <1>3, 2^2 = 4 DEF Power
<1>4. CASE j = 3
  BY <1>4, 2^3 = 8 DEF Power
<1>5. CASE j = 4
  BY <1>5, 2^4 = 16 DEF Power
<1>6. CASE j = 5
  BY <1>6, 2^5 = 32 DEF Power
<1>7. CASE j = 6
  BY <1>7, 2^6 = 64 DEF Power
<1>8. CASE j = 7
  BY <1>8, 2^7 = 128 DEF Power
<1>9. CASE j = 8
  BY <1>9, 2^8 = 256 DEF Power
<1>10. CASE j = 9
  BY <1>10, 2^9 = 512 DEF Power
<1>11. CASE j = 10
  BY <1>11, 2^10 = 1024 DEF Power
<1>12. CASE j = 11
  BY <1>12, 2^11 = 2048 DEF Power
<1>13. CASE j = 12
  BY <1>13, 2^12 = 4096 DEF Power
<1>14. CASE j = 13
  BY <1>14, 2^13 = 8192 DEF Power
<1>15. CASE j = 14
  BY <1>15, 2^14 = 16384 DEF Power
<1>16. CASE j = 15
  BY <1>16, 2^15 = 32768 DEF Power
<1>17. CASE j = 16
  BY <1>17, 2^16 = 65536 DEF Power
<1> QED BY <1>0, <1>1, <1>2, <1>3, <1>4, <1>5, <1>6, <1>7, <1>8, <1>9,
           <1>10, <1>11, <1>12, <1>13, <1>14, <1>15, <1>16, <1>17

\* cluster_bits of a cluster of m sectors of 512 bytes.
LEMMA ClusterBits ==
  ASSUME NEW m \in {1, 2, 4, 8, 16, 32, 64, 128}
  PROVE  2^(Layout!Bits(m * 512) - 9) = m
<1>1. PICK e \in 0 .. 7 : Power(e) = m /\ Power(e + 9) = m * 512
  <2>1. \E e \in 0 .. 7 : Power(e) = m /\ Power(e + 9) = m * 512
    BY DEF Power
  <2> QED BY <2>1
<1>2. e \in 0 .. 16 /\ e + 9 \in 0 .. 16 /\ e + 9 \in 0 .. 20 /\ e + 9 - 9 = e
  OBVIOUS
<1>3. 2^e = m /\ 2^(e + 9) = m * 512
  BY <1>1, <1>2, Powers, ZenonT(30)
<1>4. \A j \in 0 .. e + 9 - 1 : 2^j < m * 512
  <2>1. \A j \in 0 .. e + 9 - 1 : Power(j) < Power(e + 9)
    BY DEF Power
  <2>2. \A j \in 0 .. e + 9 - 1 : j \in 0 .. 16
    OBVIOUS
  <2> QED BY <1>1, <2>1, <2>2, Powers, ZenonT(30)
<1>5. ASSUME NEW k \in 0 .. 20, 2^k >= m * 512, \A j \in 0 .. k - 1 : 2^j < m * 512
      PROVE  k = e + 9
  <2>1. CASE k < e + 9
    <3>1. k \in 0 .. e + 9 - 1
      BY <2>1
    <3>2. 2^k < m * 512 /\ 2^k \in Nat
      <4>1. k \in 0 .. 16 /\ Power(k) \in Nat
        BY <3>1 DEF Power
      <4> QED BY <1>4, <3>1, <4>1, Powers, Zenon
    <3> QED BY <1>5, <3>2
  <2>2. CASE k > e + 9
    <3>1. e + 9 \in 0 .. k - 1
      BY <2>2
    <3>2. 2^(e + 9) < m * 512
      BY <1>5, <3>1, Zenon
    <3> QED BY <1>3, <3>2
  <2> QED BY <2>1, <2>2
<1>6. Layout!Bits(m * 512) = e + 9
  <2>1. 2^(e + 9) >= m * 512
    BY <1>3
  <2>2. \E k \in 0 .. 20 : 2^k >= m * 512 /\ \A j \in 0 .. k - 1 : 2^j < m * 512
    <3> WITNESS e + 9 \in 0 .. 20
    <3>1. \A j \in 0 .. (e + 9) - 1 : 2^j < m * 512
      BY <1>4
    <3> QED BY <2>1, <3>1
  <2>3. PICK k : k = Layout!Bits(m * 512)
    OBVIOUS
  <2>4. k \in 0 .. 20 /\ 2^k >= m * 512 /\ \A j \in 0 .. k - 1 : 2^j < m * 512
    BY <2>2, <2>3, Zenon DEF Layout!Bits
  <2> QED BY <1>5, <2>3, <2>4, ZenonT(60)
<1>7. Layout!Bits(m * 512) - 9 = e
  BY <1>2, <1>6
<1> QED BY <1>3, <1>7, Zenon

\* The regions of an accepted boot sector with sectors of 512 bytes lie one
\* behind the other: the copies of the FAT, the root directory, the clusters.
LEMMA RegionsInOrder ==
  ASSUME NEW b, Layout!Formatted(b), Layout!Accepted(b), b.sector_size = 512
  PROVE  /\ b.reserved \in Nat /\ b.fats \in Nat \ {0} /\ Layout!FatLength(b) \in Nat
         /\ Layout!DirStart(b) = b.reserved + b.fats * Layout!FatLength(b) /\ Layout!DirStart(b) \in Nat
         /\ Layout!DirEntries(b) \div (512 \div Layout!DirEntrySize) \in Nat
         /\ Layout!DirStart(b) + (Layout!DirEntries(b) \div (512 \div Layout!DirEntrySize)) <= Layout!DataStart(b)
         /\ Layout!DataStart(b) \in Nat /\ Layout!Total(b) \in Nat /\ Layout!DataStart(b) <= Layout!Total(b)
<1> USE DEF Layout!Formatted, Layout!Boot
<1>1. /\ b.reserved \in Nat /\ b.fats \in Nat \ {0} /\ Layout!FatLength(b) \in Nat
      /\ Layout!DirEntries(b) \in Nat
  BY DEF Layout!FatLength, Layout!DirEntries
<1>2. Layout!DirStart(b) = b.reserved + b.fats * Layout!FatLength(b) /\ Layout!DirStart(b) \in Nat
  <2>1. b.fats * Layout!FatLength(b) \in Nat
    BY <1>1
  <2> QED BY <1>1, <2>1 DEF Layout!DirStart
<1>3. 512 \div Layout!DirEntrySize = 16
  BY DEF Layout!DirEntrySize
<1>4. PICK e \in Nat : e = Layout!DirEntries(b)
  BY <1>1
<1>5. Layout!DataStart(b) = Layout!DirStart(b) + ((e * 32 + 511) \div 512)
  <2>1. e * 32 + 512 - 1 = e * 32 + 511
    OBVIOUS
  <2> QED BY <1>4, <2>1 DEF Layout!DataStart, Layout!DirEntrySize
<1>6. /\ e \div 16 \in Nat /\ (e * 32 + 511) \div 512 \in Nat
      /\ e \div 16 <= (e * 32 + 511) \div 512
  OBVIOUS
<1>7. Layout!DataStart(b) \in Nat /\ Layout!Total(b) \in Nat /\ Layout!DataStart(b) <= Layout!Total(b)
  BY RegionsSound
<1> QED BY <1>1, <1>2, <1>3, <1>4, <1>5, <1>6, <1>7

\* Every sector that fat_mirror_bhs writes to is in the copies of the FAT.
LEMMA MirrorInside ==
  ASSUME NEW s, NEW start \in Nat, NEW len \in Nat, NEW n \in Nat \ {0},
         s.fats = n, s.fat_length = len, NEW end, end = start + n * len,
         NEW blocks \in SUBSET (start .. start + len - 1),
         NEW x \in Layout!Mirrored(s, blocks)
  PROVE  x \in Nat /\ start <= x /\ x < end
<1>1. PICK y \in blocks, i \in 0 .. n - 1 : x = y + i * len
  <2>1. CASE s.fat_bits = 32
    <3>1. x \in blocks /\ 0 \in 0 .. n - 1
      BY <2>1 DEF Layout!Mirrored
    <3>2. x \in Nat /\ x = x + 0 * len
      BY <3>1
    <3> QED BY <3>1, <3>2
  <2>2. CASE s.fat_bits # 32
    BY <2>2 DEF Layout!Mirrored
  <2> QED BY <2>1, <2>2
<1>2. y \in Nat /\ start <= y /\ y < start + len
  OBVIOUS
<1>3. PICK z \in Nat, w \in Nat : z = i * len /\ w = n * len /\ z + len <= w
  <2>1. (i + 1) * len <= n * len /\ (i + 1) * len = i * len + len
    OBVIOUS
  <2>2. i * len \in Nat /\ n * len \in Nat
    OBVIOUS
  <2> QED BY <2>1, <2>2
<1> QED BY <1>1, <1>2, <1>3

\* fat_bmap of a file that has every cluster in order.
LEMMA BmapInOrder ==
  ASSUME NEW s, NEW m \in {1, 2, 4, 8, 16, 32, 64, 128}, NEW start \in Nat,
         s.sec_per_clus = m, s.data_start = start,
         s.cluster_bits = Layout!Bits(m * 512),
         NEW i \in Nat
  PROVE  Layout!Bmap(s, i) = start + i
<1>1. Layout!Bmap(s, i) = ((Layout!FAT_START_ENT + (i \div m)) - Layout!FAT_START_ENT) * m + start + (i % m)
  BY ClusterBits DEF Layout!Bmap, Layout!ClusToBlknr
<1>2. i = (i \div m) * m + (i % m) /\ i \div m \in Nat /\ i % m \in Nat
  OBVIOUS
<1>3. (Layout!FAT_START_ENT + (i \div m)) - Layout!FAT_START_ENT = i \div m
  BY <1>2 DEF Layout!FAT_START_ENT
<1>4. (i \div m) * m \in Nat
  BY <1>2
<1> QED BY <1>1, <1>2, <1>3, <1>4

\* FatLayout counts as FiniteSets does.
LEMMA SameCount == \A S : Layout!Cardinality(S) = Cardinality(S)
BY DEF Layout!Cardinality, Cardinality

\* How many numbers there are from a to b.
LEMMA IntervalCount ==
  ASSUME NEW a \in Int, NEW b \in Int, a <= b + 1
  PROVE  Cardinality(a .. b) = b - a + 1
<1>1. Cardinality(a .. b) = IF a > b THEN 0 ELSE b - a + 1
  BY FS_Interval
<1> QED BY <1>1

\* The boot sector is one of those there are.
OfTheSet == boot \in BootSectors

LEMMA FilledSectorsApart == PowersOfTwo /\ OfTheSet /\ IndInv => Layout!SectorsApart
<1> SUFFICES ASSUME PowersOfTwo, OfTheSet, IndInv, sbi # Layout!NoInfo, sbi.s_blocksize = 512
             PROVE  LET fat  == Layout!Mirrored(sbi, UNION {Layout!EntBlocks(sbi, c) : c \in Layout!Valid(sbi)})
                        root == Layout!RootBlocks(sbi)
                        data == {Layout!Bmap(sbi, i) : i \in Layout!FileSectors(sbi)}
                    IN  /\ Cardinality(data) = Cardinality(Layout!FileSectors(sbi))
                        /\ fat \cap root = {} /\ (fat \cup root) \cap data = {}
                        /\ fat \cup root \cup data \subseteq boot.reserved .. Layout!Total(boot) - 1
  BY SameCount DEF Layout!SectorsApart
<1> DEFINE fat  == Layout!Mirrored(sbi, UNION {Layout!EntBlocks(sbi, c) : c \in Layout!Valid(sbi)})
           root == Layout!RootBlocks(sbi)
           data == {Layout!Bmap(sbi, i) : i \in Layout!FileSectors(sbi)}
           m == boot.sec_per_clus
           n == Layout!TotalClusters(boot)
           start == Layout!DataStart(boot)
           roots == Layout!DirEntries(boot) \div (512 \div Layout!DirEntrySize)
<1>1. sbi = Layout!SbInfo(boot) /\ Layout!Accepted(boot) /\ Layout!Formatted(boot) /\ boot.sector_size = 512
  BY DEF IndInv, Filled, Layout!SbInfo
<1>2. m \in {1, 2, 4, 8, 16, 32, 64, 128}
  BY DEF PowersOfTwo, OfTheSet
<1>3. /\ sbi.sec_per_clus = m /\ sbi.data_start = start /\ sbi.max_cluster = n + 2
      /\ sbi.cluster_bits = Layout!Bits(m * 512) /\ sbi.fats = boot.fats
      /\ sbi.fat_length = Layout!FatLength(boot) /\ sbi.dir_start = Layout!DirStart(boot)
      /\ sbi.dir_entries \div (sbi.s_blocksize \div Layout!DirEntrySize) = roots
  BY <1>1 DEF Layout!SbInfo, Layout!FAT_START_ENT
<1>4. n \in Nat /\ start + n * m <= Layout!Total(boot)
  BY <1>1, RegionsSound
<1>5. /\ boot.reserved \in Nat /\ boot.fats \in Nat \ {0} /\ Layout!FatLength(boot) \in Nat
      /\ Layout!DirStart(boot) = boot.reserved + boot.fats * Layout!FatLength(boot)
      /\ Layout!DirStart(boot) \in Nat /\ roots \in Nat /\ Layout!DirStart(boot) + roots <= start
      /\ start \in Nat /\ Layout!Total(boot) \in Nat /\ start <= Layout!Total(boot)
  BY <1>1, RegionsInOrder
<1>6. \A x \in fat : x \in Nat /\ boot.reserved <= x /\ x < Layout!DirStart(boot)
  <2>1. UNION {Layout!EntBlocks(sbi, c) : c \in Layout!Valid(sbi)}
          \subseteq boot.reserved .. boot.reserved + Layout!FatLength(boot) - 1
    BY <1>1 DEF Layout!Formatted
  <2>2. PICK blocks \in SUBSET (boot.reserved .. boot.reserved + Layout!FatLength(boot) - 1) :
          blocks = UNION {Layout!EntBlocks(sbi, c) : c \in Layout!Valid(sbi)}
    BY <2>1
  <2>3. fat = Layout!Mirrored(sbi, blocks)
    BY <2>2
  <2> HIDE DEF fat
  <2>4. ASSUME NEW x \in Layout!Mirrored(sbi, blocks)
        PROVE  x \in Nat /\ boot.reserved <= x /\ x < Layout!DirStart(boot)
    BY <1>3, <1>5, MirrorInside, SMTT(30)
  <2> QED BY <2>3, <2>4
<1>7. root = {Layout!DirStart(boot) + i : i \in 0 .. roots - 1}
  BY <1>3 DEF Layout!RootBlocks
<1> HIDE DEF n, start, roots, fat
<1>8. \A x \in root : x \in Nat /\ Layout!DirStart(boot) <= x /\ x < start
  BY <1>5, <1>7
<1>9. PICK size \in Nat : size = n * m
  <2>1. m \in Nat
    BY <1>2
  <2>2. n * m \in Nat
    BY <1>4, <2>1
  <2> QED BY <2>2
<1>10. Layout!FileSectors(sbi) = 0 .. size - 1
  <2>1. Layout!Valid(sbi) = 2 .. n + 1
    BY <1>3, <1>4 DEF Layout!Valid, Layout!FAT_START_ENT
  <2>2. Cardinality(Layout!Valid(sbi)) = n
    <3>1. PICK b \in Int : b = n + 1 /\ 2 <= b + 1 /\ b - 2 + 1 = n
      BY <1>4
    <3>2. 2 \in Int
      OBVIOUS
    <3>3. Cardinality(2 .. b) = b - 2 + 1
      BY <3>1, <3>2, IntervalCount, ZenonT(30)
    <3> QED BY <2>1, <3>1, <3>3
  <2> QED BY <1>3, <1>9, <2>2, SameCount DEF Layout!FileSectors
<1>11. data = start .. start + size - 1
  <2>1. \A i \in 0 .. size - 1 : Layout!Bmap(sbi, i) = start + i
    BY <1>2, <1>3, <1>5, BmapInOrder
  <2>2. data = {start + i : i \in 0 .. size - 1}
    BY <1>10, <2>1
  <2>3. ASSUME NEW x \in start .. start + size - 1
        PROVE  x \in {start + i : i \in 0 .. size - 1}
    <3>1. x - start \in 0 .. size - 1 /\ x = start + (x - start)
      BY <1>5
    <3> QED BY <3>1
  <2>4. \A i \in 0 .. size - 1 : start + i \in start .. start + size - 1
    BY <1>5
  <2> QED BY <2>2, <2>3, <2>4
<1> HIDE DEF root, data
<1>12. Cardinality(data) = Cardinality(Layout!FileSectors(sbi))
  <2>1. Cardinality(start .. start + size - 1) = size
    <3>1. /\ start \in Int /\ start + size - 1 \in Int /\ start <= (start + size - 1) + 1
          /\ (start + size - 1) - start + 1 = size
      BY <1>5
    <3> QED BY <3>1, IntervalCount, Zenon
  <2>2. Cardinality(0 .. size - 1) = size
    <3>1. /\ 0 \in Int /\ size - 1 \in Int /\ 0 <= (size - 1) + 1
          /\ (size - 1) - 0 + 1 = size
      OBVIOUS
    <3> QED BY <3>1, IntervalCount, Zenon
  <2> QED BY <1>10, <1>11, <2>1, <2>2
<1>13. \A x \in data : x \in Nat /\ start <= x /\ x < Layout!Total(boot)
  BY <1>4, <1>5, <1>9, <1>11, SMTT(30)
<1>14. fat \cap root = {} /\ (fat \cup root) \cap data = {}
  BY <1>5, <1>6, <1>8, <1>13
<1>15. fat \cup root \cup data \subseteq boot.reserved .. Layout!Total(boot) - 1
  <2>1. boot.reserved <= Layout!DirStart(boot) /\ boot.reserved <= start
    <3>1. boot.fats * Layout!FatLength(boot) \in Nat
      BY <1>5
    <3> QED BY <1>5, <3>1
  <2>2. \A x \in fat \cup root \cup data :
          x \in Nat /\ boot.reserved <= x /\ x < Layout!Total(boot)
    BY <1>5, <1>6, <1>8, <1>13, <2>1
  <2> QED BY <1>5, <2>2
<1> QED BY <1>12, <1>14, <1>15 DEF fat, root, data

\* With sectors of 512 bytes and clusters of a power of two of them, nothing
\* that fat_set_sb_info tells apart shares a sector, for volumes of any size.
THEOREM SectorsAreApart == PowersOfTwo /\ FormatsSpec => []SectorsApart
<1> SUFFICES ASSUME PowersOfTwo PROVE FormatsSpec => []SectorsApart
  OBVIOUS
<1> DEFINE Inv == turn = "layout" => IndInv /\ OfTheSet
<1>1. FormatsInit => Inv
  BY DEF FormatsInit, Layout!Init, IndInv, Filled, OfTheSet
<1>2. Inv /\ [FormatsNext]_formats => Inv'
  <2> SUFFICES ASSUME Inv, [FormatsNext]_formats, turn' = "layout"
               PROVE  (IndInv /\ OfTheSet)'
    OBVIOUS
  <2>1. IndInv /\ OfTheSet /\ (Layout!Next \/ UNCHANGED <<boot, sbi>>)
    BY DEF FormatsNext, formats
  <2> QED BY <2>1 DEF IndInv, Filled, OfTheSet, Layout!Next, Layout!FillSuper
<1>3. Inv => SectorsApart
  BY FilledSectorsApart DEF SectorsApart
<1> QED BY <1>1, <1>2, <1>3, PTL DEF FormatsSpec, formats

-----------------------------------------------------------------------------
(* Twelve-bit entries.                                                     *)

\* A byte keeps its upper half and takes a new lower half, and is a byte.
LEMMA HalvesMeet ==
  ASSUME NEW a \in 0 .. 255, NEW n \in 0 .. 15
  PROVE  /\ (a \div 16) * 16 + n \in 0 .. 255
         /\ ((a \div 16) * 16 + n) % 16 = n
  OBVIOUS

LowTwelve(h, l) == (h * 256 + l) % 4096

\* Masking two bytes to twelve bits masks the high one to four.
LEMMA Masked ==
  ASSUME NEW h \in 0 .. 255, NEW l \in 0 .. 255
  PROVE  LowTwelve(h, l) = (h % 16) * 256 + l
<1>1. h = (h \div 16) * 16 + (h % 16) /\ h \div 16 \in 0 .. 15 /\ h % 16 \in 0 .. 15
  OBVIOUS
<1>2. h * 256 + l = 4096 * (h \div 16) + ((h % 16) * 256 + l)
  BY <1>1
<1>3. (h % 16) * 256 + l \in 0 .. 4095
  BY <1>1
<1>4. \A x \in 0 .. 4095, q \in 0 .. 15 : (4096 * q + x) % 4096 = x
  OBVIOUS
<1> QED BY <1>1, <1>2, <1>3, <1>4 DEF LowTwelve

\* One fat12_ent_put on bytes keeps them bytes and can be read back.
LEMMA PutGet ==
  ASSUME H = 16,
         NEW b \in [0 .. 2 -> Byte], NEW e \in {Even, Odd}, NEW v \in Value
  PROVE  /\ Put(e, v, b) \in [0 .. 2 -> Byte]
         /\ Get(e, Put(e, v, b)) = v
<1>1. Byte = 0 .. 255 /\ Value = 0 .. 4095
  BY DEF Byte, Value
<1>2. v \in 0 .. 4095
  BY <1>1
<1>3. \A i \in 0 .. 2 : b[i] \in 0 .. 255
  BY <1>1
<1>4. CASE e = Odd
  <2> DEFINE low  == (b[1] \div 16) * 16 + (v % 16)
             high == v \div 16
  <2>0. b[1] \in 0 .. 255 /\ v % 16 \in 0 .. 15
    <3>1. 1 \in 0 .. 2
      OBVIOUS
    <3> QED BY <1>2, <1>3, <3>1
  <2>1. low \in 0 .. 255 /\ low % 16 = v % 16
    BY <2>0, HalvesMeet
  <2>2. high \in 0 .. 255 /\ high % 256 = high /\ high * 16 + (v % 16) = v
    BY <1>2
  <2>3. Put(e, v, b) = [b EXCEPT ![1] = low, ![2] = high % (16 * 16)]
    BY <1>4 DEF Put
  <2>4. Put(e, v, b) = [b EXCEPT ![1] = low, ![2] = high]
    BY <2>2, <2>3, 16 * 16 = 256
  <2> HIDE DEF low, high
  <2>5. Put(e, v, b) \in [0 .. 2 -> Byte]
    BY <2>1, <2>2, <2>4, <1>1
  <2>6. Put(e, v, b)[1] = low /\ Put(e, v, b)[2] = high
    BY <2>4
  <2>7. Get(e, Put(e, v, b)) = high * 16 + (low % 16)
    BY <1>4, <2>6 DEF Get
  <2> QED BY <2>1, <2>2, <2>5, <2>7
<1>5. CASE e = Even
  <2> DEFINE low  == v % 256
             high == (b[1] \div 16) * 16 + ((v \div 256) % 16)
  <2>1. low \in 0 .. 255 /\ v \div 256 \in 0 .. 15
        /\ (v \div 256) % 16 = v \div 256
        /\ (v \div 256) * 256 + low = v
    BY <1>2
  <2>2. high \in 0 .. 255 /\ high % 16 = v \div 256
    BY <1>2, <1>3, <2>1, HalvesMeet
  <2>3. Put(e, v, b) = [b EXCEPT ![0] = low, ![1] = high]
    BY <1>5, 16 * 16 = 256 DEF Put, Even, Odd
  <2> HIDE DEF low, high
  <2>4. LowTwelve(high, low) = v
    <3>1. LowTwelve(high, low) = (high % 16) * 256 + low
      BY <2>1, <2>2, Masked, ZenonT(60)
    <3> QED BY <3>1, <2>1, <2>2
  <2>5. Put(e, v, b) \in [0 .. 2 -> Byte]
    BY <2>1, <2>2, <2>3, <1>1
  <2>6. Put(e, v, b)[0] = low /\ Put(e, v, b)[1] = high
    BY <2>3
  <2>7. Get(e, Put(e, v, b)) = (high * 16 * 16 + low) % (16 * 16 * 16)
    BY <1>5, <2>6 DEF Get, Even, Odd
  <2>8. high * 16 * 16 = high * 256 /\ 16 * 16 * 16 = 4096
    BY <2>2
  <2>9. Get(e, Put(e, v, b)) = LowTwelve(high, low)
    BY <2>7, <2>8 DEF LowTwelve
  <2> QED BY <2>4, <2>5, <2>9
<1> QED BY <1>4, <1>5

\* What the bytes are while the behavior is one of theirs.
PairTypeOK == turn = "entry" => TypeOK

LEMMA PairSteps ==
  PairTypeOK /\ [FormatsNext]_formats => (TypeOK /\ Next) \/ UNCHANGED <<p, last>>
BY DEF FormatsNext, formats, PairTypeOK

LEMMA PairTypes ==
  ASSUME H = 16, PairTypeOK, [FormatsNext]_formats
  PROVE  PairTypeOK'
<1> SUFFICES ASSUME turn' = "entry" PROVE TypeOK'
  BY DEF PairTypeOK
<1>1. TypeOK /\ (Next \/ UNCHANGED <<p, last>>)
  BY DEF FormatsNext, formats, PairTypeOK
<1>2. CASE Next
  <2>1. PICK e \in {Even, Odd}, new \in Value : EntPut(e, new)
    BY <1>2 DEF Next
  <2>2. p' \in [0 .. 2 -> Byte]
    BY <1>1, <2>1, PutGet DEF EntPut, TypeOK
  <2> QED BY <2>1, <2>2 DEF EntPut, TypeOK
<1>3. CASE UNCHANGED <<p, last>>
  BY <1>1, <1>3 DEF TypeOK
<1> QED BY <1>1, <1>2, <1>3

\* With half bytes of four bits, whatever the FAT holds at first and whatever
\* sequence of fat12_ent_put follows, the last one is read back as written.
THEOREM AlwaysReadsBack == H = 16 /\ FormatsSpec => []ReadsBack
<1> SUFFICES ASSUME H = 16 PROVE FormatsSpec => []ReadsBack
  OBVIOUS
<1>1. FormatsInit => PairTypeOK /\ ReadsBack
  BY DEF FormatsInit, Init, TypeOK, PairTypeOK, ReadsBack
<1>2. PairTypeOK /\ ReadsBack /\ [FormatsNext]_formats => ReadsBack'
  <2> SUFFICES ASSUME PairTypeOK, ReadsBack, [FormatsNext]_formats PROVE ReadsBack'
    OBVIOUS
  <2>1. CASE UNCHANGED <<p, last>>
    BY <2>1 DEF ReadsBack
  <2>2. CASE TypeOK /\ Next
    <3>1. PICK e \in {Even, Odd}, new \in Value : EntPut(e, new)
      BY <2>2 DEF Next
    <3>2. Get(e, p') = new
      BY <2>2, <3>1, PutGet DEF EntPut, TypeOK
    <3> QED BY <3>1, <3>2 DEF EntPut, ReadsBack
  <2> QED BY <2>1, <2>2, PairSteps
<1>3. PairTypeOK /\ [FormatsNext]_formats => PairTypeOK'
  BY PairTypes
<1> QED BY <1>1, <1>2, <1>3, PTL DEF FormatsSpec, formats

-----------------------------------------------------------------------------
(* Time stamps.                                                            *)

Day == [year : Nat, mon : 0 .. 11, mday : 1 .. 31]

TimeOfDay == [hour : 0 .. 23, min : 0 .. 59, sec : 0 .. 59]

\* What gmtime_r may return.
RealTimes ==
  /\ Hours \subseteq 0 .. 23 /\ Minutes \subseteq 0 .. 59 /\ Seconds \subseteq 0 .. 59
  /\ Starts \subseteq Day

TimeTypeOK == tm \in [day : Day, clock : TimeOfDay]

\* A number that fits in the field is not cut.
LEMMA Unwrapped ==
  ASSUME NEW x \in Nat, x < 65536
  PROVE  x % 65536 = x
OBVIOUS

\* A later time of the day has no earlier stamp.
LEMMA ClockOrdered ==
  ASSUME NEW c \in TimeOfDay, NEW d \in TimeOfDay,
         Time!SecondOfDay(d) > Time!SecondOfDay(c)
  PROVE  /\ Time!Time(c) \in Int /\ Time!Time(d) \in Int
         /\ Time!Time(c) <= Time!Time(d)
         /\ Time!Time(c) = Time!Time(d) =>
              Time!SecondOfDay(d) - Time!SecondOfDay(c) < 2
<1>1. PICK h \in 0 .. 23, m \in 0 .. 59, s \in 0 .. 59 :
        h = c.hour /\ m = c.min /\ s = c.sec
  BY DEF TimeOfDay
<1>2. PICK h2 \in 0 .. 23, m2 \in 0 .. 59, s2 \in 0 .. 59 :
        h2 = d.hour /\ m2 = d.min /\ s2 = d.sec
  BY DEF TimeOfDay
<1>3. ASSUME NEW x \in 0 .. 23, NEW y \in 0 .. 59, NEW z \in 0 .. 59
      PROVE  (x * 2048 + y * 32 + (z \div 2)) % 65536 = x * 2048 + y * 32 + (z \div 2)
  <2>1. z \div 2 \in 0 .. 29
    OBVIOUS
  <2>2. /\ x * 2048 + y * 32 + (z \div 2) \in Nat
        /\ x * 2048 + y * 32 + (z \div 2) < 65536
    BY <2>1
  <2> QED BY <2>2, Unwrapped
<1>4. /\ Time!Time(c) = h * 2048 + m * 32 + (s \div 2)
      /\ Time!Time(d) = h2 * 2048 + m2 * 32 + (s2 \div 2)
  <2>1. /\ Time!Time(c) = (h * 2048 + m * 32 + (s \div 2)) % 65536
        /\ Time!Time(d) = (h2 * 2048 + m2 * 32 + (s2 \div 2)) % 65536
    BY <1>1, <1>2 DEF Time!Time, Time!Word
  <2> QED BY <1>3, <2>1
<1>5. h2 * 3600 + m2 * 60 + s2 > h * 3600 + m * 60 + s
  BY <1>1, <1>2 DEF Time!SecondOfDay
<1>6. /\ s \div 2 \in 0 .. 29 /\ s2 \div 2 \in 0 .. 29
      /\ s \in {2 * (s \div 2), 2 * (s \div 2) + 1}
      /\ s2 \in {2 * (s2 \div 2), 2 * (s2 \div 2) + 1}
  OBVIOUS
<1>7. h2 > h \/ (h2 = h /\ m2 > m) \/ (h2 = h /\ m2 = m /\ s2 > s)
  BY <1>5
<1>8. /\ h * 2048 + m * 32 + (s \div 2) <= h2 * 2048 + m2 * 32 + (s2 \div 2)
      /\ h * 2048 + m * 32 + (s \div 2) = h2 * 2048 + m2 * 32 + (s2 \div 2) =>
           (h2 * 3600 + m2 * 60 + s2) - (h * 3600 + m * 60 + s) < 2
  BY <1>6, <1>7
<1>9. /\ h * 2048 + m * 32 + (s \div 2) \in Int
      /\ h2 * 2048 + m2 * 32 + (s2 \div 2) \in Int
  BY <1>6
<1>10. /\ Time!SecondOfDay(d) = h2 * 3600 + m2 * 60 + s2
       /\ Time!SecondOfDay(c) = h * 3600 + m * 60 + s
  BY <1>1, <1>2 DEF Time!SecondOfDay
<1> QED BY <1>4, <1>8, <1>9, <1>10

\* From 1 January 1980 to 31 December 2027.
DateInRange(d) ==
  /\ Time!Date(d) \in Nat
  /\ 80 * 512 + 33 <= Time!Date(d)
  /\ Time!Date(d) <= 127 * 512 + 12 * 32 + 31

\* The stamp of a day in range is exact, and that of the next day is later.
LEMMA DaysOrdered ==
  ASSUME NEW d \in Day, NEW e \in Day, e = Time!Tomorrow(d)
  PROVE  /\ Time!InRange(d) => DateInRange(d)
         /\ Time!InRange(d) /\ Time!InRange(e) => Time!Date(d) < Time!Date(e)
         /\ e.year \in {d.year, d.year + 1}
<1>1. ASSUME NEW a \in Day, Time!InRange(a)
      PROVE  /\ Time!Date(a) = a.year * 512 + (a.mon + 1) * 32 + a.mday
             /\ DateInRange(a)
  <2>1. a.year \in 80 .. 127 /\ a.mon \in 0 .. 11 /\ a.mday \in 1 .. 31
    BY <1>1 DEF Day, Time!InRange
  <2>2. PICK n \in Nat :
          /\ n = a.year * 512 + (a.mon + 1) * 32 + a.mday
          /\ 80 * 512 + 33 <= n /\ n <= 127 * 512 + 12 * 32 + 31
    <3>1. PICK y \in 80 .. 127, m \in 0 .. 11, k \in 1 .. 31 :
            y = a.year /\ m = a.mon /\ k = a.mday
      BY <2>1
    <3>2. PICK n \in Nat : n = y * 512 + (m + 1) * 32 + k
      OBVIOUS
    <3>3. 80 * 512 + 33 <= n /\ n <= 127 * 512 + 12 * 32 + 31
      BY <3>2
    <3> QED BY <3>1, <3>2, <3>3
  <2>3. Time!Date(a) = n % 65536
    BY <2>2 DEF Time!Date, Time!Word
  <2>4. n % 65536 = n
    BY <2>2, Unwrapped
  <2> QED BY <2>2, <2>3, <2>4 DEF DateInRange
<1>2. \/ e.year = d.year /\ e.mon = d.mon /\ e.mday = d.mday + 1
      \/ e.year = d.year /\ e.mon = d.mon + 1 /\ e.mday = 1
      \/ e.year = d.year + 1 /\ e.mon = 0 /\ e.mday = 1
  BY DEF Day, Time!Tomorrow
<1>3. d.year \in Nat /\ d.mon \in 0 .. 11 /\ d.mday \in 1 .. 31
  BY DEF Day
<1>4. d.year * 512 + (d.mon + 1) * 32 + d.mday < e.year * 512 + (e.mon + 1) * 32 + e.mday
  <2>1. PICK y \in Nat, m \in 0 .. 11, k \in 1 .. 31 : y = d.year /\ m = d.mon /\ k = d.mday
    BY <1>3
  <2>2. PICK y2 \in Nat, m2 \in 0 .. 12, k2 \in 1 .. 32 :
          y2 = e.year /\ m2 = e.mon /\ k2 = e.mday
    BY <1>2, <1>3
  <2>3. \/ y2 = y /\ m2 = m /\ k2 = k + 1
        \/ y2 = y /\ m2 = m + 1 /\ k2 = 1
        \/ y2 = y + 1 /\ m2 = 0 /\ k2 = 1
    BY <1>2, <2>1, <2>2
  <2>4. y * 512 + (m + 1) * 32 + k < y2 * 512 + (m2 + 1) * 32 + k2
    BY <2>3
  <2> QED BY <2>1, <2>2, <2>4
<1> QED BY <1>1, <1>2, <1>4

LEMMA TomorrowIsADay ==
  ASSUME NEW d \in Day
  PROVE  Time!Tomorrow(d) \in Day
<1>1. Time!MonthLength(d.year, d.mon) \in 28 .. 31
  BY DEF Time!MonthLength
<1>2. d.year \in Nat /\ d.mon \in 0 .. 11 /\ d.mday \in 1 .. 31
  BY DEF Day
<1>3. CASE d.mday < Time!MonthLength(d.year, d.mon)
  <2>1. d.mday + 1 \in 1 .. 31
    BY <1>1, <1>2, <1>3
  <2>2. Time!Tomorrow(d) = [d EXCEPT !.mday = @ + 1]
    BY <1>3 DEF Time!Tomorrow
  <2> QED BY <2>1, <2>2 DEF Day
<1>4. CASE ~(d.mday < Time!MonthLength(d.year, d.mon)) /\ d.mon < 11
  <2>1. d.mon + 1 \in 0 .. 11
    BY <1>2, <1>4
  <2>2. Time!Tomorrow(d) = [d EXCEPT !.mon = d.mon + 1, !.mday = 1]
    BY <1>4 DEF Time!Tomorrow
  <2>3. Time!Tomorrow(d) = [year |-> d.year, mon |-> d.mon + 1, mday |-> 1]
    BY <2>2 DEF Day
  <2> QED BY <1>2, <2>1, <2>3 DEF Day
<1>5. CASE ~(d.mday < Time!MonthLength(d.year, d.mon)) /\ ~(d.mon < 11)
  BY <1>2, <1>5 DEF Time!Tomorrow, Day
<1> QED BY <1>3, <1>4, <1>5

\* fat_time_unix2fat, for every time from any year on: a later time never gets
\* an earlier stamp, and within the years that a stamp can tell apart another
\* one after two seconds.
THEOREM StampsAlwaysOrdered == RealTimes /\ FormatsSpec => StampsOrdered
<1> SUFFICES ASSUME RealTimes PROVE FormatsSpec => StampsOrdered
  OBVIOUS
<1>0. Time!Clock \subseteq TimeOfDay
  BY DEF RealTimes, Time!Clock, TimeOfDay
<1>1. FormatsInit => TimeTypeOK
  <2>1. Time!Init => TimeTypeOK
    BY <1>0 DEF Time!Init, Time!On, TimeTypeOK, RealTimes
  <2>2. tm = SomeTime => TimeTypeOK
    BY DEF SomeTime, TimeTypeOK, Day, TimeOfDay
  <2> QED BY <2>1, <2>2 DEF FormatsInit
<1>2. TimeTypeOK /\ [Time!Next]_tm => TimeTypeOK'
  <2> SUFFICES ASSUME TimeTypeOK, Time!Next PROVE TimeTypeOK'
    BY DEF TimeTypeOK
  <2>1. Time!Tomorrow(tm.day) \in Day
    BY TomorrowIsADay DEF TimeTypeOK
  <2> QED BY <1>0, <2>1 DEF TimeTypeOK, Time!Next, Time!Pass, Time!On
<1>3. TimeTypeOK /\ TimeTypeOK' /\ [Time!Next]_tm =>
        [LET old == Time!Unix2Fat(tm)
             new == Time!Unix2Fat(tm')
         IN  /\ old = new \/ Time!Before(old, new)
             /\ old = new /\ Time!InRange(tm.day) /\ Time!InRange(tm'.day) =>
                  /\ tm'.day = tm.day
                  /\ Time!SecondOfDay(tm'.clock) - Time!SecondOfDay(tm.clock) < 2]_tm
  <2> SUFFICES ASSUME TimeTypeOK, TimeTypeOK', Time!Next
               PROVE  LET old == Time!Unix2Fat(tm)
                          new == Time!Unix2Fat(tm')
                      IN  /\ old = new \/ Time!Before(old, new)
                          /\ old = new /\ Time!InRange(tm.day) /\ Time!InRange(tm'.day) =>
                               /\ tm'.day = tm.day
                               /\ Time!SecondOfDay(tm'.clock) - Time!SecondOfDay(tm.clock) < 2
    OBVIOUS
  <2> DEFINE old == Time!Unix2Fat(tm)
             new == Time!Unix2Fat(tm')
             d == tm.day
             e == tm'.day
             c == tm.clock
             f == tm'.clock
  <2>1. d \in Day /\ e \in Day /\ c \in TimeOfDay /\ f \in TimeOfDay
    BY DEF TimeTypeOK
  <2>2. CASE e = d /\ Time!SecondOfDay(f) > Time!SecondOfDay(c)
    <3>1. /\ Time!Time(c) \in Int /\ Time!Time(f) \in Int
          /\ Time!Time(c) <= Time!Time(f)
          /\ Time!Time(c) = Time!Time(f) =>
               Time!SecondOfDay(f) - Time!SecondOfDay(c) < 2
      BY <2>1, <2>2, ClockOrdered
    <3>2. CASE Time!InRange(d)
      <4>1. old = <<Time!Date(d), Time!Time(c)>> /\ new = <<Time!Date(d), Time!Time(f)>>
        BY <2>2, <3>2 DEF Time!Unix2Fat, Time!InRange
      <4> QED BY <2>2, <3>1, <4>1 DEF Time!Before
    <3>3. CASE ~Time!InRange(d)
      <4>1. old = new
        BY <2>1, <2>2, <3>3 DEF Time!Unix2Fat, Time!InRange, Day
      <4> QED BY <3>3, <4>1
    <3> QED BY <3>2, <3>3
  <2>3. CASE e = Time!Tomorrow(d)
    <3>1. /\ Time!InRange(d) => DateInRange(d)
          /\ Time!InRange(d) /\ Time!InRange(e) => Time!Date(d) < Time!Date(e)
          /\ e.year \in {d.year, d.year + 1}
      BY <2>1, <2>3, DaysOrdered
    <3>2. Time!InRange(e) => DateInRange(e)
      BY <2>1, TomorrowIsADay, DaysOrdered
    <3>3. d.year \in Nat /\ e.year \in Nat
      BY <2>1 DEF Day
    <3>4. CASE Time!InRange(d) /\ Time!InRange(e)
      <4>1. old[1] = Time!Date(d) /\ new[1] = Time!Date(e)
        BY <3>4 DEF Time!Unix2Fat, Time!InRange
      <4>2. old[1] < new[1] /\ old[1] # new[1]
        BY <3>1, <3>2, <3>4, <4>1 DEF DateInRange
      <4> QED BY <4>2 DEF Time!Before
    <3>5. CASE ~Time!InRange(d) /\ d.year < 80
      <4>1. old = <<33, 0>>
        BY <3>5 DEF Time!Unix2Fat
      <4>2. CASE e.year < 80
        BY <3>5, <4>1, <4>2 DEF Time!Unix2Fat
      <4>3. CASE ~(e.year < 80)
        <5>1. Time!InRange(e)
          BY <3>1, <3>3, <3>5, <4>3 DEF Time!InRange
        <5>2. new[1] = Time!Date(e)
          BY <5>1 DEF Time!Unix2Fat, Time!InRange
        <5>3. old[1] < new[1]
          BY <3>2, <4>1, <5>1, <5>2 DEF DateInRange
        <5> QED BY <3>5, <5>3 DEF Time!Before
      <4> QED BY <4>2, <4>3
    <3>6. CASE d.year > 127
      <4>1. e.year > 127
        BY <3>1, <3>3, <3>6
      <4>2. old = new
        BY <3>3, <3>6, <4>1 DEF Time!Unix2Fat
      <4> QED BY <3>3, <3>6, <4>2 DEF Time!InRange
    <3>7. CASE Time!InRange(d) /\ ~Time!InRange(e)
      <4>1. e.year > 127 /\ ~(e.year < 80)
        BY <3>1, <3>3, <3>7 DEF Time!InRange
      <4>2. old = <<Time!Date(d), Time!Time(c)>>
        BY <3>7 DEF Time!Unix2Fat, Time!InRange
      <4>3. new = <<127 * 512 + 12 * 32 + 31, 23 * 2048 + 59 * 32 + 29>>
        BY <4>1 DEF Time!Unix2Fat
      <4>4. Time!Time(c) \in Nat /\ Time!Time(c) <= 23 * 2048 + 59 * 32 + 29
        <5>1. c.hour \in 0 .. 23 /\ c.min \in 0 .. 59 /\ c.sec \in 0 .. 59
          BY <2>1 DEF TimeOfDay
        <5>2. c.sec \div 2 \in 0 .. 29
          BY <5>1
        <5>3. PICK n \in Nat : /\ n = c.hour * 2048 + c.min * 32 + (c.sec \div 2)
                               /\ n <= 23 * 2048 + 59 * 32 + 29
          <6>1. PICK x \in 0 .. 23, y \in 0 .. 59, z \in 0 .. 29 :
                  x = c.hour /\ y = c.min /\ z = c.sec \div 2
            BY <5>1, <5>2
          <6>2. PICK n \in Nat : n = x * 2048 + y * 32 + z
            OBVIOUS
          <6>3. n <= 23 * 2048 + 59 * 32 + 29
            BY <6>2
          <6> QED BY <6>1, <6>2, <6>3
        <5>4. Time!Time(c) = n % 65536
          BY <5>3 DEF Time!Time, Time!Word
        <5>5. n % 65536 = n
          BY <5>3, Unwrapped
        <5> QED BY <5>3, <5>4, <5>5
      <4>5. old = new \/ Time!Before(old, new)
        <5>1. PICK y \in Nat, z \in Nat : /\ old = <<y, z>>
                                          /\ y <= 127 * 512 + 12 * 32 + 31
                                          /\ z <= 23 * 2048 + 59 * 32 + 29
          BY <3>1, <3>7, <4>2, <4>4 DEF DateInRange
        <5> HIDE DEF old, new
        <5> QED BY <4>3, <5>1 DEF Time!Before
      <4> QED BY <3>7, <4>5
    <3> QED BY <3>3, <3>4, <3>5, <3>6, <3>7 DEF Time!InRange
  <2> QED BY <2>2, <2>3 DEF TimeTypeOK, Time!Next, Time!Pass, Time!On
<1>4. [FormatsNext]_formats => [Time!Next]_tm
  BY DEF FormatsNext, formats
<1> QED BY <1>1, <1>2, <1>3, <1>4, PTL DEF FormatsSpec, formats, StampsOrdered, Time!StampsOrdered
=============================================================================
