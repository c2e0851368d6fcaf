---------------------------- MODULE FileIOProofs ----------------------------
(***************************************************************************)
(* For any positions, cluster sizes and volumes, failing or not: until the *)
(* write of a link fails a file never claims more than its chain holds,    *)
(* and what was reported as written stays inside it; and on a device that  *)
(* does not fail a read gets all that is there.                            *)
(***************************************************************************)
EXTENDS FileIO, TLAPS

\* What a call has done so far: the loop stands total sectors behind the
\* position it began at, and those a write has behind it are in the file.
LoopSound ==
  /\ off = IF pc = "idle" THEN 0 ELSE pos + total
  /\ off + remaining <= MaxPos
  /\ pc = "idle" => total = 0 /\ remaining = 0
  /\ pc \in {"write", "full"} /\ total > 0 => off <= size

\* A chain takes nothing that is free.
ClustersCounted == length + free <= Volume

\* A chain runs on over others only after a failure.
StrayByFault == stray > 0 => volume.faulty

IndInv ==
  TypeOK /\ LoopSound /\ ClustersCounted /\ StrayByFault /\ SizeBacked /\ WrittenInside

\* A chain that gets longer has room for more.
LEMMA OneMore ==
  ASSUME NEW n \in Nat, NEW s \in Nat
  PROVE  n * s \in Nat /\ (n + 1) * s \in Nat /\ n * s <= (n + 1) * s
<1>1. (n + 1) * s = n * s + s
  OBVIOUS
<1>2. n * s \in Nat
  OBVIOUS
<1> QED BY <1>1, <1>2

LEMMA StartsSound == FileAssumption /\ Init => IndInv
<1> SUFFICES ASSUME FileAssumption, Init PROVE IndInv
  OBVIOUS
<1>1. volume \in Volumes /\ length \in 0 .. Volume /\ free \in 0 .. Volume - length
  BY DEF Init, FileAssumption
<1>2. TypeOK /\ ClustersCounted
  BY <1>1 DEF Init, FileAssumption, TypeOK, ClustersCounted
<1>3. LoopSound /\ StrayByFault /\ SizeBacked /\ WrittenInside
  BY DEF Init, FileAssumption, LoopSound, StrayByFault, SizeBacked, WrittenInside
<1> QED BY <1>2, <1>3 DEF IndInv

\* Calls that begin and the turns of fat_file_read leave the file alone.
LEMMA FileStays ==
  ASSUME FileAssumption, IndInv, UNCHANGED file
  PROVE  ClustersCounted' /\ StrayByFault' /\ SizeBacked' /\ WrittenInside'
BY DEF IndInv, file, ClustersCounted, StrayByFault, SizeBacked, WrittenInside, Mapped

\* What lies before the end of the file lies in its chain.
LEMMA Below ==
  ASSUME NEW n \in Nat, NEW s \in Nat, NEW k \in Nat, NEW z \in Nat, NEW r \in Nat,
         z <= n * k, s < z, r = 0
  PROVE  s < (n + r) * k
<1>1. n * k \in Nat /\ n + r = n
  BY OneMore
<1> QED BY <1>1

LEMMA InsideWhenBacked ==
  ASSUME FileAssumption, TypeOK', SizeBacked', \A s \in good' : s < size'
  PROVE  WrittenInside'
<1>1. /\ length' \in Nat /\ stray' \in Nat /\ size' \in Nat /\ SecPerClus \in Nat
      /\ \A s \in good' : s \in Nat
  BY DEF TypeOK, FileAssumption
<1>2. stray' = 0 => size' <= length' * SecPerClus
  BY DEF SizeBacked
<1>3. \A s \in good' : stray' = 0 => s < (length' + stray') * SecPerClus
  BY <1>1, <1>2, Below
<1> QED BY <1>3 DEF WrittenInside, Mapped

LEMMA SeekKeeps ==
  ASSUME FileAssumption, IndInv, NEW p \in 0 .. MaxPos, Seek(p)
  PROVE  IndInv'
<1>1. UNCHANGED file
  BY DEF Seek
<1>2. TypeOK' /\ LoopSound'
  BY DEF Seek, IndInv, TypeOK, LoopSound, file, loop
<1> QED BY <1>1, <1>2, FileStays DEF IndInv

LEMMA BeginKeeps ==
  ASSUME FileAssumption, IndInv, NEW n \in 0 .. MaxPos, Read(n) \/ Write(n)
  PROVE  IndInv'
<1>1. UNCHANGED file
  BY DEF Read, Write
<1>2. CASE Read(n)
  <2>1. ToRead(n) \in 0 .. MaxPos /\ pos + ToRead(n) <= MaxPos
    BY DEF ToRead, IndInv, TypeOK, FileAssumption
  <2>2. TypeOK' /\ LoopSound'
    BY <1>2, <2>1 DEF Read, IndInv, TypeOK, LoopSound, file
  <2> QED BY <1>1, <2>2, FileStays DEF IndInv
<1>3. CASE Write(n)
  <2>1. TypeOK' /\ LoopSound'
    BY <1>3 DEF Write, IndInv, TypeOK, LoopSound, file
  <2> QED BY <1>1, <2>1, FileStays DEF IndInv
<1> QED BY <1>2, <1>3

LEMMA ReadKeeps ==
  ASSUME FileAssumption, IndInv, ReadSector \/ ReadReturns
  PROVE  IndInv'
<1>1. UNCHANGED file
  BY DEF ReadSector, ReadReturns
<1>2. TypeOK' /\ LoopSound'
  <2>1. CASE ReadSector
    BY <2>1 DEF ReadSector, Advance, IndInv, TypeOK, LoopSound, file, FileAssumption
  <2>2. CASE ReadReturns
    BY <2>2 DEF ReadReturns, Return, IndInv, TypeOK, LoopSound, file, FileAssumption
  <2> QED BY <2>1, <2>2
<1> QED BY <1>1, <1>2, FileStays DEF IndInv

\* A sector is written: it lies in the chain, and so does the new size.
LEMMA WriteSectorKeeps ==
  ASSUME FileAssumption, IndInv, WriteSector
  PROVE  IndInv'
<1>1. size' = IF off + 1 > size THEN off + 1 ELSE size
  BY DEF WriteSector
<1>2. length * SecPerClus \in Nat
  BY OneMore DEF IndInv, TypeOK, FileAssumption
<1>3. TypeOK' /\ LoopSound' /\ ClustersCounted' /\ StrayByFault'
  BY <1>1 DEF WriteSector, Advance, IndInv, TypeOK, LoopSound, ClustersCounted,
              StrayByFault, FileAssumption
<1>4. SizeBacked'
  <2> SUFFICES ASSUME stray = 0 PROVE size' <= length * SecPerClus
    BY DEF WriteSector, SizeBacked
  <2>1. length + stray = length
    BY DEF IndInv, TypeOK
  <2>2. off < length * SecPerClus
    BY <2>1 DEF WriteSector, Mapped
  <2> QED BY <1>1, <1>2, <2>2 DEF IndInv, TypeOK, SizeBacked, FileAssumption
<1>5. \A s \in good' : s < size'
  BY <1>1 DEF WriteSector, IndInv, TypeOK, WrittenInside, FileAssumption
<1> QED BY <1>3, <1>4, <1>5, InsideWhenBacked DEF IndInv

\* The chain gets a cluster, runs on over one, or stays.
LEMMA GrowingKeeps ==
  ASSUME FileAssumption, IndInv, Linked \/ LinkFails, UNCHANGED <<volume, size>>
  PROVE  /\ length' \in 0 .. Volume /\ stray' \in 0 .. MaxPos
         /\ free' \in 0 .. Volume /\ ours' \in BOOLEAN
         /\ ClustersCounted' /\ StrayByFault' /\ SizeBacked'
<1>1. /\ StrayMore \in 0 .. MaxPos /\ StrayMore >= stray
      /\ stray \in 0 .. MaxPos /\ MaxPos \in Nat
  BY DEF StrayMore, IndInv, TypeOK, FileAssumption
<1>2. /\ length' \in 0 .. Volume /\ free' \in 0 .. Volume /\ ours' \in BOOLEAN
      /\ ClustersCounted'
  BY DEF Linked, LinkFails, IndInv, TypeOK, ClustersCounted, FileAssumption
<1>3. stray' \in 0 .. MaxPos /\ (stray' = 0 => stray = 0)
  BY <1>1 DEF Linked, LinkFails
<1>4. StrayByFault'
  BY <1>1 DEF Linked, LinkFails, StrayByFault, IndInv
<1>5. SizeBacked'
  <2> SUFFICES ASSUME stray' = 0 PROVE size <= length' * SecPerClus
    BY DEF SizeBacked
  <2>1. size <= length * SecPerClus
    BY <1>3 DEF IndInv, SizeBacked
  <2>2. length' = length \/ length' = length + 1
    BY DEF Linked, LinkFails
  <2>3. length * SecPerClus \in Nat /\ length' * SecPerClus \in Nat
        /\ length * SecPerClus <= length' * SecPerClus
    BY <2>2, OneMore DEF IndInv, TypeOK, FileAssumption
  <2> QED BY <2>1, <2>3 DEF IndInv, TypeOK, FileAssumption
<1> QED BY <1>2, <1>3, <1>4, <1>5

LEMMA AddingKeeps ==
  ASSUME FileAssumption, IndInv, AddCluster \/ Extend
  PROVE  IndInv'
<1>1. /\ Linked \/ LinkFails
      /\ UNCHANGED <<volume, size, good, pos, loop>>
      /\ pc = "write" /\ pc' \in {"write", "full"}
  BY DEF AddCluster, Extend, NoneMapped
<1>2. /\ length' \in 0 .. Volume /\ stray' \in 0 .. MaxPos
      /\ free' \in 0 .. Volume /\ ours' \in BOOLEAN
      /\ ClustersCounted' /\ StrayByFault' /\ SizeBacked'
  BY <1>1, GrowingKeeps
<1>3. TypeOK' /\ LoopSound'
  BY <1>1, <1>2 DEF IndInv, TypeOK, LoopSound, loop, FileAssumption
<1>4. \A s \in good' : s < size'
  BY <1>1 DEF IndInv, WrittenInside
<1> QED BY <1>2, <1>3, <1>4, InsideWhenBacked DEF IndInv

LEMMA TryKeeps ==
  ASSUME FileAssumption, IndInv, TryAgain
  PROVE  IndInv'
<1>1. UNCHANGED file
  BY DEF TryAgain
<1>2. TypeOK' /\ LoopSound'
  BY DEF TryAgain, IndInv, TypeOK, LoopSound, file, loop, FileAssumption
<1> QED BY <1>1, <1>2, FileStays DEF IndInv

\* The sectors a write reports are those it has gone through.
LEMMA WriteReturnsKeeps ==
  ASSUME FileAssumption, IndInv, WriteReturns \/ ExtendFails
  PROVE  IndInv'
<1>1. /\ good' = good \cup (pos .. pos + total - 1)
      /\ UNCHANGED <<volume, size>> /\ Return
      /\ pc = "write"
  BY DEF WriteReturns, ExtendFails, NoneMapped
<1>2. /\ length' \in 0 .. Volume /\ stray' \in 0 .. MaxPos
      /\ free' \in 0 .. Volume /\ ours' \in BOOLEAN
      /\ ClustersCounted' /\ StrayByFault' /\ SizeBacked'
  <2>1. CASE WriteReturns
    BY <2>1 DEF WriteReturns, IndInv, TypeOK, ClustersCounted, StrayByFault, SizeBacked
  <2>2. CASE ExtendFails
    BY <1>1, <2>2, GrowingKeeps DEF ExtendFails
  <2> QED BY <2>1, <2>2
<1>3. TypeOK'
  BY <1>1, <1>2 DEF Return, IndInv, TypeOK, LoopSound, FileAssumption
<1>4. LoopSound'
  BY <1>1 DEF Return, IndInv, TypeOK, LoopSound, FileAssumption
<1>5. ASSUME NEW s \in good' PROVE s < size'
  <2>1. CASE s \in good
    BY <1>1, <2>1 DEF IndInv, WrittenInside
  <2>2. CASE s \in pos .. pos + total - 1
    BY <1>1, <2>2 DEF IndInv, TypeOK, LoopSound, FileAssumption
  <2> QED BY <1>1, <1>5, <2>1, <2>2
<1> QED BY <1>2, <1>3, <1>4, <1>5, InsideWhenBacked DEF IndInv

LEMMA OthersKeep ==
  ASSUME FileAssumption, IndInv, Others
  PROVE  IndInv'
<1>1. /\ UNCHANGED <<volume, length, size, good, pos, pc, loop>>
      /\ stray' \in 0 .. MaxPos /\ (stray' = stray \/ (stray > 0 /\ stray' > 0))
      /\ free' \in 0 .. Volume /\ length + free' <= Volume /\ ours' \in BOOLEAN
  <2>1. /\ \/ free > 0 /\ free' = free - 1
           \/ free + length < Volume /\ free' = free + 1
           \/ free' = free
        /\ stray' = stray \/ (stray > 0 /\ stray' \in 1 .. MaxPos)
    BY DEF Others
  <2>2. /\ length \in 0 .. Volume /\ free \in 0 .. Volume /\ length + free <= Volume
        /\ stray \in 0 .. MaxPos /\ MaxPos \in Nat /\ Volume \in Nat
    BY DEF IndInv, TypeOK, ClustersCounted, FileAssumption
  <2>3. stray' \in 0 .. MaxPos /\ (stray' = stray \/ (stray > 0 /\ stray' > 0))
    BY <2>1, <2>2
  <2>4. free' \in 0 .. Volume /\ length + free' <= Volume
    BY <2>1, <2>2
  <2>5. ours' \in BOOLEAN
    BY DEF Others, IndInv, TypeOK, FileAssumption
  <2>6. UNCHANGED <<volume, length, size, good, pos, pc, loop>>
    BY DEF Others
  <2> QED BY <2>3, <2>4, <2>5, <2>6
<1>2. TypeOK' /\ LoopSound' /\ ClustersCounted'
  BY <1>1 DEF IndInv, TypeOK, LoopSound, ClustersCounted, loop, FileAssumption
<1>4. StrayByFault' /\ SizeBacked'
  BY <1>1 DEF IndInv, TypeOK, StrayByFault, SizeBacked
<1>3. \A s \in good' : s < size'
  BY <1>1 DEF IndInv, WrittenInside
<1> QED BY <1>2, <1>3, <1>4, InsideWhenBacked DEF IndInv

LEMMA StepKeeps == FileAssumption /\ IndInv /\ [Next]_vars => IndInv'
<1> SUFFICES ASSUME FileAssumption, IndInv, [Next]_vars PROVE IndInv'
  OBVIOUS
<1>1. ASSUME NEW p \in 0 .. MaxPos, Seek(p) PROVE IndInv'
  BY <1>1, SeekKeeps
<1>2. ASSUME NEW n \in 0 .. MaxPos, Read(n) \/ Write(n) PROVE IndInv'
  BY <1>2, BeginKeeps
<1>3. CASE ReadSector \/ ReadReturns
  BY <1>3, ReadKeeps
<1>4. CASE WriteSector
  BY <1>4, WriteSectorKeeps
<1>5. CASE AddCluster \/ TryAgain \/ Extend
  BY <1>5, AddingKeeps, TryKeeps
<1>6. CASE WriteReturns \/ ExtendFails
  BY <1>6, WriteReturnsKeeps
<1>7. CASE Others
  BY <1>7, OthersKeep
<1>8. CASE UNCHANGED vars
  BY <1>8 DEF vars, file, loop, IndInv, TypeOK, LoopSound, ClustersCounted,
              StrayByFault, SizeBacked, WrittenInside, Mapped
<1> QED BY <1>1, <1>2, <1>3, <1>4, <1>5, <1>6, <1>7, <1>8 DEF Next, Step

\* The invariant on which the theorems below rest.
THEOREM Inductive == Spec => []IndInv
<1>1. Init => IndInv
  BY FileAssumption, StartsSound
<1>2. IndInv /\ [Next]_vars => IndInv'
  BY FileAssumption, StepKeeps
<1> QED BY <1>1, <1>2, PTL DEF Spec

\* As long as no write of a link has failed, i_size never exceeds what the chain of
\* the file holds: whichever reads and writes of data fail, whoever else takes
\* clusters, and wherever fat_file_write stops.
THEOREM SizeAlwaysBacked == Spec => []SizeBacked
<1>1. IndInv => SizeBacked
  BY DEF IndInv
<1> QED BY <1>1, Inductive, PTL

\* What ufs_write has reported as written stays before i_size, and in clusters of
\* the file as long as no write of a link has failed.
THEOREM WrittenAlwaysInside == Spec => []WrittenInside
<1>1. IndInv => WrittenInside
  BY DEF IndInv
<1> QED BY <1>1, Inductive, PTL

\* A read has done and has still to do, together, what it began with.
ReadSound == pc = "read" => total + remaining = ToRead(count)

LEMMA StepReads ==
  ASSUME FileAssumption, IndInv, ReadSound, [Next]_vars
  PROVE  ReadSound'
<1> SUFFICES ASSUME pc' = "read" PROVE (total + remaining = ToRead(count))'
  BY DEF ReadSound
<1>1. ASSUME NEW p \in 0 .. MaxPos, Seek(p) PROVE FALSE
  BY <1>1 DEF Seek
<1>2. ASSUME NEW n \in 0 .. MaxPos, Read(n) PROVE (total + remaining = ToRead(count))'
  <2>1. total = 0 /\ UNCHANGED <<pos, size, total>> /\ count' = n /\ remaining' = ToRead(n)
    BY <1>2 DEF Read, file, IndInv, LoopSound
  <2>2. ToRead(n) \in Int
    BY DEF ToRead, IndInv, TypeOK, FileAssumption
  <2> QED BY <2>1, <2>2 DEF ToRead
<1>3. ASSUME NEW n \in 0 .. MaxPos, Write(n) PROVE FALSE
  BY <1>3 DEF Write
<1>4. CASE ReadSector
  <2>1. /\ total' = total + 1 /\ remaining' = remaining - 1
        /\ UNCHANGED <<pos, size, count>> /\ pc = "read"
    BY <1>4 DEF ReadSector, Advance, file
  <2>2. total + remaining = ToRead(count) /\ ToRead(count)' = ToRead(count)
    BY <2>1 DEF ReadSound, ToRead
  <2> QED BY <2>1, <2>2 DEF IndInv, TypeOK
<1>5. CASE ReadReturns \/ WriteReturns \/ ExtendFails
  BY <1>5 DEF ReadReturns, WriteReturns, ExtendFails, Return
<1>6. CASE WriteSector \/ AddCluster \/ TryAgain \/ Extend
  BY <1>6 DEF WriteSector, AddCluster, TryAgain, Extend, NoneMapped
<1>7. CASE Others \/ UNCHANGED vars
  BY <1>7 DEF Others, vars, file, loop, ReadSound, ToRead
<1> QED BY <1>1, <1>2, <1>3, <1>4, <1>5, <1>6, <1>7 DEF Next, Step

\* A read that ends with something left to do has met a sector that is in the
\* file, and hence in its chain: only a device that fails makes it end there.
LEMMA ReadsToTheEnd ==
  ASSUME FileAssumption, IndInv, ReadSound, [Next]_vars,
         pc = "read", pc' = "idle", ~volume.faulty
  PROVE  pos' = pos + ToRead(count)
<1>1. ReadReturns
  BY DEF Next, Step, Seek, Read, Write, ReadSector, WriteSector, AddCluster, TryAgain,
         Extend, ExtendFails, NoneMapped, WriteReturns, Others, vars
<1>2. pos' = pos + total /\ (remaining = 0 \/ ~Mapped(off))
  BY <1>1 DEF ReadReturns, Return
<1>3. total + remaining = ToRead(count) /\ off = pos + total
  BY DEF ReadSound, IndInv, LoopSound
<1>4. remaining = 0
  <2> SUFFICES ASSUME remaining # 0 PROVE Mapped(off)
    BY <1>2
  <2>1. off < size
    BY <1>3 DEF ToRead, IndInv, TypeOK, FileAssumption
  <2>3. stray = 0
    BY DEF IndInv, StrayByFault, TypeOK
  <2>4. length + stray = length
    BY <2>3 DEF IndInv, TypeOK
  <2>2. length * SecPerClus \in Nat /\ size <= (length + stray) * SecPerClus
    BY <2>3, <2>4, OneMore DEF IndInv, TypeOK, SizeBacked, FileAssumption
  <2> QED BY <2>1, <2>2, <2>4 DEF Mapped, IndInv, TypeOK
<1> QED BY <1>2, <1>3, <1>4 DEF IndInv, TypeOK

\* ufs_read returns all that was asked for up to the end of the file, whoever
\* else uses the volume meanwhile, unless the device fails.
THEOREM ReadAlwaysComplete == Spec => ReadComplete
<1>1. Init => ReadSound
  BY DEF Init, ReadSound
<1>2. IndInv /\ ReadSound /\ [Next]_vars => ReadSound'
  BY FileAssumption, StepReads
<1>3. ASSUME IndInv, ReadSound, [Next]_vars
      PROVE  [pc = "read" /\ pc' = "idle" /\ ~volume.faulty =>
                pos' = IF pos >= size THEN pos
                       ELSE IF pos + count > size THEN size ELSE pos + count]_vars
  <2> SUFFICES ASSUME pc = "read", pc' = "idle", ~volume.faulty
               PROVE  pos' = IF pos >= size THEN pos
                             ELSE IF pos + count > size THEN size ELSE pos + count
    OBVIOUS
  <2>1. pos' = pos + ToRead(count)
    BY <1>3, FileAssumption, ReadsToTheEnd
  <2>2. pos \in Int /\ size \in Int /\ count \in Int
    BY <1>3, FileAssumption DEF IndInv, TypeOK
  <2> QED BY <2>1, <2>2 DEF ToRead
<1> QED BY <1>1, <1>2, <1>3, Inductive, PTL DEF Spec, ReadComplete
=============================================================================
