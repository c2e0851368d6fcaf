--------------------------- MODULE FatTableProofs ---------------------------
(***************************************************************************)
(* For any number of files, any size of the volume and any hint: on FAT16  *)
(* and FAT32, and a device that does not fail, every cluster in use is     *)
(* named exactly once and the free count is exact, although fat_chain_add  *)
(* works without fat_lock.                                                 *)
(*                                                                         *)
(* The argument: a step either leaves the names of clusters as they are,   *)
(* or moves one name from one place to another, or names a cluster that    *)
(* was free.  A free cluster has no name, so that taking it makes no       *)
(* second one; and the cluster fat_free_clusters frees has lost its only   *)
(* name to the thread that frees it.                                       *)
(***************************************************************************)
EXTENDS FatTable, FiniteSetTheorems, TLAPS

\* What the thread of a file has in hand at each point of an operation.
Phase(f) ==
  /\ pc[f] \in Rest => hand[f] = NoCluster
  /\ pc[f] = "scan" =>
       /\ hand[f] = NoCluster
       /\ op[f] = IF start[f] = NoCluster THEN "create" ELSE "append"
  /\ pc[f] = "entry" =>
       hand[f] \in Clusters /\ op[f] = "create" /\ start[f] = NoCluster
  /\ pc[f] = "walk" =>
       hand[f] \in Clusters /\ op[f] = "append" /\ cur[f] \in Clusters
  /\ pc[f] = "undo" => hand[f] \in Clusters /\ op[f] \in {"create", "append"}
  /\ pc[f] = "free" =>
       \/ op[f] \in {"create", "append"}
       \/ op[f] \in {"truncate", "unlink"} /\ hand[f] = NoCluster

Phases == \A f \in Files : Phase(f)

\* The walk of fat_chain_add is on allocated clusters and not on the new one.
WalkSound ==
  \A f \in Files : pc[f] = "walk" =>
    fat[cur[f]] # Bad /\ cur[f] # hand[f]

Typed == TypeOK /\ Phases

-----------------------------------------------------------------------------
(* Types and phases.                                                       *)

LEMMA Numbers ==
  /\ Clusters \subseteq Nat /\ NoCluster \notin Clusters /\ Free \notin Clusters
  /\ Eof \notin Clusters /\ Bad \notin Clusters
  /\ Eof # Free /\ Bad # Free /\ Eof # Bad
  /\ Free = NoCluster
  /\ MaxFat \in Nat /\ \A c \in Clusters : c < MaxFat
  /\ Eof >= MaxFat /\ Free < MaxFat
  /\ Clusters \subseteq Values /\ Free \in Values /\ Eof \in Values
  /\ ~Fat12 => \A v \in Values : v >= MaxFat => v \in {Eof, Bad}
<1>1. /\ MaxCluster \in Nat /\ MaxCluster > 2 /\ Half \in {0, 16}
      /\ MaxFat \in MaxCluster .. Eof
  BY FatAssumption
<1>2. CASE Half = 0
  BY <1>1, <1>2 DEF Clusters, NoCluster, Free, Eof, Bad, Fat12, Values
<1>3. CASE Half = 16
  <2>1. Eof = 4095 /\ Fat12
    BY <1>3 DEF Eof, Fat12
  <2> QED BY <1>1, <2>1 DEF Clusters, NoCluster, Free, Bad, Values
<1> QED BY <1>1, <1>2, <1>3

\* What is left in an entry that shares its byte is of twelve bits.
LEMMA BesideTyped ==
  ASSUME Fat12, NEW c \in Clusters, NEW v \in Values, NEW w \in Values
  PROVE  PutBeside(c, v, w) \in Values
<1>1. Half = 16
  BY FatAssumption DEF Fat12
<1>2. Values = 0 .. 4095
  BY <1>1, 16 * 16 * 16 = 4096 DEF Values, Eof, Fat12
<1>3. v \in 0 .. 4095 /\ w \in 0 .. 4095
  BY <1>2
<1>4. CASE c % 2 = 0
  <2>1. PICK x \in 0 .. 255 : x = w \div 16
    BY <1>3
  <2>2. PICK y \in 0 .. 15 : y = v \div 256
    BY <1>3
  <2>3. PutBeside(c, v, w) = (x * 16) + y
    BY <1>1, <1>4, <2>1, <2>2, 16 * 16 = 256 DEF PutBeside
  <2>4. (x * 16) + y \in 0 .. 4095
    OBVIOUS
  <2> QED BY <1>2, <2>3, <2>4
<1>5. CASE c % 2 # 0
  <2>1. PICK x \in 0 .. 15 : x = v % 16
    BY <1>3
  <2>2. PICK y \in 0 .. 255 : y = w % 256
    BY <1>3
  <2>3. PutBeside(c, v, w) = (x * 16 * 16) + y
    BY <1>1, <1>5, <2>1, <2>2, 16 * 16 = 256 DEF PutBeside
  <2>4. (x * 16 * 16) + y \in 0 .. 4095
    OBVIOUS
  <2> QED BY <1>2, <2>3, <2>4
<1> QED BY <1>4, <1>5

LEMMA PutTyped ==
  ASSUME fat \in [Clusters -> Values], NEW c \in Clusters, NEW v \in Values
  PROVE  Put(c, v) \in [Clusters -> Values] /\ Put(c, v)[c] = v
<1>1. ASSUME NEW d \in Clusters
      PROVE  (IF d = c THEN v
              ELSE IF Fat12 /\ d = (IF c % 2 = 0 THEN c + 1 ELSE c - 1)
                   THEN PutBeside(c, v, fat[d]) ELSE fat[d]) \in Values
  BY BesideTyped
<1> QED BY <1>1 DEF Put

\* Entries of FAT16 and FAT32 are apart.
LEMMA PutApart ==
  ASSUME ~Fat12, fat \in [Clusters -> Values], NEW c \in Clusters, NEW v \in Values
  PROVE  Put(c, v) = [fat EXCEPT ![c] = v]
BY DEF Put

LEMMA Modulo ==
  ASSUME NEW x \in Int, NEW w \in Nat, w > 0
  PROVE  /\ x % w \in 0 .. w - 1
         /\ x \in 0 .. w - 1 => x % w = x
OBVIOUS

LEMMA ClusterCount ==
  IsFiniteSet(Clusters) /\ Cardinality(Clusters) = MaxCluster - 2
BY FatAssumption, FS_Interval DEF Clusters

LEMMA FreeOnesBound ==
  /\ IsFiniteSet(FreeOnes)
  /\ Cardinality(FreeOnes) \in 0 .. MaxCluster - 1
<1>1. IsFiniteSet(Clusters) /\ Cardinality(Clusters) = MaxCluster - 2
  BY ClusterCount
<1>2. FreeOnes \subseteq Clusters
  BY DEF FreeOnes
<1>3. IsFiniteSet(FreeOnes) /\ Cardinality(FreeOnes) <= Cardinality(Clusters)
  BY <1>1, <1>2, FS_Subset
<1>4. Cardinality(FreeOnes) \in Nat
  BY <1>3, FS_CardinalityType
<1> QED BY <1>1, <1>3, <1>4, FatAssumption

\* The count at a mount is a possible value of free_clusters.
LEMMA CountTyped ==
  ASSUME fat \in [Clusters -> Values]
  PROVE  CountAtMount(fat) \in 0 .. Word - 1
<1>1. CountAtMount(fat) \in 0 .. MaxCluster - 1
  BY FreeOnesBound, FatAssumption DEF CountAtMount, FreeOnes
<1> QED BY <1>1, FatAssumption

LEMMA HintTyped ==
  ASSUME NEW h \in Hints
  PROVE  HintOf(h) \in 0 .. Word - 1
BY FatAssumption DEF HintOf

LEMMA TypedInit == Init => Typed
<1> SUFFICES ASSUME Init PROVE Typed
  OBVIOUS
<1>1. fat \in [Clusters -> Values]
  <2>1. volume.bad = {} \/ Bad \in Values
    BY VolumesAssumption DEF Init, Values
  <2> QED BY <2>1, Numbers DEF Init
<1>2. freeClusters \in 0 .. Word - 1
  BY <1>1, CountTyped DEF Init
<1>3. prevFree \in 0 .. Word - 1
  BY HintTyped DEF Init
<1>4. scan \in [at : Int, tried : 0 .. MaxCluster]
  BY FatAssumption DEF Init, NoScan
<1>5. TypeOK
  BY <1>1, <1>2, <1>3, <1>4 DEF TypeOK, Init, Ops, Rest
<1>6. Phases
  BY DEF Init, Phases, Phase, Rest
<1> QED BY <1>5, <1>6 DEF Typed

\* Where a scan starts.
LEMMA StartTyped ==
  ASSUME NEW n \in 0 .. Word - 1
  PROVE  /\ AsInt((n + 1) % Word) \in Int
         /\ n < Word \div 2 - 1 => AsInt((n + 1) % Word) = n + 1
         /\ n >= Word \div 2 - 1 => AsInt((n + 1) % Word) <= 0
<1>1. Word \in Nat /\ Word % 2 = 0 /\ Word > 2
  BY FatAssumption
<1>2. (Word \div 2) * 2 = Word
  BY <1>1
<1>3. CASE n = Word - 1
  <2>1. (n + 1) % Word = 0
    BY <1>1, <1>3
  <2> QED BY <1>1, <1>2, <1>3, <2>1 DEF AsInt
<1>4. CASE n # Word - 1
  <2>1. (n + 1) % Word = n + 1
    BY <1>1, <1>4, Modulo
  <2> QED BY <1>1, <1>2, <1>4, <2>1 DEF AsInt
<1> QED BY <1>3, <1>4

\* A step of fat_alloc_clusters.
LEMMA TypedAlloc ==
  ASSUME Typed, NEW f \in Files,
         AllocBegin(f) \/ Take(f) \/ Skip(f) \/ NoSpace(f) \/ ScanFails(f),
         UNCHANGED volume
  PROVE  Typed'
<1> USE Numbers, FatAssumption DEF Typed
<1>1. CASE AllocBegin(f)
  <2>3. scan' \in [at : Int, tried : 0 .. MaxCluster]
    BY <1>1, StartTyped DEF AllocBegin, TypeOK
  <2>1. TypeOK'
    BY <1>1, <2>3 DEF AllocBegin, Lock, Goto, TypeOK, Ops, counters
  <2>2. Phases'
    BY <1>1 DEF AllocBegin, Lock, Goto, TypeOK, Phases, Phase, Rest
  <2> QED BY <2>1, <2>2
<1>2. CASE Take(f)
  <2>1. At \in Clusters
    BY <1>2 DEF Take, FreeOnes
  <2>2. freeClusters' \in 0 .. Word - 1
    BY <1>2, Modulo DEF Take, TypeOK
  <2>3. scan' \in [at : Int, tried : 0 .. MaxCluster]
    BY <1>2 DEF Take, NoScan
  <2>6. fat' \in [Clusters -> Values] /\ prevFree' \in 0 .. Word - 1
    <3>1. At \in 0 .. Word - 1
      BY <2>1 DEF Clusters
    <3> QED BY <1>2, <2>1, <3>1, PutTyped DEF Take, TypeOK
  <2>4. TypeOK'
    BY <1>2, <2>1, <2>2, <2>3, <2>6 DEF Take, Unlock, Goto, TypeOK
  <2>5. Phases'
    BY <1>2, <2>1 DEF Take, Unlock, Goto, TypeOK, Phases, Phase, Rest
  <2> QED BY <2>4, <2>5
<1>3. CASE Skip(f)
  <2>1. scan' \in [at : Int, tried : 0 .. MaxCluster]
    BY <1>3 DEF Skip, TypeOK, Clusters
  <2>2. TypeOK'
    BY <1>3, <2>1 DEF Skip, TypeOK, counters, local
  <2>3. Phases'
    BY <1>3 DEF Skip, Phases, Phase, local
  <2> QED BY <2>2, <2>3
<1>4. CASE NoSpace(f) \/ ScanFails(f)
  <2>1. scan' \in [at : Int, tried : 0 .. MaxCluster]
    BY <1>4 DEF NoSpace, ScanFails, NoScan
  <2>2. TypeOK'
    BY <1>4, <2>1
       DEF NoSpace, ScanFails, Done, Unlock, Goto, TypeOK, counters, Ops, Rest
  <2>3. Phases'
    BY <1>4
       DEF NoSpace, ScanFails, Done, Goto, TypeOK, Phases, Phase, Rest
  <2> QED BY <2>2, <2>3
<1> QED BY <1>1, <1>2, <1>3, <1>4

\* A step of vfat_create or fat_chain_add with the new cluster in hand.
LEMMA TypedUse ==
  ASSUME Typed, NEW f \in Files,
         AddEntry(f) \/ Walk(f) \/ WalkFails(f) \/ Link(f),
         UNCHANGED volume
  PROVE  Typed'
<1> USE Numbers DEF Typed
<1>1. TypeOK'
  <2>1. fat' \in [Clusters -> Values]
    <3>1. CASE Link(f)
      <4>1. cur[f] \in Clusters /\ hand[f] \in Values /\ fat' = Put(cur[f], hand[f])
        BY <3>1 DEF Link, Phases, Phase
      <4> QED BY <4>1, PutTyped DEF TypeOK
    <3> QED BY <3>1 DEF AddEntry, Walk, WalkFails, TypeOK
  <2> QED
    BY <2>1 DEF AddEntry, Walk, WalkFails, Link, Done, Goto, TypeOK, counters, Ops, Rest
<1>2. Phases'
  BY DEF AddEntry, Walk, WalkFails, Link, Done, Goto, TypeOK, Phases, Phase, Rest
<1> QED BY <1>1, <1>2

\* A step of fat_free_clusters.
LEMMA TypedFree ==
  ASSUME Typed, NEW f \in Files,
         \/ \E o \in {"truncate", "unlink"} : FreeChain(f, o)
         \/ Undo(f) \/ FreeStep(f) \/ FreeEnd(f) \/ FreeFails(f),
         UNCHANGED volume
  PROVE  Typed'
<1> USE Numbers, FatAssumption DEF Typed
<1>1. CASE \E o \in {"truncate", "unlink"} : FreeChain(f, o)
  BY <1>1 DEF FreeChain, Lock, Goto, TypeOK, counters, Ops, Rest, Phases, Phase
<1>2. CASE Undo(f)
  BY <1>2 DEF Undo, Lock, Goto, TypeOK, counters, Rest, Phases, Phase
<1>3. CASE FreeStep(f)
  <2>1. freeClusters' \in 0 .. Word - 1
    BY <1>3, Modulo DEF FreeStep, TypeOK
  <2>4. cur[f] \in Clusters
    BY <1>3 DEF FreeStep, TypeOK
  <2>5. fat' \in [Clusters -> Values]
    BY <1>3, <2>4, PutTyped DEF FreeStep, TypeOK
  <2>2. TypeOK'
    BY <1>3, <2>1, <2>5 DEF FreeStep, TypeOK
  <2>3. Phases'
    BY <1>3 DEF FreeStep, TypeOK, Phases, Phase
  <2> QED BY <2>2, <2>3
<1>4. CASE FreeEnd(f) \/ FreeFails(f)
  <2>1. PICK ok \in BOOLEAN : pc[f] = "free" /\ Forget(f, ok)
    BY <1>4 DEF FreeEnd, FreeFails
  <2>2. TypeOK'
    BY <2>1 DEF Forget, Done, Unlock, Goto, TypeOK, counters, Ops, Rest
  <2>3. Phases'
    BY <2>1 DEF Forget, Done, Goto, TypeOK, Phases, Phase, Rest
  <2> QED BY <2>2, <2>3
<1> QED BY <1>1, <1>2, <1>3, <1>4

LEMMA TypedRemount == Typed /\ Remount /\ UNCHANGED volume => Typed'
<1> SUFFICES ASSUME Typed, Remount, UNCHANGED volume PROVE Typed'
  OBVIOUS
<1>1. freeClusters' \in 0 .. Word - 1
  BY CountTyped DEF Typed, TypeOK, Remount
<1>2. prevFree' \in 0 .. Word - 1
  BY HintTyped DEF Remount
<1> QED BY <1>1, <1>2 DEF Typed, TypeOK, Phases, Phase, Remount, local

\* A volume stays what it is.
LEMMA StepVolume == [Next]_vars => UNCHANGED volume
<1> SUFFICES ASSUME [Next]_vars PROVE UNCHANGED volume
  OBVIOUS
<1>1. ASSUME NEW f \in Files, AllocBegin(f) \/ AddEntry(f) \/ Walk(f) \/ WalkFails(f)
      PROVE  UNCHANGED volume
  BY <1>1 DEF AllocBegin, AddEntry, Walk, WalkFails
<1>2. ASSUME NEW f \in Files, Link(f) \/ Undo(f) \/ Take(f) \/ Skip(f)
      PROVE  UNCHANGED volume
  BY <1>2 DEF Link, Undo, Take, Skip
<1>3. ASSUME NEW f \in Files, NoSpace(f) \/ ScanFails(f) \/ FreeStep(f)
      PROVE  UNCHANGED volume
  BY <1>3 DEF NoSpace, ScanFails, FreeStep
<1>4. ASSUME NEW f \in Files, FreeEnd(f) \/ FreeFails(f)
      PROVE  UNCHANGED volume
  BY <1>4 DEF FreeEnd, FreeFails, Forget
<1>5. ASSUME NEW f \in Files, NEW o \in {"truncate", "unlink"}, FreeChain(f, o)
      PROVE  UNCHANGED volume
  BY <1>5 DEF FreeChain
<1>6. Remount \/ UNCHANGED vars => UNCHANGED volume
  BY DEF Remount, vars
<1> QED BY <1>1, <1>2, <1>3, <1>4, <1>5, <1>6 DEF Next, Locked

LEMMA TypedNext == Typed /\ [Next]_vars => Typed'
<1> SUFFICES ASSUME Typed, [Next]_vars PROVE Typed'
  OBVIOUS
<1>1. CASE Next
  BY <1>1, StepVolume, TypedAlloc, TypedUse, TypedFree, TypedRemount DEF Next, Locked
<1>2. CASE UNCHANGED vars
  BY <1>2 DEF vars, counters, local, Typed, TypeOK, Phases, Phase
<1> QED BY <1>1, <1>2

\* What the variables hold, also when reads and writes fail: free_clusters stays
\* within its 32 bits and every operation has in hand what it may have there.
THEOREM TypeAlwaysOK == Spec => []Typed
<1> QED BY TypedInit, TypedNext, PTL DEF Spec

-----------------------------------------------------------------------------
(* The lock, and -ENOSPC.                                                  *)

\* fat_lock is held by the thread that scans or frees.
LockHeld == \A f \in Files : pc[f] \in {"scan", "free"} <=> fatLock = f

\* How many entries ago the scan has seen c, if it has.
Behind(c) == IF c < At THEN At - c ELSE At - c + (MaxCluster - 2)

\* The entries the scan has seen are not free, and stay so.  A scan that starts
\* below the first cluster, after a wrong hint, goes nowhere.
ScanSound ==
  (\E f \in Files : pc[f] = "scan") /\ At \in Clusters =>
     \A c \in Clusters : Behind(c) <= scan.tried => fat[c] # Free

SearchInv == Typed /\ LockHeld /\ ScanSound

LEMMA LockInit == Init => LockHeld
BY FatAssumption DEF Init, LockHeld

LEMMA LockNext == Typed /\ LockHeld /\ [Next]_vars => LockHeld'
<1> SUFFICES ASSUME Typed, LockHeld, [Next]_vars PROVE LockHeld'
  OBVIOUS
<1> USE FatAssumption DEF LockHeld, Typed, TypeOK, Rest
<1>1. ASSUME NEW f \in Files, AllocBegin(f) \/ Undo(f)
             \/ \E o \in {"truncate", "unlink"} : FreeChain(f, o)
      PROVE  LockHeld'
  BY <1>1 DEF AllocBegin, Undo, FreeChain, Lock, Goto
<1>2. ASSUME NEW f \in Files, Take(f) \/ NoSpace(f) \/ ScanFails(f)
      PROVE  LockHeld'
  BY <1>2 DEF Take, NoSpace, ScanFails, Unlock, Done, Goto
<1>3. ASSUME NEW f \in Files, FreeEnd(f) \/ FreeFails(f)
      PROVE  LockHeld'
  BY <1>3 DEF FreeEnd, FreeFails, Forget, Unlock, Done, Goto
<1>4. ASSUME NEW f \in Files,
             AddEntry(f) \/ Walk(f) \/ WalkFails(f) \/ Link(f)
      PROVE  LockHeld'
  BY <1>4 DEF AddEntry, Walk, WalkFails, Link, Done, Goto
<1>5. ASSUME NEW f \in Files, Skip(f) \/ FreeStep(f)
      PROVE  LockHeld'
  BY <1>5 DEF Skip, FreeStep, local
<1>6. CASE Remount \/ UNCHANGED vars
  BY <1>6 DEF Remount, vars, local
<1> QED BY <1>1, <1>2, <1>3, <1>4, <1>5, <1>6 DEF Next, Locked

LEMMA BehindPositive ==
  ASSUME Typed, NEW c \in Clusters, At \in Clusters
  PROVE  Behind(c) \in 1 .. MaxCluster - 2
BY FatAssumption DEF Behind, Clusters

LEMMA ScanInit == Init => ScanSound
BY DEF Init, ScanSound

LEMMA ScanNext ==
  ASSUME ~Fat12, Typed, Typed', LockHeld, LockHeld', ScanSound, [Next]_vars
  PROVE  ScanSound'
<1> USE Numbers, FatAssumption DEF Typed
<1>1. ASSUME NEW f \in Files, AllocBegin(f)
      PROVE  ScanSound'
  <2>1. scan'.tried = 0
    BY <1>1 DEF AllocBegin
  <2>2. ASSUME NEW c \in Clusters, At' \in Clusters
        PROVE  Behind(c)' \in 1 .. MaxCluster - 2
    BY <2>2 DEF Behind, At, Clusters
  <2> QED BY <2>1, <2>2 DEF ScanSound
\* The entry at hand becomes the last one seen.
<1>2. ASSUME NEW f \in Files, Skip(f)
      PROVE  ScanSound'
  <2>1. /\ At \in Clusters /\ fat[At] # Free
        /\ scan'.at = At + 1 /\ scan'.tried = scan.tried + 1 /\ fat' = fat
        /\ scan.tried < MaxCluster - 2 /\ scan.tried \in Nat
        /\ pc[f] = "scan"
    BY <1>2 DEF Skip, TypeOK, FreeOnes
  <2>2. At' = IF At + 1 >= MaxCluster THEN 2 ELSE At + 1
    BY <2>1 DEF At
  <2>3. ASSUME NEW c \in Clusters, c # At
        PROVE  Behind(c)' = Behind(c) + 1
    BY <2>1, <2>2, <2>3 DEF Behind, Clusters
  <2>4. ASSUME NEW c \in Clusters, Behind(c)' <= scan'.tried
        PROVE  fat'[c] # Free
    <3>1. CASE c = At
      BY <3>1, <2>1
    <3>2. CASE c # At
      <4>1. Behind(c) \in Int
        BY <2>1, BehindPositive
      <4>2. Behind(c) <= scan.tried
        BY <4>1, <3>2, <2>1, <2>3, <2>4
      <4> QED BY <4>2, <2>1 DEF ScanSound
    <3> QED BY <3>1, <3>2
  <2> QED BY <2>4 DEF ScanSound
\* Nobody scans any more: there was one thread to hold the lock.
<1>3. ASSUME NEW f \in Files, Take(f) \/ NoSpace(f) \/ ScanFails(f)
      PROVE  ScanSound'
  <2>1. fatLock' = NoFile
    BY <1>3 DEF Take, NoSpace, ScanFails, Unlock
  <2> QED BY <2>1 DEF LockHeld, ScanSound
<1>4. ASSUME NEW f \in Files, pc[f] = "free" \/ pc'[f] = "free",
             \A g \in Files : pc'[g] = "scan" => pc[g] = "scan"
      PROVE  ScanSound'
  <2>1. ASSUME NEW g \in Files PROVE pc'[g] # "scan"
    BY <1>4, <2>1 DEF LockHeld
  <2> QED BY <2>1 DEF ScanSound
\* A link changes an entry, but not to a free one.
<1>5. ASSUME NEW f \in Files,
             AddEntry(f) \/ Walk(f) \/ WalkFails(f) \/ Link(f)
      PROVE  ScanSound'
  <2>1. UNCHANGED scan /\ \A g \in Files : pc'[g] = "scan" => pc[g] = "scan"
    BY <1>5 DEF AddEntry, Walk, WalkFails, Link, Done, Goto, TypeOK
  <2>2. ASSUME NEW c \in Clusters, fat[c] # Free PROVE fat'[c] # Free
    <3>1. CASE Link(f)
      <4>1. cur[f] \in Clusters /\ hand[f] \in Clusters
        BY <3>1 DEF Link, Phases, Phase
      <4>2. fat' = [fat EXCEPT ![cur[f]] = hand[f]]
        BY <3>1, <4>1, PutApart DEF Link, TypeOK
      <4> QED BY <2>2, <4>1, <4>2
    <3> QED BY <1>5, <2>2, <3>1 DEF AddEntry, Walk, WalkFails
  <2> QED BY <2>1, <2>2 DEF ScanSound, Behind, At
<1>6. CASE Remount \/ UNCHANGED vars
  BY <1>6 DEF Remount, vars, local, ScanSound, Behind, At
<1>7. ASSUME NEW f \in Files,
             \/ \E o \in {"truncate", "unlink"} : FreeChain(f, o)
             \/ Undo(f) \/ FreeStep(f) \/ FreeEnd(f) \/ FreeFails(f)
      PROVE  /\ pc[f] = "free" \/ pc'[f] = "free"
             /\ \A g \in Files : pc'[g] = "scan" => pc[g] = "scan"
  BY <1>7 DEF FreeChain, Undo, FreeStep, FreeEnd, FreeFails, Forget, Done, Goto,
              TypeOK
<1> QED BY <1>1, <1>2, <1>3, <1>4, <1>5, <1>6, <1>7 DEF Next, Locked

\* Who holds fat_lock.
THEOREM LockAlwaysHeld == Spec => []LockHeld
<1>1. Typed /\ LockHeld /\ [Next]_vars => LockHeld'
  BY LockNext
<1> QED BY <1>1, LockInit, TypeAlwaysOK, PTL DEF Spec

\* On FAT16 and FAT32: where every scan looks, and that what it has seen stays in
\* use while it goes on, for only the holder of fat_lock frees.
THEOREM SearchAlwaysSound == ~Fat12 => (Spec => []SearchInv)
<1> SUFFICES ASSUME ~Fat12 PROVE Spec => []SearchInv
  OBVIOUS
<1>1. Init => SearchInv
  BY TypedInit, LockInit, ScanInit DEF SearchInv
<1>2. SearchInv /\ [Next]_vars => SearchInv'
  BY TypedNext, LockNext, ScanNext DEF SearchInv
<1> QED BY <1>1, <1>2, PTL DEF Spec

\* When the scan gives up it has seen every entry.
LEMMA FullWhenNoSpace ==
  ASSUME SearchInv, NEW f \in Files, pc[f] = "scan", pc'[f] = "nospace",
         [Next]_vars
  PROVE  FreeOnes = {}
<1> USE DEF SearchInv, Typed, TypeOK
<1>1. NoSpace(f)
  BY DEF Next, Locked, vars, local, Rest, AllocBegin, Take, Skip, ScanFails,
         FreeStep, FreeEnd, FreeFails, Forget, AddEntry, Walk, WalkFails, Link,
         FreeChain, Undo, Remount, NoSpace, Done, Goto
<1>2. At \in Clusters /\ scan.tried >= MaxCluster - 2 /\ scan.tried \in Nat
  BY <1>1 DEF NoSpace
<1>3. ASSUME NEW c \in Clusters PROVE fat[c] # Free
  BY <1>2, <1>3, BehindPositive, FatAssumption DEF ScanSound
<1> QED BY <1>3 DEF FreeOnes

\* On FAT16 and FAT32 fat_alloc_clusters returns -ENOSPC of a full volume only: for
\* any size of the volume, any hint, any number of threads, and with failing reads.
THEOREM NoSpaceAlwaysReal == ~Fat12 => (Spec => NoSpaceIsReal)
<1> SUFFICES ASSUME ~Fat12 PROVE Spec => NoSpaceIsReal
  OBVIOUS
<1>1. SearchInv /\ [Next]_vars =>
        [\A f \in Files :
           pc[f] = "scan" /\ pc'[f] = "nospace" => FreeOnes = {}]_vars
  BY FullWhenNoSpace
<1> QED BY <1>1, SearchAlwaysSound, PTL DEF Spec, NoSpaceIsReal

InsideInv == prevFree >= 2 /\ ScanInside

LEMMA InsideNext ==
  ASSUME Typed, LockHeld', InsideInv, [Next]_vars
  PROVE  InsideInv'
<1> USE FatAssumption DEF InsideInv, ScanInside, Typed, TypeOK
\* The sum is an int again, or the scan starts nowhere.
<1>1. ASSUME NEW f \in Files, AllocBegin(f)
      PROVE  InsideInv'
  <2>1. scan'.at = AsInt((prevFree + 1) % Word) /\ prevFree' = prevFree
    BY <1>1 DEF AllocBegin, counters
  <2>2. CASE prevFree < Word \div 2 - 1
    <3>1. scan'.at = prevFree + 1
      BY <2>1, <2>2, StartTyped
    <3>2. At' \in Clusters
      BY <3>1 DEF At, Clusters
    <3> QED BY <2>1, <2>2, <3>2
  <2>3. CASE prevFree >= Word \div 2 - 1
    <3>1. scan'.at <= 0 /\ scan'.at \in Int
      BY <2>1, <2>3, StartTyped
    <3>2. At' \notin Clusters
      BY <3>1 DEF At, Clusters
    <3> QED BY <2>1, <2>3, <3>2
  <2> QED BY <2>2, <2>3
<1>6. ASSUME NEW f \in Files, Skip(f)
      PROVE  InsideInv'
  BY <1>6 DEF Skip, counters, At, Clusters
\* The scan, the only one, is over.
<1>2. ASSUME NEW f \in Files, Take(f) \/ NoSpace(f) \/ ScanFails(f)
      PROVE  InsideInv'
  BY <1>2 DEF Take, NoSpace, ScanFails, Unlock, counters, LockHeld, FreeOnes,
              Clusters
<1>3. CASE Remount
  <2>1. \A h \in Hints : HintOf(h) >= 2
    BY DEF HintOf
  <2>2. prevFree' >= 2
    BY <1>3, <2>1 DEF Remount
  <2>3. \A f \in Files : pc'[f] # "scan"
    BY <1>3 DEF Remount, local, Rest
  <2> QED BY <2>2, <2>3
<1>4. ASSUME NEW f \in Files,
             \/ FreeStep(f) \/ FreeEnd(f) \/ FreeFails(f) \/ Undo(f)
             \/ \E o \in {"truncate", "unlink"} : FreeChain(f, o)
             \/ AddEntry(f) \/ Walk(f) \/ WalkFails(f) \/ Link(f)
      PROVE  InsideInv'
  BY <1>4 DEF FreeStep, FreeEnd, FreeFails, Forget, Undo, FreeChain, AddEntry,
     Walk, WalkFails, Link, Done, Goto, counters, At
<1>5. CASE UNCHANGED vars
  BY <1>5 DEF vars, counters, local, At
<1> QED BY <1>1, <1>2, <1>3, <1>4, <1>5, <1>6 DEF Next, Locked

\* On every kind of FAT and for any hint: with prev_free below 0x7fffffff every scan
\* stays among the clusters, so that allocating fails with -EIO only on a device
\* that fails; from there on it starts at no cluster and always fails.
THEOREM ScanAlwaysInside == Spec => []ScanInside
<1>1. Init => InsideInv
  BY FatAssumption DEF Init, InsideInv, ScanInside, HintOf
<1>2. Typed /\ LockHeld' /\ InsideInv /\ [Next]_vars => InsideInv'
  BY InsideNext
<1>3. InsideInv => ScanInside
  BY DEF InsideInv
<1> QED BY <1>1, <1>2, <1>3, TypeAlwaysOK, LockAlwaysHeld, PTL DEF Spec

-----------------------------------------------------------------------------
(* The names of clusters.                                                  *)

ChainInv == NamedOnce /\ NamesUsed /\ UsedNamed /\ WalkSound

Entry(c)  == <<"fat", c>>
Start(f)  == <<"start", f>>
Thread(f) == <<"thread", f>>

\* A step that leaves every name and every entry as it is.
SameNames ==
  /\ \A s \in Sources : Target(s)' = Target(s)
  /\ fat' = fat

\* A step that moves what a names to b, which loses what it has named.
Moved(a, b) ==
  /\ a \in Sources /\ b \in Sources /\ a # b
  /\ \/ Target(b)' = Target(a)
     \/ Target(b)' \notin Clusters /\ Target(a) \notin Clusters
  /\ Target(a)' \notin Clusters
  /\ \A s \in Sources \ {a, b} : Target(s)' = Target(s)

LEMMA SourceForms ==
  /\ \A c \in Clusters : Entry(c) \in Sources
  /\ \A f \in Files : Start(f) \in Sources /\ Thread(f) \in Sources
  /\ \A s \in Sources : \/ \E c \in Clusters : s = Entry(c)
                        \/ \E f \in Files : s = Start(f) \/ s = Thread(f)
  /\ \A c, f, g : Entry(c) # Start(f) /\ Entry(c) # Thread(f)
                /\ Start(f) # Thread(g)
  /\ \A c, d : Entry(c) = Entry(d) => c = d
  /\ \A f, g : (Start(f) = Start(g) \/ Thread(f) = Thread(g)) => f = g
BY DEF Sources, Entry, Start, Thread

LEMMA TargetForms ==
  /\ \A c \in Clusters : Target(Entry(c)) = fat[c]
  /\ \A f \in Files :
       Target(Start(f)) = IF FreeingChain(f) THEN NoCluster ELSE start[f]
  /\ \A f \in Files :
       Target(Thread(f)) = IF pc[f] = "free" THEN cur[f] ELSE hand[f]
BY DEF Target, Entry, Start, Thread

LEMMA TargetFormsNext ==
  /\ \A c \in Clusters : Target(Entry(c))' = fat'[c]
  /\ \A f \in Files :
       Target(Start(f))' = IF FreeingChain(f)' THEN NoCluster ELSE start'[f]
  /\ \A f \in Files :
       Target(Thread(f))' = IF pc'[f] = "free" THEN cur'[f] ELSE hand'[f]
BY DEF Target, Entry, Start, Thread

LEMMA SameKeeps ==
  ASSUME SameNames, NamedOnce, NamesUsed, UsedNamed
  PROVE  NamedOnce' /\ NamesUsed' /\ UsedNamed'
<1>1. NamedOnce'
  BY DEF SameNames, NamedOnce
<1>2. NamesUsed'
  BY DEF SameNames, NamesUsed
<1>3. UsedNamed'
  BY DEF SameNames, UsedNamed
<1> QED BY <1>1, <1>2, <1>3

\* Moving a name makes no second one.
LEMMA MovedCross ==
  ASSUME NEW a, NEW b, Moved(a, b), NamedOnce
  PROVE  NamedOnce'
<1> SUFFICES ASSUME NEW r \in Sources, NEW s \in Sources,
                    Target(r)' = Target(s)', Target(r)' \in Clusters
             PROVE  r = s
  BY DEF NamedOnce, Sources
<1>1. r # a /\ s # a
  BY DEF Moved
<1>2. CASE r = b /\ s # b
  BY <1>1, <1>2 DEF Moved, NamedOnce
<1>3. CASE s = b /\ r # b
  BY <1>1, <1>3 DEF Moved, NamedOnce
<1>4. CASE r # b /\ s # b
  BY <1>1, <1>4 DEF Moved, NamedOnce
<1> QED BY <1>2, <1>3, <1>4

\* What is named after the move was named before.
LEMMA MovedNamed ==
  ASSUME NEW a, NEW b, Moved(a, b), NEW s \in Sources, Target(s)' \in Clusters
  PROVE  \E r \in Sources \ {b} : Target(r) = Target(s)'
BY DEF Moved

\* Only what b has named may lose its name.
LEMMA MovedBack ==
  ASSUME NEW a, NEW b, Moved(a, b), NEW c \in Clusters, Target(b) # c,
         \E s \in Sources : Target(s) = c
  PROVE  \E s \in Sources : Target(s)' = c
BY DEF Moved

\* A move that changes at most the entry the moved name goes to, as a link does.
LEMMA MovedKeeps ==
  ASSUME NEW a, NEW b, Moved(a, b), NamedOnce, NamesUsed, UsedNamed,
         Target(b) \notin Clusters,
         \A c \in Clusters : \/ fat'[c] = fat[c]
                           \/ {fat[c], fat'[c]} \cap {Free, Bad} = {}
  PROVE  NamedOnce' /\ NamesUsed' /\ UsedNamed'
<1>1. NamedOnce'
  BY MovedCross
<1>2. NamesUsed'
  <2>1. ASSUME NEW s \in Sources, Target(s)' \in Clusters
        PROVE  fat'[Target(s)'] \notin {Free, Bad}
    BY <2>1, MovedNamed DEF NamesUsed
  <2> QED BY <2>1 DEF NamesUsed, Sources
<1>3. UsedNamed'
  <2>1. ASSUME NEW c \in Clusters, fat'[c] \notin {Free, Bad}
        PROVE  \E s \in Sources : Target(s)' = c
    BY <2>1, MovedBack, ZenonT(60) DEF UsedNamed
  <2> QED BY <2>1 DEF UsedNamed, Sources
<1> QED BY <1>1, <1>2, <1>3

LEMMA SameSteps ==
  ASSUME Typed, NEW f \in Files, ~volume.faulty,
         \/ AllocBegin(f) \/ Skip(f) \/ NoSpace(f) \/ ScanFails(f)
         \/ Walk(f) \/ WalkFails(f) \/ Undo(f) \/ FreeEnd(f)
  PROVE  SameNames
<1> USE Numbers DEF Typed, TypeOK, FreeingChain, Phases, Phase, Rest
<1>1. fat' = fat
  BY DEF AllocBegin, Skip, NoSpace, ScanFails, Walk, WalkFails, Undo, FreeEnd,
         Forget
<1>2. ASSUME NEW g \in Files
      PROVE  /\ Target(Start(g))' = Target(Start(g))
             /\ Target(Thread(g))' = Target(Thread(g))
  <2>1. CASE AllocBegin(f) \/ Undo(f)
    BY <1>2, <2>1, TargetForms, TargetFormsNext DEF AllocBegin, Undo, Goto
  <2>2. CASE Skip(f)
    BY <1>2, <2>2, TargetForms, TargetFormsNext DEF Skip, local
  <2>3. CASE NoSpace(f) \/ ScanFails(f)
    BY <1>2, <2>3, TargetForms, TargetFormsNext
       DEF NoSpace, ScanFails, Done, Goto
  <2>4. CASE Walk(f) \/ WalkFails(f)
    BY <1>2, <2>4, TargetForms, TargetFormsNext DEF Walk, WalkFails, Goto
  <2>5. CASE FreeEnd(f)
    BY <1>2, <2>5, TargetForms, TargetFormsNext DEF FreeEnd, Forget, Done, Goto
  <2> QED BY <2>1, <2>2, <2>3, <2>4, <2>5
<1> QED BY <1>1, <1>2, SourceForms, TargetForms, TargetFormsNext DEF SameNames

LEMMA EntryMoves ==
  ASSUME Typed, NEW f \in Files, AddEntry(f)
  PROVE  fat' = fat /\ (SameNames \/ (Moved(Thread(f), Start(f))
                                   /\ Target(Start(f)) = NoCluster))
<1> USE Numbers DEF Typed, TypeOK, FreeingChain, Phases, Phase
<1>1. fat' = fat
  BY DEF AddEntry
<1>2. CASE start' = [start EXCEPT ![f] = hand[f]] /\ Done(f, "idle")
           /\ hand' = [hand EXCEPT ![f] = NoCluster]
  <2>1. /\ Target(Start(f)) = NoCluster /\ Target(Thread(f)) = hand[f]
        /\ Target(Start(f))' = hand[f] /\ Target(Thread(f))' = NoCluster
    BY <1>2, TargetForms, TargetFormsNext DEF AddEntry, Done, Goto
  <2>2. ASSUME NEW g \in Files, g # f
        PROVE  /\ Target(Start(g))' = Target(Start(g))
               /\ Target(Thread(g))' = Target(Thread(g))
    BY <1>2, <2>2, TargetForms, TargetFormsNext DEF AddEntry, Done, Goto
  <2> QED BY <1>1, <2>1, <2>2, SourceForms, TargetForms, TargetFormsNext DEF Moved
<1>3. CASE Goto(f, "undo") /\ UNCHANGED <<start, op, hand, cur>>
  <2>1. ASSUME NEW g \in Files
        PROVE  /\ Target(Start(g))' = Target(Start(g))
               /\ Target(Thread(g))' = Target(Thread(g))
    BY <1>3, <2>1, TargetForms, TargetFormsNext DEF AddEntry, Goto
  <2> QED BY <1>1, <2>1, SourceForms, TargetForms, TargetFormsNext DEF SameNames
<1> QED BY <1>1, <1>2, <1>3 DEF AddEntry

LEMMA LinkMoves ==
  ASSUME Typed, NEW f \in Files, NEW c \in Clusters, cur[f] = c, ~volume.faulty,
         ~Fat12, Link(f)
  PROVE  Moved(Thread(f), Entry(c)) /\ fat' = [fat EXCEPT ![c] = hand[f]]
<1> USE Numbers DEF Typed, TypeOK, FreeingChain, Phases, Phase
<1>4. fat' = [fat EXCEPT ![c] = hand[f]] /\ hand[f] \in Clusters
  BY PutApart DEF Link
<1>1. /\ Target(Thread(f)) = hand[f] /\ Target(Thread(f))' = NoCluster
      /\ Target(Entry(c))' = hand[f]
  BY <1>4, TargetForms, TargetFormsNext DEF Link, Done, Goto
<1>2. ASSUME NEW g \in Files
      PROVE  /\ Target(Start(g))' = Target(Start(g))
             /\ g # f => Target(Thread(g))' = Target(Thread(g))
  BY <1>2, TargetForms, TargetFormsNext DEF Link, Done, Goto
<1>3. ASSUME NEW d \in Clusters, d # c
      PROVE  Target(Entry(d))' = Target(Entry(d))
  BY <1>3, <1>4, TargetForms, TargetFormsNext DEF Link
<1> QED BY <1>1, <1>2, <1>3, <1>4, SourceForms DEF Moved

LEMMA FreeChainMoves ==
  ASSUME Typed, NEW f \in Files, NEW o \in {"truncate", "unlink"},
         FreeChain(f, o)
  PROVE  /\ Moved(Start(f), Thread(f)) /\ Target(Thread(f)) = NoCluster
         /\ fat' = fat
<1> USE Numbers DEF Typed, TypeOK, FreeingChain, Phases, Phase, Rest
<1>1. /\ Target(Thread(f)) = NoCluster /\ Target(Start(f)) = start[f]
      /\ Target(Thread(f))' = start[f] /\ Target(Start(f))' = NoCluster
  BY TargetForms, TargetFormsNext DEF FreeChain, Goto
<1>2. ASSUME NEW g \in Files, g # f
      PROVE  /\ Target(Start(g))' = Target(Start(g))
             /\ Target(Thread(g))' = Target(Thread(g))
  BY <1>2, TargetForms, TargetFormsNext DEF FreeChain, Goto
<1>3. ASSUME NEW c \in Clusters
      PROVE  Target(Entry(c))' = Target(Entry(c))
  BY <1>3, TargetForms, TargetFormsNext DEF FreeChain
<1> QED BY <1>1, <1>2, <1>3, SourceForms DEF Moved, FreeChain

\* The thread lets go of the cluster it frees and takes over the next one.
LEMMA FreeMoves ==
  ASSUME Typed, NEW f \in Files, NEW c \in Clusters, cur[f] = c, ~Fat12,
         FreeStep(f)
  PROVE  /\ Moved(Entry(c), Thread(f)) /\ Target(Thread(f)) = c
         /\ fat' = [fat EXCEPT ![c] = Free]
<1> USE Numbers DEF Typed, TypeOK, FreeingChain, Phases, Phase
<1>4. fat' = [fat EXCEPT ![c] = Free]
  BY PutApart DEF FreeStep
<1>1. /\ Target(Thread(f)) = c /\ Target(Entry(c)) = fat[c]
      /\ Target(Entry(c))' = Free
      /\ Target(Thread(f))' = IF fat[c] \in Clusters THEN fat[c] ELSE NoCluster
  BY <1>4, TargetForms, TargetFormsNext DEF FreeStep
<1>2. ASSUME NEW g \in Files
      PROVE  /\ Target(Start(g))' = Target(Start(g))
             /\ g # f => Target(Thread(g))' = Target(Thread(g))
  BY <1>2, TargetForms, TargetFormsNext DEF FreeStep
<1>3. ASSUME NEW d \in Clusters, d # c
      PROVE  Target(Entry(d))' = Target(Entry(d))
  BY <1>3, <1>4, TargetForms, TargetFormsNext DEF FreeStep
<1> QED BY <1>1, <1>2, <1>3, <1>4, SourceForms DEF Moved

LEMMA ChainInit == Init => ChainInv
<1> SUFFICES ASSUME Init PROVE ChainInv
  OBVIOUS
<1> USE Numbers
<1>1. ASSUME NEW s \in Sources PROVE Target(s) \notin Clusters
  BY <1>1, SourceForms, TargetForms DEF Init, FreeingChain
<1>2. \A c \in Clusters : fat[c] \in {Free, Bad}
  BY DEF Init
<1>3. WalkSound
  BY DEF Init, WalkSound
<1> QED BY <1>1, <1>2, <1>3
        DEF ChainInv, NamedOnce, NamesUsed, UsedNamed

\* A free cluster has no name, so that its taker gives it its only one.
LEMMA TakeKeeps ==
  ASSUME Typed, ChainInv, ~Fat12, NEW f \in Files, Take(f)
  PROVE  NamedOnce' /\ NamesUsed' /\ UsedNamed'
<1> USE Numbers DEF Typed, TypeOK, FreeingChain, Phases, Phase
<1>1. PICK n \in Clusters : n = At /\ fat[n] = Free
  BY DEF Take, FreeOnes
<1>11. fat' = [fat EXCEPT ![n] = Eof]
  BY <1>1, PutApart DEF Take
<1>2. ASSUME NEW s \in Sources PROVE Target(s) # n
  BY <1>1, <1>2 DEF ChainInv, NamesUsed
<1>3. /\ Target(Thread(f)) = NoCluster /\ Target(Thread(f))' = n
      /\ Target(Entry(n))' = Eof
  BY <1>1, <1>11, TargetForms, TargetFormsNext DEF Take, Goto
<1>4. ASSUME NEW g \in Files
      PROVE  /\ Target(Start(g))' = Target(Start(g))
             /\ g # f => Target(Thread(g))' = Target(Thread(g))
  BY <1>4, TargetForms, TargetFormsNext DEF Take, Goto
<1>5. ASSUME NEW d \in Clusters, d # n
      PROVE  Target(Entry(d))' = Target(Entry(d)) /\ fat'[d] = fat[d]
  BY <1>5, <1>11, TargetForms, TargetFormsNext
<1>6. \A s \in Sources \ {Thread(f), Entry(n)} : Target(s)' = Target(s)
  BY <1>4, <1>5, SourceForms
<1>7. fat'[n] = Eof
  BY <1>11
<1>8. NamedOnce'
  <2> SUFFICES ASSUME NEW r \in Sources, NEW s \in Sources,
                      Target(r)' = Target(s)', Target(r)' \in Clusters
               PROVE  r = s
    BY DEF NamedOnce, Sources
  <2>1. r # Entry(n) /\ s # Entry(n)
    BY <1>3
  <2> QED BY <2>1, <1>2, <1>3, <1>6 DEF ChainInv, NamedOnce
<1>9. NamesUsed'
  <2>1. ASSUME NEW s \in Sources, Target(s)' \in Clusters
        PROVE  fat'[Target(s)'] \notin {Free, Bad}
    <3>1. CASE Target(s)' = n
      BY <3>1, <1>7
    <3>2. CASE Target(s)' # n
      <4>1. s # Thread(f) /\ s # Entry(n)
        BY <2>1, <3>2, <1>3
      <4>2. Target(s)' = Target(s)
        BY <4>1, <1>6
      <4>3. fat'[Target(s)'] = fat[Target(s)']
        BY <2>1, <3>2, <1>5
      <4> QED BY <4>2, <4>3, <2>1 DEF ChainInv, NamesUsed
    <3> QED BY <3>1, <3>2
  <2> QED BY <2>1 DEF NamesUsed, Sources
<1>10. UsedNamed'
  <2>1. ASSUME NEW d \in Clusters, fat'[d] \notin {Free, Bad}
        PROVE  \E s \in Sources : Target(s)' = d
    <3>1. CASE d = n
      BY <3>1, <1>3, SourceForms
    <3>2. CASE d # n
      <4>1. PICK s \in Sources : Target(s) = d
        BY <2>1, <3>2, <1>5 DEF ChainInv, UsedNamed
      <4>2. s # Thread(f) /\ s # Entry(n)
        BY <4>1, <1>1, <1>3, TargetForms
      <4> QED BY <4>1, <4>2, <1>6
    <3> QED BY <3>1, <3>2
  <2> QED BY <2>1 DEF UsedNamed, Sources
<1> QED BY <1>8, <1>9, <1>10

\* The freed cluster had one name, which its thread has dropped.
LEMMA FreeKeeps ==
  ASSUME Typed, ChainInv, ~Fat12, NEW f \in Files, FreeStep(f)
  PROVE  NamedOnce' /\ NamesUsed' /\ UsedNamed'
<1> USE Numbers
<1>1. PICK c \in Clusters : cur[f] = c
  BY DEF FreeStep, Typed, TypeOK
<1>2. Moved(Entry(c), Thread(f)) /\ Target(Thread(f)) = c
  BY <1>1, FreeMoves
<1>3. fat' = [fat EXCEPT ![c] = Free]
  BY <1>1, FreeMoves
<1>4. NamedOnce'
  BY <1>2, MovedCross DEF ChainInv
<1>5. NamesUsed'
  <2>1. ASSUME NEW s \in Sources, Target(s)' \in Clusters
        PROVE  fat'[Target(s)'] \notin {Free, Bad}
    <3>1. PICK r \in Sources \ {Thread(f)} : Target(r) = Target(s)'
      BY <2>1, <1>2, MovedNamed
    <3>2. Target(s)' # c
      BY <3>1, <1>2, SourceForms DEF ChainInv, NamedOnce
    <3>3. fat'[Target(s)'] = fat[Target(s)']
      BY <3>2, <2>1, <1>3 DEF Typed, TypeOK
    <3> QED BY <3>1, <3>3, <2>1 DEF ChainInv, NamesUsed
  <2> QED BY <2>1 DEF NamesUsed, Sources
<1>6. UsedNamed'
  <2>1. ASSUME NEW d \in Clusters, fat'[d] \notin {Free, Bad}
        PROVE  \E s \in Sources : Target(s)' = d
    <3>1. d # c /\ fat'[d] = fat[d]
      BY <2>1, <1>3 DEF Typed, TypeOK
    <3>2. \E s \in Sources : Target(s) = d
      BY <2>1, <3>1 DEF ChainInv, UsedNamed
    <3> QED BY <3>1, <3>2, <1>2, MovedBack
  <2> QED BY <2>1 DEF UsedNamed, Sources
<1> QED BY <1>4, <1>5, <1>6

LEMMA WalkNext ==
  ASSUME Typed, ChainInv, ~Fat12, [Next]_vars
  PROVE  WalkSound'
<1> USE Numbers DEF Typed, TypeOK, ChainInv
\* No entry turns bad.
<1>1. ASSUME NEW c \in Clusters, fat[c] # Bad PROVE fat'[c] # Bad
  <2>1. ASSUME NEW f \in Files, Take(f) PROVE fat'[c] # Bad
    <3>1. At \in Clusters /\ fat' = [fat EXCEPT ![At] = Eof]
      BY <2>1, PutApart DEF Take, FreeOnes
    <3> QED BY <1>1, <3>1
  <2>2. ASSUME NEW f \in Files, Link(f) PROVE fat'[c] # Bad
    <3>1. cur[f] \in Clusters /\ hand[f] \in Clusters
          /\ fat' = [fat EXCEPT ![cur[f]] = hand[f]]
      BY <2>2, PutApart DEF Link, Phases, Phase
    <3> QED BY <1>1, <3>1
  <2>3. ASSUME NEW f \in Files, FreeStep(f) PROVE fat'[c] # Bad
    <3>1. cur[f] \in Clusters /\ fat' = [fat EXCEPT ![cur[f]] = Free]
      BY <2>3, PutApart DEF FreeStep
    <3> QED BY <1>1, <3>1
  <2> QED
    BY <1>1, <2>1, <2>2, <2>3 DEF Next, Locked, vars, local, AllocBegin, Skip,
       NoSpace, ScanFails, FreeEnd, FreeFails, Forget, AddEntry, Walk, WalkFails,
       FreeChain, Undo, Remount
<1>2. ASSUME NEW f \in Files, pc'[f] = "walk"
      PROVE  \/ pc[f] = "walk" /\ cur'[f] = cur[f] /\ hand'[f] = hand[f]
             \/ Walk(f) \/ Take(f)
  BY <1>2 DEF Next, Locked, vars, local, AllocBegin, Take, Skip, NoSpace,
     ScanFails, FreeStep, FreeEnd, FreeFails, Forget, AddEntry, Walk, WalkFails,
     Link, FreeChain, Undo, Remount, Done, Goto, Rest
<1>3. ASSUME NEW f \in Files, pc[f] = "walk", cur'[f] = cur[f],
             hand'[f] = hand[f]
      PROVE  fat'[cur'[f]] # Bad /\ cur'[f] # hand'[f]
  BY <1>1, <1>3 DEF WalkSound, Phases, Phase
\* The next cluster has one name, in the chain, and the new one another.
<1>4. ASSUME NEW f \in Files, Walk(f)
      PROVE  fat'[cur'[f]] # Bad /\ cur'[f] # hand'[f]
  <2>1. PICK c \in Clusters : cur[f] = c /\ fat[c] \in Clusters
    BY <1>4 DEF Walk, Phases, Phase
  <2>2. cur'[f] = fat[c] /\ hand'[f] = hand[f] /\ fat' = fat
    BY <1>4, <2>1 DEF Walk
  <2>3. Target(Entry(c)) = fat[c] /\ Target(Thread(f)) = hand[f]
    BY <1>4, <2>1, TargetForms DEF Walk
  <2>4. fat[fat[c]] # Bad
    BY <2>1, <2>3, SourceForms DEF NamesUsed
  <2>5. fat[c] # hand[f]
    BY <2>1, <2>3, SourceForms DEF NamedOnce
  <2> QED BY <2>2, <2>4, <2>5
\* The file has a first cluster, and the new one was free.
<1>5. ASSUME NEW f \in Files, Take(f), pc'[f] = "walk"
      PROVE  fat'[cur'[f]] # Bad /\ cur'[f] # hand'[f]
  <2>1. start[f] \in Clusters
    BY <1>5 DEF Take, Goto, Phases, Phase
  <2>2. Target(Start(f)) = start[f]
    BY <1>5, TargetForms DEF Take, FreeingChain
  <2>3. fat[start[f]] \notin {Free, Bad}
    BY <2>1, <2>2, SourceForms DEF NamesUsed
  <2>4. At \in Clusters /\ fat[At] = Free /\ cur'[f] = start[f]
        /\ hand'[f] = At
    BY <1>5 DEF Take, FreeOnes
  <2> QED BY <2>1, <2>3, <2>4, <1>1
<1> QED BY <1>2, <1>3, <1>4, <1>5 DEF WalkSound

LEMMA ChainNext ==
  ASSUME Typed, ChainInv, ~volume.faulty, ~Fat12, [Next]_vars
  PROVE  ChainInv'
<1> USE Numbers
<1> DEFINE Kept == NamedOnce' /\ NamesUsed' /\ UsedNamed'
<1> SUFFICES Kept
  BY WalkNext DEF ChainInv
<1>1. ASSUME NEW f \in Files,
             \/ AllocBegin(f) \/ Skip(f) \/ NoSpace(f) \/ ScanFails(f)
             \/ Walk(f) \/ WalkFails(f) \/ Undo(f) \/ FreeEnd(f)
      PROVE  Kept
  <2>1. SameNames
    BY <1>1, SameSteps
  <2> QED BY <2>1, SameKeeps DEF ChainInv
<1>2. ASSUME NEW f \in Files, Take(f) PROVE Kept
  BY <1>2, TakeKeeps
<1>3. ASSUME NEW f \in Files, FreeStep(f) PROVE Kept
  BY <1>3, FreeKeeps
<1>4. ASSUME NEW f \in Files, AddEntry(f) PROVE Kept
  <2>1. CASE SameNames
    BY <2>1, SameKeeps DEF ChainInv
  <2>2. CASE Moved(Thread(f), Start(f)) /\ Target(Start(f)) = NoCluster
    BY <1>4, <2>2, EntryMoves, MovedKeeps DEF ChainInv
  <2> QED BY <1>4, <2>1, <2>2, EntryMoves
<1>5. ASSUME NEW f \in Files, Link(f) PROVE Kept
  <2>1. PICK c \in Clusters : cur[f] = c
    BY <1>5 DEF Link, Typed, Phases, Phase
  <2>2. Moved(Thread(f), Entry(c))
    BY <1>5, <2>1, LinkMoves
  <2>3. fat[c] = Eof /\ Target(Entry(c)) = fat[c]
    <3>1. fat[c] \in {Eof, Bad}
      BY <1>5, <2>1 DEF Link, Typed, TypeOK
    <3> QED BY <1>5, <2>1, <3>1, TargetForms DEF Link, ChainInv, WalkSound
  <2>4. \A d \in Clusters : \/ fat'[d] = fat[d]
                           \/ {fat[d], fat'[d]} \cap {Free, Bad} = {}
    <3>1. fat' = [fat EXCEPT ![c] = hand[f]] /\ hand[f] \in Clusters
      BY <1>5, <2>1, LinkMoves DEF Link, Typed, Phases, Phase
    <3> QED BY <2>3, <3>1 DEF Typed, TypeOK
  <2> QED BY <2>2, <2>3, <2>4, MovedKeeps DEF ChainInv
<1>6. ASSUME NEW f \in Files, NEW o \in {"truncate", "unlink"}, FreeChain(f, o)
      PROVE  Kept
  <2>1. /\ Moved(Start(f), Thread(f)) /\ Target(Thread(f)) \notin Clusters
        /\ fat' = fat
    BY <1>6, FreeChainMoves
  <2> QED BY <2>1, MovedKeeps DEF ChainInv
<1>7. CASE Remount \/ UNCHANGED vars
  <2>1. UNCHANGED <<fat, start, op, pc, hand, cur>>
    BY <1>7 DEF Remount, vars, local
  <2>2. /\ \A c \in Clusters : Target(Entry(c))' = Target(Entry(c))
        /\ \A f \in Files : /\ Target(Start(f))' = Target(Start(f))
                           /\ Target(Thread(f))' = Target(Thread(f))
    BY <2>1, TargetForms, TargetFormsNext DEF FreeingChain
  <2>3. SameNames
    BY <2>1, <2>2, SourceForms DEF SameNames
  <2> QED BY <2>3, SameKeeps DEF ChainInv
<1>8. ASSUME NEW f \in Files PROVE ~FreeFails(f)
  BY DEF FreeFails
<1> QED BY <1>1, <1>2, <1>3, <1>4, <1>5, <1>6, <1>7, <1>8 DEF Next, Locked

\* The argument about names carried over a step of any volume.
LEMMA ReliableNext ==
  ASSUME Typed, ~volume.faulty => ChainInv, ~Fat12, [Next]_vars
  PROVE  (~volume.faulty => ChainInv)'
<1>1. volume' = volume
  BY StepVolume
<1> QED BY <1>1, ChainNext

\* On FAT16 and FAT32, and a device that does not fail, every chain and every
\* thread's new cluster has its clusters to itself, for any number of files and any
\* size of the volume.
THEOREM ChainsAlwaysSound == ~Fat12 => (Spec => [](~volume.faulty => ChainInv))
<1> SUFFICES ASSUME ~Fat12 PROVE Spec => [](~volume.faulty => ChainInv)
  OBVIOUS
<1>1. Init => (~volume.faulty => ChainInv)
  BY ChainInit
<1>2. Typed /\ (~volume.faulty => ChainInv) /\ [Next]_vars
        => (~volume.faulty => ChainInv)'
  BY ReliableNext
<1> QED BY <1>1, <1>2, TypeAlwaysOK, PTL DEF Spec

\* On FAT16 and FAT32: no two chains share a cluster.
THEOREM NeverCrossLinked == ~Fat12 => (Spec => []NoCrossLinks)
<1>1. (~volume.faulty => ChainInv) => NoCrossLinks
  BY DEF ChainInv, NoCrossLinks
<1> QED BY <1>1, ChainsAlwaysSound, PTL

\* On FAT16 and FAT32: no chain runs into a free or a bad cluster.
THEOREM NeverDangling == ~Fat12 => (Spec => []NoDanglingLinks)
<1>1. (~volume.faulty => ChainInv) => NoDanglingLinks
  BY DEF ChainInv, NoDanglingLinks
<1> QED BY <1>1, ChainsAlwaysSound, PTL

\* On FAT16 and FAT32: no cluster is lost.
THEOREM NeverLeaking == ~Fat12 => (Spec => []NoLeaks)
<1>1. (~volume.faulty => ChainInv) => NoLeaks
  BY DEF ChainInv, NoLeaks
<1> QED BY <1>1, ChainsAlwaysSound, PTL

-----------------------------------------------------------------------------
(* The free count.                                                         *)

\* FSINFO has no count that could be one: fat_fill_super counts itself.
CountedAtMount == FsFree \notin 1 .. MaxCluster - 1

LEMMA CountNext ==
  ASSUME Typed, ChainInv, Counted, CountedAtMount, ~volume.faulty, ~Fat12,
         [Next]_vars
  PROVE  Counted'
<1> USE Numbers, FatAssumption DEF Typed, TypeOK
<1> DEFINE N == Cardinality(FreeOnes)
<1>1. IsFiniteSet(FreeOnes) /\ N \in 0 .. MaxCluster - 1 /\ freeClusters = N
  BY FreeOnesBound DEF Counted
<1>2. ASSUME NEW f \in Files, Take(f) PROVE Counted'
  <2>4. At \in Clusters /\ At \in FreeOnes /\ fat' = [fat EXCEPT ![At] = Eof]
    BY <1>2, PutApart DEF Take, FreeOnes
  <2>1. FreeOnes' = FreeOnes \ {At} /\ At \in FreeOnes
    BY <2>4 DEF FreeOnes
  <2>2. Cardinality(FreeOnes') = N - 1 /\ N - 1 \in Nat
    <3>1. Cardinality(FreeOnes \ {At}) = N - 1
      BY <1>1, <2>1, FS_RemoveElement
    <3>2. Cardinality(FreeOnes \ {At}) \in Nat
      BY <1>1, FS_Subset, FS_CardinalityType
    <3> QED BY <3>1, <3>2, <2>1
  <2>3. freeClusters' = (N - 1) % Word
    BY <1>1, <1>2 DEF Take
  <2> QED BY <1>1, <2>2, <2>3, Modulo DEF Counted
\* The cluster that is freed is in use: its thread has its name.
<1>3. ASSUME NEW f \in Files, FreeStep(f) PROVE Counted'
  <2>1. PICK c \in Clusters : cur[f] = c
    BY <1>3 DEF FreeStep
  <2>2. Target(Thread(f)) = c
    BY <1>3, <2>1, FreeMoves
  <2>3. fat[c] # Free
    BY <2>2, SourceForms DEF ChainInv, NamesUsed
  <2>4. FreeOnes' = FreeOnes \cup {c} /\ c \notin FreeOnes
    <3>1. fat' = [fat EXCEPT ![c] = Free]
      BY <1>3, <2>1, FreeMoves
    <3> QED BY <2>1, <2>3, <3>1 DEF FreeOnes
  <2>5. Cardinality(FreeOnes') = N + 1
    BY <1>1, <2>4, FS_AddElement
  <2>6. Cardinality(FreeOnes') <= MaxCluster - 1
    <3>1. fat' \in [Clusters -> Values]
      BY TypedNext DEF Typed, TypeOK
    <3>2. IsFiniteSet(Clusters) /\ Cardinality(Clusters) = MaxCluster - 2
      BY ClusterCount
    <3>3. FreeOnes' \subseteq Clusters
      BY DEF FreeOnes
    <3>4. Cardinality(FreeOnes') <= Cardinality(Clusters)
      BY <3>2, <3>3, FS_Subset
    <3> QED BY <3>2, <3>4, <2>5, <1>1
  <2>7. freeClusters' = (N + 1) % Word
    BY <1>1, <1>3 DEF FreeStep
  <2> QED BY <1>1, <2>5, <2>6, <2>7, Modulo DEF Counted
<1>4. ASSUME NEW f \in Files, Link(f) PROVE Counted'
  <2>2. /\ cur[f] \in Clusters /\ hand[f] \in Clusters
        /\ fat' = [fat EXCEPT ![cur[f]] = hand[f]]
        /\ fat[cur[f]] # Free
    BY <1>4, PutApart DEF Link, Phases, Phase
  <2>1. FreeOnes' = FreeOnes
    BY <2>2 DEF FreeOnes
  <2> QED BY <1>4, <2>1 DEF Link, counters, Counted
<1>5. CASE Remount
  BY <1>5 DEF Remount, CountAtMount, CountedAtMount, Counted, FreeOnes
<1>6. ASSUME UNCHANGED <<fat, freeClusters>> PROVE Counted'
  BY <1>6 DEF Counted, FreeOnes
<1> QED
  BY <1>2, <1>3, <1>4, <1>5, <1>6 DEF Next, Locked, vars, counters, local,
     AllocBegin, Skip, NoSpace, ScanFails, FreeEnd, FreeFails, Forget, AddEntry,
     Walk, WalkFails, FreeChain, Undo

\* On FAT16 and FAT32, on a device that does not fail, and with the count taken at
\* the mount, free_clusters is exact.
THEOREM AlwaysCounted == ~Fat12 /\ CountedAtMount => (Spec => []FreeCounted)
<1> SUFFICES ASSUME ~Fat12, CountedAtMount PROVE Spec => []FreeCounted
  OBVIOUS
<1>1. Init => FreeCounted
  BY FatAssumption
     DEF Init, CountAtMount, CountedAtMount, FreeCounted, Counted, FreeOnes
<1>2. Typed /\ (~volume.faulty => ChainInv) /\ FreeCounted /\ [Next]_vars
        => FreeCounted'
  <2> SUFFICES ASSUME Typed, ~volume.faulty => ChainInv, FreeCounted, [Next]_vars
               PROVE  FreeCounted'
    OBVIOUS
  <2>1. volume' = volume
    BY StepVolume
  <2> QED BY <2>1, CountNext DEF FreeCounted
<1> QED BY <1>1, <1>2, TypeAlwaysOK, ChainsAlwaysSound, PTL DEF Spec
=============================================================================
