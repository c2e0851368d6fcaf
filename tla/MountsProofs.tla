---------------------------- MODULE MountsProofs ----------------------------
(***************************************************************************)
(* For any number of threads, devices and entries: the device map is sound *)
(* after every step of ufs_mount and ufs_umount, no failure of a mount     *)
(* leaves a device open, and bcache_for gives a device its own cache       *)
(* unless the map lost an entry and gained one while it looked.            *)
(***************************************************************************)
EXTENDS Mounts, TLAPS

InCall(t) == goal[t] # "use"

Missing(t) == \A i \in Live : map[i].bdev # dev[t]

\* A thread works on an open device, alone unless the volume is mounted.
DevicesOwned ==
  /\ \A t \in Threads : IF pc[t] = "idle" THEN dev[t] = None /\ sup[t] = None /\ ~ InCall(t)
                                           ELSE dev[t] \in bdevs
  /\ \A t, u \in Threads : InCall(t) /\ dev[t] = dev[u] => t = u
  /\ \A t \in Threads : pc[t] # "idle" /\ ~ InCall(t) =>
       sup[t] \in Supers /\ mounted[sup[t]] # None /\ mounted[sup[t]].bdev = dev[t]
  /\ \A s \in Supers : mounted[s] # None =>
       /\ mounted[s].bdev \in bdevs
       /\ \A t \in Threads : InCall(t) => dev[t] # mounted[s].bdev /\ sup[t] # s
       /\ \A r \in Supers : mounted[r] # None /\ mounted[r].bdev = mounted[s].bdev => r = s
  /\ \A t, u \in Threads : InCall(t) /\ sup[t] # None /\ sup[u] = sup[t] => t = u

\* What the places in ufs_mount and ufs_umount say about the map.
PlacesSound ==
  \A t \in Threads :
    /\ pc[t] = "idle" => goal[t] = "use"
    /\ pc[t] \in {"insert", "super"} => goal[t] = "init"
    /\ pc[t] = "destroyed" => goal[t] \in {"undo", "close"}
    /\ goal[t] = "fill" => sup[t] # None
    /\ (goal[t] \in {"use", "fill"} /\ pc[t] # "idle") \/ pc[t] = "super" => ~ Missing(t)
    /\ (goal[t] = "init" /\ pc[t] # "super") \/ pc[t] = "destroyed" => Missing(t)
    /\ pc[t] = "return" /\ got[t] = None /\ goal[t] # "use" => Missing(t)
    /\ pc[t] = "return" /\ got[t] # None /\ ~ misled => owner[got[t]] = dev[t]

\* Where a thread in bcache_for will read.
FoundSound ==
  \A t \in Threads : pc[t] = "found" =>
    /\ idx[t] \in Slots
    /\ map[idx[t]].bc \in Caches
    /\ ~ gone[t] => idx[t] <= nr
    /\ ~ crossed[t] => map[idx[t]].bdev = dev[t] /\ owner[map[idx[t]].bc] = dev[t]

IndInv ==
  TypeOK /\ MapSound /\ NothingLeaks /\ DevicesOwned /\ PlacesSound /\ FoundSound

LEMMA StartsSound == MountsAssumption /\ Init => IndInv
<1> SUFFICES ASSUME MountsAssumption, Init PROVE IndInv
  OBVIOUS
<1>1. TypeOK
  <2>1. inodes \in Seq([sb : Supers, id : Nat])
    BY DEF Init
  <2>2. map \in [Slots -> [bdev : Bdevs \cup {None}, bc : Caches \cup {None}]]
    BY DEF Init
  <2>3. bdevs \subseteq Bdevs /\ owner \in [Caches -> Bdevs \cup {None}] /\ nr \in 0 .. UFS_MAX_BDEVS
        /\ mounted \in [Supers -> Volume \cup {None}]
    BY DEF Init, MountsAssumption
  <2>4. /\ pc \in [Threads -> {"idle", "find", "found", "return", "insert", "super", "destroyed"}]
        /\ goal \in [Threads -> Goals]
        /\ dev \in [Threads -> Bdevs \cup {None}]
        /\ sup \in [Threads -> Supers \cup {None}]
    BY DEF Init, Goals
  <2>5. /\ idx \in [Threads -> Slots \cup {0}]
        /\ got \in [Threads -> Caches \cup {None}]
        /\ gone \in [Threads -> BOOLEAN]
        /\ crossed \in [Threads -> BOOLEAN]
        /\ misled \in BOOLEAN
    BY DEF Init
  <2> QED BY <2>1, <2>2, <2>3, <2>4, <2>5 DEF TypeOK
<1>2. Live = {}
  BY DEF Init, Live, Slots
<1>3. MapSound /\ NothingLeaks
  BY <1>2 DEF Init, MapSound, NothingLeaks
<1>4. DevicesOwned /\ PlacesSound /\ FoundSound
  BY <1>2 DEF MountsAssumption, Init, DevicesOwned, PlacesSound, FoundSound, InCall
<1> QED BY <1>1, <1>3, <1>4 DEF IndInv

\* The steps that leave the map, the devices and the volumes alone.
Quiet(t) ==
  \/ Find(t) \/ ReadEntry(t) \/ UseReturns(t)
  \/ \E s \in Supers : Use(t, s)
  \/ InitReturns(t) \/ InsertFails(t) \/ NewSuper(t) \/ NoMemoryForSuper(t)
  \/ FillFails(t) \/ FlushReturns(t) \/ NoCache(t) \/ Undone(t)

LEMMA QuietKeepsTables ==
  ASSUME NEW t \in Threads, Quiet(t)
  PROVE  UNCHANGED tables
BY DEF Quiet, Find, ReadEntry, UseReturns, Use, InitReturns, InsertFails, NewSuper,
       NoMemoryForSuper, FillFails, FlushReturns, NoCache, Undone

LEMMA TypeStep ==
  ASSUME MountsAssumption, IndInv, NEW t \in Threads, Step(t)
  PROVE  TypeOK'
<1> USE DEF MountsAssumption, IndInv, TypeOK, tables, Goto, Lookup, Done, Slots, Goals, Volume
<1>1. CASE Find(t)
  <2>1. \A i \in 1 .. nr : i \in Slots
    OBVIOUS
  <2>2. pc' \in [Threads -> {"idle", "find", "found", "return", "insert", "super", "destroyed"}]
        /\ goal' \in [Threads -> Goals]
    BY <1>1 DEF Find
  <2>3. idx' \in [Threads -> Slots \cup {0}]
    BY <1>1, <2>1 DEF Find
  <2>5. got' \in [Threads -> Caches \cup {None}]
    BY <1>1 DEF Find
  <2>4. gone' \in [Threads -> BOOLEAN] /\ crossed' \in [Threads -> BOOLEAN]
    BY <1>1 DEF Find
  <2> QED BY <1>1, <2>2, <2>3, <2>4, <2>5 DEF Find
<1>2. CASE ReadEntry(t)
  BY <1>2 DEF ReadEntry, PlacesSound, FoundSound
<1>3. CASE \E s \in Supers : Use(t, s)
  BY <1>3 DEF Use
<1>4. CASE \E s \in Supers : Umount(t, s)
  BY <1>4 DEF Umount
<1>5. CASE UseReturns(t) \/ InitReturns(t) \/ FlushReturns(t)
  BY <1>5 DEF UseReturns, InitReturns, FlushReturns
<1>6. CASE MountBegin(t)
  BY <1>6 DEF MountBegin
<1>7. CASE Insert(t)
  BY <1>7 DEF Insert, DevicesOwned
<1>8. CASE InsertFails(t) \/ NoMemoryForSuper(t) \/ FillFails(t)
  BY <1>8 DEF InsertFails, NoMemoryForSuper, FillFails
<1>9. CASE NewSuper(t)
  BY <1>9 DEF NewSuper
<1>10. CASE FillSuper(t)
  BY <1>10 DEF FillSuper, InsertHash, PlacesSound, DevicesOwned
<1>11. CASE NoCache(t) \/ Undone(t)
  BY <1>11, ZenonT(60) DEF NoCache, Undone
<1>12. CASE Destroy(t)
  BY <1>12 DEF Destroy
<1>13. CASE Closed(t)
  BY <1>13 DEF Closed
<1> QED BY <1>1, <1>2, <1>3, <1>4, <1>5, <1>6, <1>7, <1>8, <1>9, <1>10, <1>11, <1>12, <1>13
        DEF Step

\* What a thread that destroys its cache has found.
LEMMA OneEntry ==
  ASSUME MountsAssumption, IndInv, ~ misled, NEW t \in Threads, pc[t] = "return", got[t] # None,
         NEW i \in 1 .. nr, map[i].bdev = dev[t]
  PROVE  /\ map[i].bc = got[t] /\ owner[got[t]] = dev[t] /\ got[t] \in Caches
         /\ i \in Live /\ nr \in Live /\ nr - 1 \in 0 .. UFS_MAX_BDEVS
         /\ \A j \in Live : map[j].bdev = dev[t] => j = i
         /\ \A j \in Live : map[j].bc = got[t] => j = i
<1> USE DEF IndInv, TypeOK, MountsAssumption
<1>1. i \in Live /\ nr \in Live /\ nr - 1 \in 0 .. UFS_MAX_BDEVS
  BY DEF Live, Slots
<1>2. owner[got[t]] = dev[t] /\ got[t] \in Caches
  BY DEF PlacesSound
<1>3. dev[t] # None
  BY DEF DevicesOwned
<1>4. PICK j \in Live : map[j].bc = got[t]
  BY <1>2, <1>3 DEF MapSound
<1>5. map[j].bdev = dev[t]
  BY <1>2, <1>4 DEF MapSound
<1>6. \A k \in Live : map[k].bdev = dev[t] => k = i
  BY <1>1 DEF MapSound
<1>7. \A k \in Live : map[k].bc = got[t] => map[k].bdev = dev[t]
  BY <1>2 DEF MapSound
<1> QED BY <1>1, <1>2, <1>4, <1>5, <1>6, <1>7

\* The live entries before and after one goes: the last has moved to i.
LEMMA EntryGoes ==
  ASSUME MountsAssumption, IndInv, ~ misled, NEW t \in Threads, Destroy(t)
  PROVE  /\ \A j \in Live' : \E k \in Live : map'[j] = map[k] /\ map[k].bdev # dev[t]
         /\ \A j, l \in Live' : map'[j].bdev = map'[l].bdev => j = l
         /\ \A k \in Live : map[k].bdev # dev[t] => \E j \in Live' : map'[j] = map[k]
         /\ owner[got[t]] = dev[t] /\ got[t] \in Caches
         /\ \A k \in Live : map[k].bdev # dev[t] => map[k].bc # got[t]
<1> USE DEF IndInv, TypeOK, MountsAssumption
<1>1. PICK i \in 1 .. nr : map[i].bdev = dev[t] /\ map' = [map EXCEPT ![i] = map[nr]]
  BY DEF Destroy
<1>2. /\ map[i].bc = got[t] /\ owner[got[t]] = dev[t] /\ got[t] \in Caches
      /\ i \in Live /\ nr \in Live /\ nr - 1 \in 0 .. UFS_MAX_BDEVS
      /\ \A j \in Live : map[j].bdev = dev[t] => j = i
      /\ \A j \in Live : map[j].bc = got[t] => j = i
  BY <1>1, OneEntry DEF Destroy
<1>3. nr' = nr - 1 /\ Live' = Live \ {nr}
  BY <1>2 DEF Destroy, Live, Slots
<1>4. \A j \in Live' : map'[j] = IF j = i THEN map[nr] ELSE map[j]
  BY <1>1, <1>2, <1>3 DEF Live
<1>5. \A j \in Live' : \E k \in Live : map'[j] = map[k] /\ map[k].bdev # dev[t]
  BY <1>2, <1>3, <1>4
<1>6. \A j, l \in Live' : map'[j].bdev = map'[l].bdev => j = l
  BY <1>2, <1>3, <1>4, SMTT(30) DEF MapSound
<1>7. \A k \in Live : map[k].bdev # dev[t] => \E j \in Live' : map'[j] = map[k]
  <2> SUFFICES ASSUME NEW k \in Live, map[k].bdev # dev[t]
               PROVE  \E j \in Live' : map'[j] = map[k]
    OBVIOUS
  <2>1. k # i
    BY <1>1
  <2>2. CASE k = nr
    BY <2>1, <2>2, <1>2, <1>3, <1>4
  <2>3. CASE k # nr
    BY <2>1, <2>3, <1>3, <1>4
  <2> QED BY <2>2, <2>3
<1> QED BY <1>1, <1>2, <1>5, <1>6, <1>7

LEMMA MapStep ==
  ASSUME MountsAssumption, IndInv, ~ misled, NEW t \in Threads, Step(t)
  PROVE  MapSound'
<1> USE DEF IndInv, TypeOK, MountsAssumption
<1>1. CASE Quiet(t)
  BY <1>1, QuietKeepsTables, SMTT(30) DEF tables, MapSound, Live
<1>2. CASE MountBegin(t)
  BY <1>2 DEF MountBegin, MapSound, Live
<1>3. CASE Insert(t)
  <2>1. PICK c \in Caches : /\ owner[c] = None
                            /\ owner' = [owner EXCEPT ![c] = dev[t]]
                            /\ map' = [map EXCEPT ![nr + 1] = [bdev |-> dev[t], bc |-> c]]
    BY <1>3 DEF Insert
  <2>2. nr' = nr + 1 /\ nr + 1 \in Slots /\ Live' = Live \cup {nr + 1} /\ nr + 1 \notin Live
    BY <1>3 DEF Insert, Live, Slots
  <2>3. Missing(t) /\ dev[t] \in bdevs /\ dev[t] # None
    BY <1>3 DEF Insert, PlacesSound, DevicesOwned
  <2>4. map'[nr + 1].bdev = dev[t] /\ map'[nr + 1].bc = c
        /\ \A j \in Live : map'[j] = map[j] /\ map[j].bc # c /\ map[j].bdev # dev[t]
    BY <2>1, <2>2, <2>3 DEF MapSound, Missing, Live
  <2>5. \A j \in Live' : /\ map'[j].bc \in Caches /\ owner'[map'[j].bc] = map'[j].bdev
                         /\ map'[j].bdev \in bdevs
    BY <2>1, <2>2, <2>3, <2>4 DEF MapSound
  <2>6. \A d \in Caches : owner'[d] # None => \E j \in Live' : map'[j].bc = d
    BY <2>1, <2>2, <2>4 DEF MapSound
  <2>7. \A j, l \in Live' : map'[j].bdev = map'[l].bdev => j = l
    BY <2>2, <2>4 DEF MapSound
  <2>8. \A s \in Supers : mounted[s] # None => \E j \in Live' : map'[j].bdev = mounted[s].bdev
    BY <2>2, <2>4 DEF MapSound
  <2> QED BY <1>3, <2>5, <2>6, <2>7, <2>8 DEF Insert, MapSound
<1>4. CASE FillSuper(t)
  <2>1. ~ Missing(t) /\ dev[t] # None /\ sup[t] \in Supers
    BY <1>4 DEF FillSuper, PlacesSound, DevicesOwned
  <2> QED BY <1>4, <2>1 DEF FillSuper, MapSound, Live, Missing
<1>5. CASE \E s \in Supers : Umount(t, s)
  BY <1>5 DEF Umount, MapSound, Live
<1>6. CASE Destroy(t)
  <2>1. \A s \in Supers : mounted[s] # None => mounted[s].bdev # dev[t]
    BY <1>6 DEF Destroy, DevicesOwned, InCall
  <2>2. owner' = [owner EXCEPT ![got[t]] = None] /\ bdevs' = bdevs /\ mounted' = mounted
    BY <1>6 DEF Destroy
  <2>3. \A c \in Caches : owner'[c] # None => owner[c] # None /\ owner[c] # dev[t]
    <3> SUFFICES ASSUME NEW c \in Caches, owner'[c] # None PROVE owner[c] # None /\ owner[c] # dev[t]
      OBVIOUS
    <3>1. c # got[t] /\ owner[c] # None
      BY <2>2
    <3>2. PICK k \in Live : map[k].bc = c
      BY <3>1 DEF MapSound
    <3>3. PICK i \in 1 .. nr : map[i].bdev = dev[t]
      BY <1>6 DEF Destroy
    <3>4. k = i => c = got[t]
      BY <1>6, <3>2, <3>3, OneEntry DEF Destroy
    <3> QED BY <3>1, <3>2, <3>3, <3>4 DEF MapSound, Live, Slots
  <2>4. /\ \A j \in Live' : \E k \in Live : map'[j] = map[k] /\ map[k].bdev # dev[t]
        /\ \A k \in Live : map[k].bdev # dev[t] => \E j \in Live' : map'[j] = map[k]
        /\ \A k \in Live : map[k].bdev # dev[t] => map[k].bc # got[t]
    BY <1>6, EntryGoes
  <2>5. \A j \in Live' : /\ map'[j].bc \in Caches /\ owner'[map'[j].bc] = map'[j].bdev
                         /\ map'[j].bdev \in bdevs'
    BY <2>2, <2>4 DEF MapSound
  <2>6. \A c \in Caches : owner'[c] # None => \E j \in Live' : map'[j].bc = c
    BY <2>3, <2>4 DEF MapSound
  <2>7. \A s \in Supers : mounted'[s] # None => \E j \in Live' : map'[j].bdev = mounted'[s].bdev
    BY <2>1, <2>2, <2>4, SMTT(30) DEF MapSound
  <2>8. \A j, l \in Live' : map'[j].bdev = map'[l].bdev => j = l
    BY <1>6, EntryGoes
  <2> QED BY <2>5, <2>6, <2>7, <2>8 DEF MapSound
<1>7. CASE Closed(t)
  BY <1>7 DEF Closed, MapSound, Live, PlacesSound, DevicesOwned, Missing, InCall
<1> QED BY <1>1, <1>2, <1>3, <1>4, <1>5, <1>6, <1>7 DEF Step, Quiet

\* A thread in ufs_mount or ufs_umount keeps its device until the call ends.
LEMMA CallsGoOn ==
  ASSUME MountsAssumption, IndInv, NEW t \in Threads, Step(t), ~ FillSuper(t), ~ Closed(t),
         NEW u \in Threads, InCall(u)
  PROVE  InCall(u)' /\ dev'[u] = dev[u]
<1> USE DEF IndInv, TypeOK, InCall, Goto, Lookup, Done
<1>1. CASE u # t
  BY <1>1 DEF Step, Find, ReadEntry, Use, Umount, UseReturns, MountBegin, InitReturns, Insert,
              InsertFails, NewSuper, NoMemoryForSuper, FillFails, FlushReturns, NoCache,
              Destroy, Undone
<1>2. CASE u = t
  BY <1>2 DEF Step, Find, ReadEntry, Use, Umount, UseReturns, MountBegin, InitReturns, Insert,
              InsertFails, NewSuper, NoMemoryForSuper, FillFails, FlushReturns, NoCache,
              Destroy, Undone, PlacesSound, DevicesOwned
<1> QED BY <1>1, <1>2

LEMMA FillTakesNewSuper ==
  ASSUME MountsAssumption, IndInv, NEW t \in Threads, FillSuper(t)
  PROVE  /\ sup[t] \in Supers /\ mounted[sup[t]] = None
         /\ mounted' = [mounted EXCEPT ![sup[t]] = [bdev |-> dev[t], root |-> Len(inodes)]]
         /\ mounted'[sup[t]] # None /\ mounted'[sup[t]].bdev = dev[t]
         /\ \A s \in Supers \ {sup[t]} : mounted'[s] = mounted[s]
<1> USE DEF IndInv, TypeOK, MountsAssumption
<1>1. sup[t] \in Supers /\ InCall(t) /\ dev[t] \in Bdevs
  BY DEF FillSuper, PlacesSound, DevicesOwned, InCall
<1>2. mounted[sup[t]] = None
  BY <1>1 DEF DevicesOwned
<1>3. mounted' = [mounted EXCEPT ![sup[t]] = [bdev |-> dev[t], root |-> Len(inodes)]]
  BY DEF FillSuper
<1>4. [bdev |-> dev[t], root |-> Len(inodes)] \in Volume
  BY <1>1 DEF Volume
<1> QED BY <1>1, <1>2, <1>3, <1>4

LEMMA LeakStep ==
  ASSUME MountsAssumption, IndInv, ~ misled, NEW t \in Threads, Step(t)
  PROVE  NothingLeaks'
<1> USE DEF IndInv, TypeOK, MountsAssumption
<1>1. CASE Quiet(t) \/ Insert(t) \/ Destroy(t)
  <2>1. bdevs' = bdevs /\ mounted' = mounted
    BY <1>1, QuietKeepsTables DEF tables, Insert, Destroy
  <2>2. ~ FillSuper(t) /\ ~ Closed(t)
    <3>1. CASE FillSuper(t)
      BY <2>1, <3>1, FillTakesNewSuper
    <3>2. CASE Closed(t)
      BY <2>1, <3>2 DEF Closed, DevicesOwned
    <3> QED BY <3>1, <3>2
  <2> QED BY <2>1, <2>2, CallsGoOn DEF NothingLeaks, InCall
<1>2. CASE MountBegin(t)
  BY <1>2 DEF MountBegin, Lookup, Goto, NothingLeaks, PlacesSound
<1>3. CASE FillSuper(t)
  <2>1. bdevs' = bdevs
    BY <1>3 DEF FillSuper
  <2>2. \A s \in Supers : mounted[s] # None => mounted'[s] = mounted[s]
    BY <1>3, FillTakesNewSuper
  <2>3. \A u \in Threads : u # t => goal'[u] = goal[u] /\ dev'[u] = dev[u]
    BY <1>3 DEF FillSuper, Done, Goto
  <2>4. \A b \in bdevs :
          \/ \E s \in Supers : mounted[s] # None /\ mounted[s].bdev = b
          \/ \E u \in Threads : u # t /\ dev[u] = b /\ goal[u] # "use"
          \/ b = dev[t]
    BY DEF NothingLeaks
  <2>5. sup[t] \in Supers /\ mounted'[sup[t]] # None /\ mounted'[sup[t]].bdev = dev[t]
    BY <1>3, FillTakesNewSuper
  <2>6. SUFFICES ASSUME NEW b \in bdevs
                 PROVE  \/ \E s \in Supers : mounted'[s] # None /\ mounted'[s].bdev = b
                        \/ \E u \in Threads : dev'[u] = b /\ goal'[u] # "use"
    BY <2>1 DEF NothingLeaks
  <2>7. CASE \E s \in Supers : mounted[s] # None /\ mounted[s].bdev = b
    BY <2>2, <2>7
  <2>8. CASE \E u \in Threads : u # t /\ dev[u] = b /\ goal[u] # "use"
    BY <2>3, <2>8
  <2>9. CASE b = dev[t]
    BY <2>5, <2>9
  <2> QED BY <2>4, <2>7, <2>8, <2>9
<1>4. CASE \E s \in Supers : Umount(t, s)
  BY <1>4 DEF Umount, Lookup, Goto, NothingLeaks, PlacesSound
<1>5. CASE Closed(t)
  <2>1. \A u \in Threads : u # t => goal'[u] = goal[u] /\ dev'[u] = dev[u]
    BY <1>5 DEF Closed, Done, Goto
  <2>2. bdevs' = bdevs \ {dev[t]} /\ mounted' = mounted
    BY <1>5 DEF Closed
  <2> QED BY <2>1, <2>2, ZenonT(60) DEF NothingLeaks
<1> QED BY <1>1, <1>2, <1>3, <1>4, <1>5 DEF Step, Quiet

LEMMA OwnersStep ==
  ASSUME MountsAssumption, IndInv, ~ misled, NEW t \in Threads, Step(t)
  PROVE  DevicesOwned'
<1> USE DEF IndInv, TypeOK, MountsAssumption, InCall, Goto, Lookup, Done
<1>1. CASE Find(t) \/ ReadEntry(t) \/ InitReturns(t) \/ InsertFails(t) \/ NoMemoryForSuper(t)
           \/ FillFails(t) \/ FlushReturns(t) \/ NoCache(t) \/ Undone(t) \/ Insert(t) \/ Destroy(t)
  <2>1. UNCHANGED <<bdevs, mounted, dev, sup>> /\ pc[t] # "idle"
    BY <1>1 DEF tables, Find, ReadEntry, InitReturns, InsertFails, NoMemoryForSuper, FillFails,
                FlushReturns, NoCache, Undone, Insert, Destroy
  <2>2. \A u \in Threads : pc'[u] = "idle" <=> pc[u] = "idle"
    BY <1>1 DEF Find, ReadEntry, InitReturns, InsertFails, NoMemoryForSuper, FillFails,
                FlushReturns, NoCache, Undone, Insert, Destroy
  <2>3. \A u \in Threads : goal'[u] = "use" <=> goal[u] = "use"
    BY <1>1 DEF Find, ReadEntry, InitReturns, InsertFails, NoMemoryForSuper, FillFails,
                FlushReturns, NoCache, Undone, Insert, Destroy, PlacesSound
  <2> QED BY <2>1, <2>2, <2>3 DEF DevicesOwned
<1>2. CASE \E s \in Supers : Use(t, s)
  BY <1>2 DEF tables, Use, DevicesOwned, Volume, PlacesSound
<1>3. CASE UseReturns(t)
  BY <1>3 DEF tables, UseReturns, DevicesOwned
<1>4. CASE MountBegin(t)
  BY <1>4 DEF MountBegin, DevicesOwned, PlacesSound
<1>6. CASE NewSuper(t)
  BY <1>6 DEF tables, NewSuper, DevicesOwned, PlacesSound
<1>7. CASE FillSuper(t)
  BY <1>7, FillTakesNewSuper DEF FillSuper, DevicesOwned
<1>8. CASE \E s \in Supers : Umount(t, s)
  <2>1. PICK s \in Supers : Umount(t, s)
    BY <1>8
  <2>2. /\ pc[t] = "idle" /\ mounted[s] # None /\ \A u \in Threads : sup[u] # s
        /\ mounted' = [mounted EXCEPT ![s] = None] /\ bdevs' = bdevs
        /\ pc' = [pc EXCEPT ![t] = "find"] /\ goal' = [goal EXCEPT ![t] = "flush"]
        /\ dev' = [dev EXCEPT ![t] = mounted[s].bdev] /\ sup' = [sup EXCEPT ![t] = s]
    BY <2>1 DEF Umount
  <2>3. \A u \in Threads : dev[u] # mounted[s].bdev
    BY <2>2 DEF DevicesOwned
  <2>4. mounted[s].bdev \in bdevs
    BY <2>2 DEF DevicesOwned
  <2> QED BY <2>2, <2>3, <2>4 DEF DevicesOwned
<1>9. CASE Closed(t)
  BY <1>9 DEF Closed, DevicesOwned, PlacesSound
<1> QED BY <1>1, <1>2, <1>3, <1>4, <1>6, <1>7, <1>8, <1>9 DEF Step

LEMMA PlacesStep ==
  ASSUME MountsAssumption, IndInv, ~ misled, NEW t \in Threads, Step(t)
  PROVE  PlacesSound'
<1> USE DEF IndInv, TypeOK, MountsAssumption, InCall, Goto, Lookup, Done, Missing, Live
<1>1. CASE Find(t)
  <2>1. UNCHANGED <<tables, dev, sup, misled>> /\ goal' = goal /\ pc[t] = "find"
        /\ pc' \in [Threads -> {"idle", "find", "found", "return", "insert", "super", "destroyed"}]
        /\ \A u \in Threads : u # t => pc'[u] = pc[u] /\ got'[u] = got[u]
    BY <1>1 DEF Find
  <2>2. pc'[t] = "found" \/ (pc'[t] = "return" /\ got'[t] = None /\ Missing(t))
    BY <1>1 DEF Find, Slots
  <2> QED BY <2>1, <2>2 DEF tables, PlacesSound
<1>2. CASE ReadEntry(t)
  BY <1>2 DEF tables, ReadEntry, PlacesSound, FoundSound
<1>3. CASE \E s \in Supers : Use(t, s)
  BY <1>3 DEF tables, Use, PlacesSound, MapSound
<1>4. CASE \E s \in Supers : Umount(t, s)
  BY <1>4 DEF Umount, PlacesSound
<1>5. CASE UseReturns(t) \/ FlushReturns(t) \/ NoCache(t) \/ Undone(t)
  BY <1>5 DEF tables, UseReturns, FlushReturns, NoCache, Undone, PlacesSound
<1>12. CASE InitReturns(t)
  <2>1. got[t] = None
    BY <1>12 DEF InitReturns, PlacesSound, MapSound, DevicesOwned
  <2> QED BY <1>12, <2>1 DEF tables, InitReturns, PlacesSound
<1>6. CASE MountBegin(t)
  BY <1>6 DEF MountBegin, PlacesSound, MapSound
<1>7. CASE Insert(t)
  BY <1>7 DEF Insert, PlacesSound, DevicesOwned, Slots
<1>8. CASE InsertFails(t) \/ NoMemoryForSuper(t) \/ FillFails(t) \/ NewSuper(t)
  BY <1>8 DEF tables, InsertFails, NoMemoryForSuper, FillFails, NewSuper, PlacesSound, MapSound
<1>9. CASE FillSuper(t)
  BY <1>9 DEF FillSuper, PlacesSound
<1>10. CASE Destroy(t)
  <2>1. UNCHANGED <<dev, sup, got, misled, goal>> /\ pc' = [pc EXCEPT ![t] = "destroyed"]
        /\ pc[t] = "return" /\ goal[t] \in {"undo", "close"}
        /\ owner' = [owner EXCEPT ![got[t]] = None]
    BY <1>10 DEF Destroy
  <2>2. /\ \A j \in Live' : \E k \in Live : map'[j] = map[k] /\ map[k].bdev # dev[t]
        /\ \A k \in Live : map[k].bdev # dev[t] => \E j \in Live' : map'[j] = map[k]
        /\ owner[got[t]] = dev[t]
    BY <1>10, EntryGoes
  <2>3. \A u \in Threads : u # t => dev[u] # dev[t]
    BY <2>1 DEF DevicesOwned
  <2>4. \A u \in Threads : Missing(u) => Missing(u)'
    BY <2>1, <2>2 DEF Live
  <2>5. \A u \in Threads : u # t /\ ~ Missing(u) => ~ Missing(u)'
    BY <2>1, <2>2, <2>3 DEF Live
  <2>6. Missing(t)'
    BY <2>1, <2>2 DEF Live
  <2> HIDE DEF Missing, Live
  <2> QED BY <2>1, <2>2, <2>3, <2>4, <2>5, <2>6 DEF PlacesSound
<1>11. CASE Closed(t)
  BY <1>11 DEF Closed, PlacesSound
<1> QED BY <1>1, <1>2, <1>3, <1>4, <1>5, <1>6, <1>7, <1>8, <1>9, <1>10, <1>11, <1>12 DEF Step

LEMMA FoundStep ==
  ASSUME MountsAssumption, IndInv, ~ misled, NEW t \in Threads, Step(t)
  PROVE  FoundSound'
<1> USE DEF IndInv, TypeOK, MountsAssumption, Goto, Lookup, Done
<1>1. CASE Find(t)
  BY <1>1 DEF tables, Find, FoundSound, MapSound, Live, Slots
<1>2. CASE Quiet(t) /\ ~ Find(t)
  BY <1>2 DEF tables, Quiet, ReadEntry, UseReturns, Use, InitReturns, InsertFails, NewSuper,
              NoMemoryForSuper, FillFails, FlushReturns, NoCache, Undone, FoundSound
<1>3. CASE MountBegin(t) \/ FillSuper(t) \/ Closed(t)
  BY <1>3 DEF MountBegin, FillSuper, Closed, FoundSound
<1>4. CASE \E s \in Supers : Umount(t, s)
  BY <1>4 DEF Umount, FoundSound
<1>5. CASE Insert(t)
  BY <1>5 DEF Insert, FoundSound, Slots, DevicesOwned
<1>6. CASE Destroy(t)
  <2>1. PICK i \in 1 .. nr : map[i].bdev = dev[t] /\ map' = [map EXCEPT ![i] = map[nr]]
    BY <1>6 DEF Destroy
  <2>2. i \in Slots /\ nr \in Slots /\ map[nr].bc \in Caches
    BY <2>1 DEF Slots, MapSound, Live
  <2> SUFFICES ASSUME NEW u \in Threads, pc'[u] = "found"
               PROVE  /\ idx'[u] \in Slots
                      /\ map'[idx'[u]].bc \in Caches
                      /\ ~ gone'[u] => idx'[u] <= nr'
                      /\ ~ crossed'[u] => /\ map'[idx'[u]].bdev = dev'[u]
                                          /\ owner'[map'[idx'[u]].bc] = dev'[u]
    BY DEF FoundSound
  <2>3. u # t /\ pc[u] = "found" /\ idx'[u] = idx[u] /\ dev'[u] = dev[u] /\ gone'[u]
        /\ crossed'[u] = crossed[u] /\ owner' = [owner EXCEPT ![got[t]] = None]
    BY <1>6 DEF Destroy
  <2>4. idx[u] \in Slots /\ map[idx[u]].bc \in Caches
    BY <2>3 DEF FoundSound
  <2>5. dev[u] # dev[t] /\ owner[got[t]] = dev[t]
    BY <1>6, <2>3, EntryGoes, ZenonT(60) DEF Destroy, DevicesOwned, InCall
  <2>6. CASE crossed[u]
    BY <2>1, <2>2, <2>3, <2>4, <2>6
  <2>7. CASE ~ crossed[u]
    <3>1. map[idx[u]].bdev = dev[u] /\ owner[map[idx[u]].bc] = dev[u]
      BY <2>3, <2>7 DEF FoundSound
    <3>2. idx[u] # i /\ map'[idx[u]] = map[idx[u]]
      BY <2>1, <2>4, <2>5, <3>1
    <3> QED BY <2>3, <2>4, <2>5, <3>1, <3>2
  <2> QED BY <2>6, <2>7
<1> QED BY <1>1, <1>2, <1>3, <1>4, <1>5, <1>6 DEF Step, Quiet

LEMMA RootStep ==
  ASSUME MountsAssumption, IndInv, RootIsCurrent, NEW t \in Threads, Step(t)
  PROVE  RootIsCurrent'
<1> USE DEF IndInv, TypeOK, MountsAssumption
<1>1. CASE inodes' = inodes /\ \A s \in Supers : mounted'[s] # None => mounted'[s] = mounted[s]
  BY <1>1, ZenonT(60) DEF RootIsCurrent
<1>2. CASE Quiet(t)
  BY <1>1, <1>2, QuietKeepsTables DEF tables
<1>3. CASE MountBegin(t) \/ Insert(t) \/ Destroy(t) \/ Closed(t)
  BY <1>1, <1>3 DEF MountBegin, Insert, Destroy, Closed
<1>4. CASE \E s \in Supers : Umount(t, s)
  BY <1>1, <1>4 DEF Umount
<1>5. CASE FillSuper(t)
  <2> DEFINE new == [sb |-> sup[t], id |-> Len(inodes)]
  <2>1. inodes' = <<new>> \o inodes
    BY <1>5 DEF FillSuper, InsertHash
  <2>2. new \in [sb : Supers, id : Nat] /\ Len(inodes) \in Nat
    BY <1>5, FillTakesNewSuper
  <2>3. Len(inodes') = Len(inodes) + 1 /\ inodes'[1] = new
        /\ \A j \in 2 .. Len(inodes) + 1 : inodes'[j] = inodes[j - 1]
    BY <2>1, <2>2
  <2> SUFFICES ASSUME NEW s \in Supers, mounted'[s] # None
               PROVE  \E k \in 1 .. Len(inodes') :
                        /\ inodes'[k] = [sb |-> s, id |-> mounted'[s].root]
                        /\ \A j \in 1 .. k - 1 : inodes'[j].sb # s
    BY DEF RootIsCurrent
  <2>4. CASE s = sup[t]
    <3>1. mounted'[s].root = Len(inodes)
      BY <1>5, <2>4, FillTakesNewSuper
    <3>2. 1 \in 1 .. Len(inodes') /\ inodes'[1] = [sb |-> s, id |-> mounted'[s].root]
      BY <2>2, <2>3, <2>4, <3>1
    <3>3. \A j \in 1 .. 1 - 1 : inodes'[j].sb # s
      OBVIOUS
    <3> QED BY <3>2, <3>3
  <2>5. CASE s # sup[t]
    <3>1. mounted'[s] = mounted[s]
      BY <1>5, <2>5, FillTakesNewSuper
    <3>2. PICK k \in 1 .. Len(inodes) : /\ inodes[k] = [sb |-> s, id |-> mounted[s].root]
                                        /\ \A j \in 1 .. k - 1 : inodes[j].sb # s
      BY <3>1 DEF RootIsCurrent
    <3>3. k + 1 \in 1 .. Len(inodes') /\ inodes'[k + 1] = [sb |-> s, id |-> mounted'[s].root]
      BY <2>2, <2>3, <3>1, <3>2
    <3>4. \A j \in 1 .. k : inodes'[j].sb # s
      <4> SUFFICES ASSUME NEW j \in 1 .. k PROVE inodes'[j].sb # s
        OBVIOUS
      <4>1. CASE j = 1
        BY <4>1, <2>3, <2>5
      <4>2. CASE j # 1
        <5>1. j - 1 \in 1 .. k - 1 /\ j \in 2 .. Len(inodes) + 1
          BY <4>2, <3>2, <2>2
        <5> QED BY <5>1, <2>3, <3>2
      <4> QED BY <4>1, <4>2
    <3> QED BY <3>3, <3>4
  <2> QED BY <2>4, <2>5
<1> QED BY <1>2, <1>3, <1>4, <1>5 DEF Step, Quiet

LEMMA NextKeeps ==
  ASSUME MountsAssumption, IndInv, RootIsCurrent, [Next]_vars
  PROVE  IndInv' /\ RootIsCurrent'
<1>1. CASE UNCHANGED vars
  BY <1>1 DEF vars, tables, threads, IndInv, TypeOK, MapSound, NothingLeaks, DevicesOwned,
              PlacesSound, FoundSound, RootIsCurrent, Live, Missing, InCall
<1>2. CASE Next
  <2>1. PICK t \in Threads : ~ misled /\ Step(t)
    BY <1>2 DEF Next
  <2>2. IndInv'
    BY <2>1, TypeStep, MapStep, LeakStep, OwnersStep, PlacesStep, FoundStep DEF IndInv
  <2> QED BY <2>1, <2>2, RootStep
<1> QED BY <1>1, <1>2

\* The device map, the owners of devices and the places of the threads agree
\* in every state.
THEOREM MountsInvariant == Spec => [](IndInv /\ RootIsCurrent)
<1>1. Init => RootIsCurrent
  BY DEF Init, RootIsCurrent
<1> QED BY <1>1, StartsSound, NextKeeps, MountsAssumption, PTL DEF Spec

\* bcache_init and bcache_destroy keep the map of every device that is open,
\* whatever the number of threads and the limit UFS_MAX_BDEVS.
THEOREM MapIsSound == Spec => []MapSound
BY MountsInvariant, PTL DEF IndInv

\* No failure in ufs_mount, and no unmount, leaves a device open.
THEOREM MountsLeakNothing == Spec => []NothingLeaks
BY MountsInvariant, PTL DEF IndInv

\* bcache_for finds the cache of its own device, although the entry may move
\* between the unlock and the read.
THEOREM LookupsFindOwn == Spec => []LookupOwn
<1>1. IndInv => LookupOwn
  BY DEF IndInv, FoundSound, LookupOwn
<1> QED BY <1>1, MountsInvariant, PTL

\* A root inode left behind by an earlier volume is never found for the volume
\* now mounted at the address of its super block.
THEOREM RootsAreCurrent == Spec => []RootIsCurrent
BY MountsInvariant, PTL

=============================================================================
