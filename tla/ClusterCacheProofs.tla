------------------------- MODULE ClusterCacheProofs -------------------------
(***************************************************************************)
(* The cluster chain cache is right for every number of threads, every     *)
(* chain, every size of the cache and every volume: its entries agree with *)
(* the FAT, nr_caches is exact, and what fat_get_cluster returns is what a *)
(* walk from i_start would have found.                                     *)
(*                                                                         *)
(* A thread holds a position (fclus, dclus) and a run it has collected     *)
(* while other threads change the list and the writer lengthens the chain. *)
(* The invariant says what each of them may rely on where it stands.       *)
(***************************************************************************)
EXTENDS ClusterCache, FiniteSetTheorems, TLAPS

-----------------------------------------------------------------------------
(* What is left of a list when an element is taken out.                    *)

\* The elements of a concatenation.
LEMMA ConcatElements ==
  ASSUME NEW S, NEW l \in Seq(S), NEW r \in Seq(S)
  PROVE  /\ l \o r \in Seq(S)
         /\ Len(l \o r) = Len(l) + Len(r)
         /\ \A j \in 1 .. Len(l) : (l \o r)[j] = l[j]
         /\ \A j \in 1 .. Len(r) : (l \o r)[Len(l) + j] = r[j]
OBVIOUS

\* Where the elements of s are once the one at position i is gone.
LEMMA RemoveAtElements ==
  ASSUME NEW S, NEW s \in Seq(S), NEW i \in 1 .. Len(s)
  PROVE  /\ RemoveAt(s, i) \in Seq(S)
         /\ Len(RemoveAt(s, i)) = Len(s) - 1
         /\ \A j \in 1 .. Len(s) - 1 :
              RemoveAt(s, i)[j] = IF j < i THEN s[j] ELSE s[j + 1]
<1>0. PICK n \in Nat : n = Len(s)
  OBVIOUS
<1>1. PICK l \in Seq(S) : /\ l = SubSeq(s, 1, i - 1)
                          /\ Len(l) = i - 1
                          /\ \A j \in 1 .. i - 1 : l[j] = s[j]
  <2>1. /\ SubSeq(s, 1, i - 1) \in Seq(S)
        /\ Len(SubSeq(s, 1, i - 1)) = i - 1
        /\ \A j \in 1 .. i - 1 : SubSeq(s, 1, i - 1)[j] = s[j]
    BY <1>0
  <2> QED BY <2>1
<1>2. PICK r \in Seq(S) : /\ r = SubSeq(s, i + 1, n)
                          /\ Len(r) = n - i
                          /\ \A j \in 1 .. n - i : r[j] = s[i + j]
  <2>1. /\ SubSeq(s, i + 1, n) \in Seq(S)
        /\ Len(SubSeq(s, i + 1, n)) = n - i
        /\ \A j \in 1 .. n - i : SubSeq(s, i + 1, n)[j] = s[i + j]
    BY <1>0
  <2> QED BY <2>1
<1>3. PICK t : t = l \o r
  OBVIOUS
<1>4. /\ t \in Seq(S)
      /\ Len(t) = n - 1
      /\ \A j \in 1 .. i - 1 : t[j] = s[j]
      /\ \A j \in 1 .. n - i : t[(i - 1) + j] = s[i + j]
  <2>1. /\ t \in Seq(S)
        /\ Len(t) = Len(l) + Len(r)
        /\ \A j \in 1 .. Len(l) : t[j] = l[j]
        /\ \A j \in 1 .. Len(r) : t[Len(l) + j] = r[j]
    BY <1>3, ConcatElements
  <2>2. Len(l) = i - 1 /\ Len(r) = n - i
    BY <1>1, <1>2
  <2>3. Len(t) = n - 1
    BY <2>1, <2>2
  <2>4. \A j \in 1 .. i - 1 : t[j] = s[j]
    BY <1>1, <2>1, <2>2
  <2>5. \A j \in 1 .. n - i : t[(i - 1) + j] = s[i + j]
    BY <1>2, <2>1, <2>2
  <2> QED BY <2>1, <2>3, <2>4, <2>5
<1>5. ASSUME NEW j \in 1 .. n - 1
      PROVE  t[j] = IF j < i THEN s[j] ELSE s[j + 1]
  <2>1. CASE j < i
    BY <1>4, <2>1
  <2>2. CASE ~(j < i)
    <3>1. /\ j - (i - 1) \in 1 .. n - i
          /\ (i - 1) + (j - (i - 1)) = j
          /\ i + (j - (i - 1)) = j + 1
      BY <1>0, <2>2
    <3> QED BY <1>4, <2>2, <3>1
  <2> QED BY <2>1, <2>2
<1>6. t = RemoveAt(s, i)
  BY <1>0, <1>1, <1>2, <1>3 DEF RemoveAt
<1> QED BY <1>0, <1>4, <1>5, <1>6

-----------------------------------------------------------------------------
(* The invariant.                                                          *)

\* The run or entry r agrees with the chain c.
Fits(c, r) ==
  /\ r.f + r.n < Len(c)
  /\ \A k \in 0 .. r.n : c[r.f + k + 1] = r.d + k

\* No two entries start at the same cluster of the file.
StartOnce(l) == \A i, j \in DOMAIN l : l[i].f = l[j].f => i = j

\* What the list is between any two critical sections.
ListSound(l, c) ==
  /\ l \in Seq(Entry)
  /\ StartOnce(l)
  /\ \A i \in DOMAIN l : Fits(c, l[i])

\* A chain without a loop, or one that a walk cannot reach the end of.
ChainSound ==
  \/ IsInjective(chain)
  \/ Consistent(chain) /\ Len(chain) > Limit + 2

Installing == {t \in Threads : pc[t] = "install"}

SlotsSound ==
  /\ nrCaches = Len(list) + Cardinality(Installing)
  /\ nrCaches <= MaxCache

\* The thread stands on the cluster it believes to stand on.
Placed(t) ==
  /\ fclus[t] < Len(chain)
  /\ dclus[t] = chain[fclus[t] + 1]
  /\ fclus[t] <= want[t]

\* The thread has stopped short of its target because the chain ended; the
\* writer, who alone can lengthen it, still stands on the last cluster.
Ended(t) ==
  /\ IsInjective(chain)
  /\ t = Writer => fclus[t] + 1 = Len(chain)

ThreadSound(t) ==
  /\ pc[t] \in {"walk", "add", "install", "found", "eof"} => Placed(t)
  /\ pc[t] = "found" => fclus[t] = want[t]
  /\ pc[t] = "eof" => fclus[t] # want[t]
  /\ pc[t] \in {"add", "install", "eof"} /\ fclus[t] # want[t] => Ended(t)
  /\ pc[t] = "loop" => ~IsInjective(chain)
  /\ cid[t] # NoRun => Fits(chain, cid[t]) /\ pc[t] \in {"walk", "add", "install"}
  /\ pc[t] = "install" => cid[t] # NoRun
  /\ pc[t] = "walk" /\ cid[t] # NoRun /\ fclus[t] # want[t]
       => fclus[t] = cid[t].f + cid[t].n

ThreadsSound == \A t \in Threads : ThreadSound(t)

IndInv ==
  /\ TypeOK
  /\ ChainSound
  /\ ListSound(list, chain)
  /\ SlotsSound
  /\ ThreadsSound

-----------------------------------------------------------------------------
(* The list.                                                               *)

\* Cluster numbers are numbers, none of them FAT_ENT_FREE.
LEMMA ClusterNumbers == Clusters \subseteq Nat /\ 0 \notin Clusters
BY ClusterAssumption

\* A list made of elements of a sound one, each start once, is sound.
LEMMA MadeOfSound ==
  ASSUME NEW c, NEW l, ListSound(l, c),
         NEW m \in Seq(Entry), StartOnce(m),
         \A j \in DOMAIN m : Fits(c, m[j]) \/ \E i \in DOMAIN l : m[j] = l[i]
  PROVE  ListSound(m, c)
BY DEF ListSound

\* fat_cache_update_lru keeps the list sound.
LEMMA FrontKeeps ==
  ASSUME NEW c, NEW l, ListSound(l, c), NEW i \in DOMAIN l
  PROVE  /\ ListSound(MoveToFront(l, i), c)
         /\ Len(MoveToFront(l, i)) = Len(l)
<1>1. PICK m : m = MoveToFront(l, i)
  OBVIOUS
<1>2. PICK r : r = RemoveAt(l, i)
  OBVIOUS
<1>3. l \in Seq(Entry) /\ i \in 1 .. Len(l) /\ l[i] \in Entry
  BY DEF ListSound
<1>4. /\ r \in Seq(Entry)
      /\ Len(r) = Len(l) - 1
      /\ \A j \in 1 .. Len(l) - 1 : r[j] = IF j < i THEN l[j] ELSE l[j + 1]
  BY <1>2, <1>3, RemoveAtElements
<1>5. /\ m \in Seq(Entry)
      /\ Len(m) = Len(l)
      /\ m[1] = l[i]
      /\ \A j \in 2 .. Len(l) : m[j] = r[j - 1]
  BY <1>1, <1>2, <1>3, <1>4 DEF MoveToFront
<1>6. \A j \in 2 .. Len(l) : m[j] = IF j <= i THEN l[j - 1] ELSE l[j]
  <2>1. ASSUME NEW j \in 2 .. Len(l)
        PROVE  m[j] = IF j <= i THEN l[j - 1] ELSE l[j]
    <3>1. j - 1 \in 1 .. Len(l) - 1 /\ (j - 1) + 1 = j /\ (j - 1 < i <=> j <= i)
      BY <1>3
    <3>2. m[j] = r[j - 1]
      BY <1>5
    <3>3. r[j - 1] = IF j - 1 < i THEN l[j - 1] ELSE l[(j - 1) + 1]
      BY <1>4, <3>1
    <3> QED BY <3>1, <3>2, <3>3
  <2> QED BY <2>1
<1>7. DOMAIN m = 1 .. Len(l) /\ DOMAIN l = 1 .. Len(l) /\ Len(l) \in Nat
  BY <1>3, <1>5
<1>8. StartOnce(m)
  <2> DEFINE from(j) == IF j = 1 THEN i ELSE IF j <= i THEN j - 1 ELSE j
  <2>1. \A j \in DOMAIN m : from(j) \in DOMAIN l /\ m[j] = l[from(j)]
    BY <1>3, <1>5, <1>6, <1>7
  <2>2. \A a, b \in DOMAIN m : from(a) = from(b) => a = b
    BY <1>3, <1>7
  <2> HIDE DEF from
  <2> QED BY <2>1, <2>2 DEF StartOnce, ListSound
<1>9. \A j \in DOMAIN m : \E k \in DOMAIN l : m[j] = l[k]
  BY <1>3, <1>5, <1>6, <1>7, SMTT(30)
<1> QED BY <1>1, <1>5, <1>8, <1>9, MadeOfSound

\* list_add of an entry with a new start keeps the list sound.
LEMMA PushKeeps ==
  ASSUME NEW c, NEW l, ListSound(l, c), NEW e \in Entry, Fits(c, e),
         \A i \in DOMAIN l : l[i].f # e.f
  PROVE  /\ ListSound(<<e>> \o l, c)
         /\ Len(<<e>> \o l) = Len(l) + 1
<1>1. PICK m : m = <<e>> \o l
  OBVIOUS
<1>2. l \in Seq(Entry) /\ StartOnce(l)
  BY DEF ListSound
<1>3. /\ m \in Seq(Entry)
      /\ Len(m) = Len(l) + 1
      /\ m[1] = e
      /\ \A j \in 2 .. Len(l) + 1 : m[j] = l[j - 1]
  BY <1>1, <1>2
<1>4. DOMAIN m = 1 .. Len(l) + 1 /\ DOMAIN l = 1 .. Len(l) /\ Len(l) \in Nat
  BY <1>2, <1>3
<1>5. StartOnce(m)
  <2>1. ASSUME NEW a \in DOMAIN m, NEW b \in DOMAIN m, m[a].f = m[b].f
        PROVE  a = b
    <3>1. \A j \in 2 .. Len(l) + 1 : j - 1 \in DOMAIN l /\ m[j] = l[j - 1]
      <4>1. \A j \in 2 .. Len(l) + 1 : j - 1 \in DOMAIN l
        BY <1>4
      <4> QED BY <1>3, <4>1
    <3>4. \A j \in DOMAIN m : j = 1 \/ j \in 2 .. Len(l) + 1
      BY <1>4
    <3>2. CASE a = 1 \/ b = 1
      BY <1>3, <2>1, <3>1, <3>2, <3>4
    <3>3. CASE a # 1 /\ b # 1
      <4>1. a - 1 = b - 1
        BY <1>2, <2>1, <3>1, <3>3, <3>4 DEF StartOnce
      <4> QED BY <1>4, <4>1
    <3> QED BY <3>2, <3>3
  <2> QED BY <2>1 DEF StartOnce
<1>6. \A j \in DOMAIN m : Fits(c, m[j]) \/ \E i \in DOMAIN l : m[j] = l[i]
  BY <1>3, <1>4
<1> QED BY <1>1, <1>3, <1>5, <1>6, MadeOfSound

\* Dropping the tail keeps the list sound.
LEMMA DropKeeps ==
  ASSUME NEW c, NEW l, ListSound(l, c), Len(l) >= 1
  PROVE  /\ ListSound(RemoveAt(l, Len(l)), c)
         /\ Len(RemoveAt(l, Len(l))) = Len(l) - 1
         /\ \A j \in DOMAIN RemoveAt(l, Len(l)) :
              j \in DOMAIN l /\ RemoveAt(l, Len(l))[j] = l[j]
<1>1. PICK m : m = RemoveAt(l, Len(l))
  OBVIOUS
<1>2. l \in Seq(Entry) /\ StartOnce(l) /\ Len(l) \in 1 .. Len(l) /\ Len(l) \in Nat
  BY DEF ListSound
<1>3. /\ m \in Seq(Entry)
      /\ Len(m) = Len(l) - 1
      /\ \A j \in 1 .. Len(l) - 1 :
           m[j] = IF j < Len(l) THEN l[j] ELSE l[j + 1]
  BY <1>1, <1>2, RemoveAtElements
<1>4. DOMAIN m = 1 .. Len(l) - 1 /\ DOMAIN l = 1 .. Len(l)
  BY <1>2, <1>3
<1>5. \A j \in DOMAIN m : j \in DOMAIN l /\ m[j] = l[j]
  BY <1>2, <1>3, <1>4
<1>6. StartOnce(m)
  BY <1>2, <1>4, <1>5 DEF StartOnce
<1> QED BY <1>1, <1>3, <1>5, <1>6, MadeOfSound

\* fat_cache_merge keeps the list sound: the longer of two runs from one place.
LEMMA MergeKeeps ==
  ASSUME NEW c, NEW l, ListSound(l, c), NEW i \in DOMAIN l,
         NEW run \in Run, run.f = l[i].f, Fits(c, run), run # NoRun
  PROVE  LET m == [l EXCEPT ![i].n = IF run.n > @ THEN run.n ELSE @]
         IN  ListSound(m, c) /\ Len(m) = Len(l) /\ i \in DOMAIN m
<1>0. PICK m : m = [l EXCEPT ![i].n = IF run.n > @ THEN run.n ELSE @]
  OBVIOUS
<1>1. l \in Seq(Entry) /\ StartOnce(l) /\ i \in 1 .. Len(l) /\ l[i] \in Entry
  BY DEF ListSound
<1>2. run.n \in Nat /\ run.d \in Clusters
  BY DEF Run, NoRun
<1>3. PICK n \in Nat : n = (IF run.n > l[i].n THEN run.n ELSE l[i].n)
  BY <1>1, <1>2 DEF Entry
<1>4. m = [l EXCEPT ![i] = [l[i] EXCEPT !.n = n]]
  BY <1>0, <1>3
<1>5. [l[i] EXCEPT !.n = n] \in Entry
  BY <1>1, <1>3 DEF Entry
<1>6. /\ m \in Seq(Entry)
      /\ Len(m) = Len(l)
      /\ DOMAIN m = DOMAIN l
      /\ m[i] = [l[i] EXCEPT !.n = n]
      /\ \A j \in DOMAIN l : j # i => m[j] = l[j]
  BY <1>1, <1>4, <1>5
<1>7. \A j \in DOMAIN l : m[j].f = l[j].f
  BY <1>1, <1>6 DEF Entry
<1>8. StartOnce(m)
  BY <1>1, <1>6, <1>7 DEF StartOnce
<1>9. Fits(c, m[i])
  <2>1. m[i].f = l[i].f /\ m[i].d = l[i].d /\ m[i].n = n
    BY <1>1, <1>6 DEF Entry
  <2>2. Fits(c, l[i])
    BY DEF ListSound
  <2>3. CASE run.n > l[i].n
    <3>1. n = run.n
      BY <1>3, <2>3
    <3>2. l[i].d = run.d
      <4>1. 0 \in 0 .. l[i].n /\ 0 \in 0 .. run.n
        BY <1>1, <1>2 DEF Entry
      <4>2. c[l[i].f + 0 + 1] = l[i].d + 0 /\ c[run.f + 0 + 1] = run.d + 0
        BY <2>2, <4>1 DEF Fits
      <4>3. l[i].d \in Nat /\ run.d \in Nat
        <5>1. l[i].d \in Clusters /\ run.d \in Clusters
          BY <1>1, <1>2 DEF Entry
        <5> QED BY <5>1, ClusterNumbers
      <4> QED BY <4>2, <4>3
    <3> QED BY <2>1, <3>1, <3>2 DEF Fits
  <2>4. CASE ~(run.n > l[i].n)
    <3>1. n = l[i].n
      BY <1>3, <2>4
    <3> QED BY <2>1, <2>2, <3>1 DEF Fits
  <2> QED BY <2>3, <2>4
<1>10. \A j \in DOMAIN m : Fits(c, m[j]) \/ \E k \in DOMAIN l : m[j] = l[k]
  BY <1>6, <1>9
<1>11. ListSound(m, c)
  BY <1>6, <1>8, <1>10, MadeOfSound
<1> QED BY <1>0, <1>1, <1>6, <1>11

\* A chain that grows at its end still agrees with what agreed before.
LEMMA FitsGrown ==
  ASSUME NEW c \in Seq(Clusters), NEW new \in Clusters,
         NEW r, r.f \in Nat, r.n \in Nat, Fits(c, r)
  PROVE  Fits(Append(c, new), r)
<1>1. /\ Len(Append(c, new)) = Len(c) + 1
      /\ \A j \in 1 .. Len(c) : Append(c, new)[j] = c[j]
  OBVIOUS
<1>2. \A k \in 0 .. r.n : r.f + k + 1 \in 1 .. Len(c)
  BY DEF Fits
<1> QED BY <1>1, <1>2 DEF Fits

-----------------------------------------------------------------------------
(* The chain and the places of the threads.                                *)

\* A chain without a loop has no more clusters than the volume.
LEMMA ChainFits ==
  ASSUME chain \in Seq(Clusters), IsInjective(chain)
  PROVE  Len(chain) <= Limit
<1>1. chain \in Injection(1 .. Len(chain), Clusters)
  BY DEF Injection
<1>2. IsFiniteSet(Clusters) /\ Cardinality(Clusters) <= Limit /\ Limit \in Nat
  BY ClusterAssumption
<1>3. Len(chain) \in Nat
  OBVIOUS
<1>4. Cardinality(1 .. Len(chain)) <= Cardinality(Clusters)
  BY <1>1, <1>2, FS_Injection
<1>5. Cardinality(1 .. Len(chain)) = Len(chain)
  <2>1. 1 \in Int /\ Len(chain) \in Int
    BY <1>3
  <2>2. Cardinality(1 .. Len(chain)) = IF 1 > Len(chain) THEN 0 ELSE Len(chain) - 1 + 1
    BY <2>1, FS_Interval
  <2> QED BY <1>3, <2>2
<1>6. Cardinality(Clusters) \in Nat
  BY <1>2, FS_CardinalityType
<1> QED BY <1>2, <1>3, <1>4, <1>5, <1>6

\* While a thread has not passed the limit, reading the entry of the cluster
\* it stands on takes it to the next cluster of the file.
LEMMA NextCluster ==
  ASSUME TypeOK, ChainSound, NEW t \in Threads, Placed(t), ~PastLimit(t),
         NEW j \in 1 .. Len(chain) - 1, chain[j] = dclus[t]
  PROVE  /\ fclus[t] + 1 < Len(chain)
         /\ chain[j + 1] = chain[fclus[t] + 2]
<1>1. chain \in Seq(Clusters) /\ fclus[t] \in Nat /\ Limit \in Nat
  BY ClusterAssumption DEF TypeOK
<1>2. fclus[t] + 1 \in 1 .. Len(chain) /\ chain[j] = chain[fclus[t] + 1]
  BY <1>1 DEF Placed
<1>3. CASE IsInjective(chain)
  <2>1. j = fclus[t] + 1
    BY <1>1, <1>2, <1>3 DEF IsInjective
  <2> QED BY <1>1, <2>1
<1>4. CASE Consistent(chain) /\ Len(chain) > Limit + 2
  <2>1. fclus[t] + 1 \in 1 .. Len(chain) - 1
    BY <1>1, <1>4 DEF PastLimit
  <2>2. chain[j + 1] = chain[fclus[t] + 1 + 1]
    BY <1>2, <1>4, <2>1 DEF Consistent
  <2> QED BY <1>1, <2>1, <2>2
<1> QED BY <1>3, <1>4 DEF ChainSound

\* A thread below the limit whose cluster has no next one stands on the last
\* cluster of a chain without a loop.
LEMMA NoNextCluster ==
  ASSUME TypeOK, ChainSound, NEW t \in Threads, Placed(t), ~PastLimit(t),
         \A j \in 1 .. Len(chain) - 1 : chain[j] # dclus[t]
  PROVE  IsInjective(chain) /\ fclus[t] + 1 = Len(chain)
<1>1. chain \in Seq(Clusters) /\ fclus[t] \in Nat /\ Limit \in Nat
  BY ClusterAssumption DEF TypeOK
<1>2. fclus[t] + 1 = Len(chain)
  BY <1>1 DEF Placed
<1>3. ~(Len(chain) > Limit + 2)
  BY <1>1, <1>2 DEF PastLimit
<1> QED BY <1>2, <1>3 DEF ChainSound

\* A step that leaves the chain and the locals of a thread alone.
LEMMA Undisturbed ==
  ASSUME NEW t \in Threads, ThreadSound(t), UNCHANGED chain,
         pc'[t] = pc[t], want'[t] = want[t], fclus'[t] = fclus[t],
         dclus'[t] = dclus[t], cid'[t] = cid[t]
  PROVE  ThreadSound(t)'
BY DEF ThreadSound, Placed, Ended

\* Only t moves: the other threads keep what they rely on.
LEMMA OthersKeep ==
  ASSUME TypeOK, ThreadsSound, NEW t \in Threads, UNCHANGED chain,
         \A u \in Threads \ {t} :
           /\ pc'[u] = pc[u] /\ want'[u] = want[u] /\ fclus'[u] = fclus[u]
           /\ dclus'[u] = dclus[u] /\ cid'[u] = cid[u],
         ThreadSound(t)'
  PROVE  ThreadsSound'
<1>1. ASSUME NEW u \in Threads \ {t} PROVE ThreadSound(u)'
  BY <1>1, Undisturbed DEF ThreadsSound
<1> QED BY <1>1 DEF ThreadsSound

\* The reserved slots while nobody reserves or gives back one.
LEMMA SameInstalling ==
  ASSUME \A t \in Threads : pc'[t] = "install" <=> pc[t] = "install"
  PROVE  Installing' = Installing
BY DEF Installing

\* A thread that starts or ends an installation.
LEMMA InstallingStarts ==
  ASSUME TypeOK, NEW t \in Threads, pc[t] # "install", Goto(t, "install")
  PROVE  Cardinality(Installing') = Cardinality(Installing) + 1
<1>1. Installing' = Installing \cup {t} /\ t \notin Installing
  BY DEF TypeOK, Goto, Installing
<1>2. IsFiniteSet(Installing)
  BY FS_Subset, ClusterAssumption DEF Installing
<1> QED BY <1>1, <1>2, FS_AddElement

LEMMA InstallingEnds ==
  ASSUME TypeOK, NEW t \in Threads, pc[t] = "install",
         NEW place, place # "install", Goto(t, place)
  PROVE  Cardinality(Installing') = Cardinality(Installing) - 1
<1>1. Installing' = Installing \ {t} /\ t \in Installing
  BY DEF TypeOK, Goto, Installing
<1>2. IsFiniteSet(Installing)
  BY FS_Subset, ClusterAssumption DEF Installing
<1> QED BY <1>1, <1>2, FS_RemoveElement

\* A thread that finds every slot taken finds an entry to reuse: the others
\* cannot have reserved them all.
LEMMA TailExists ==
  ASSUME TypeOK, SlotsSound, NEW t \in Threads, pc[t] # "install",
         nrCaches >= MaxCache
  PROVE  Len(list) >= 1
<1>1. /\ IsFiniteSet(Threads)
      /\ MaxCache \in Nat /\ Cardinality(Threads) <= MaxCache
  BY ClusterAssumption
<1>2. IsFiniteSet(Threads \ {t}) /\ Cardinality(Threads \ {t}) = Cardinality(Threads) - 1
  BY <1>1, FS_RemoveElement
<1>3. Installing \in SUBSET (Threads \ {t})
  BY DEF Installing
<1>4. Cardinality(Installing) <= Cardinality(Threads \ {t}) /\ IsFiniteSet(Installing)
  BY <1>2, <1>3, FS_Subset
<1>5. Cardinality(Installing) \in Nat /\ Cardinality(Threads) \in Nat
  BY <1>1, <1>4, FS_CardinalityType
<1>6. Len(list) \in Nat /\ nrCaches \in Nat
  BY DEF TypeOK
<1> QED BY <1>1, <1>2, <1>4, <1>5, <1>6 DEF SlotsSound

-----------------------------------------------------------------------------
(* The invariant is inductive, one action at a time.                       *)

LEMMA InitSound == Init => IndInv
<1> SUFFICES ASSUME Init PROVE IndInv
  OBVIOUS
<1> USE DEF Init
<1>1. TypeOK
  BY ClusterAssumption DEF TypeOK, AtRest, Run, AlwaysValid
<1>2. ChainSound
  BY ClusterAssumption DEF ChainSound, Plausible
<1>3. ListSound(list, chain)
  BY DEF ListSound, StartOnce
<1>4. SlotsSound
  <2>1. Installing = {}
    BY DEF Installing
  <2> QED BY <2>1, FS_EmptySet, ClusterAssumption DEF SlotsSound
<1>5. ThreadsSound
  BY DEF ThreadsSound, ThreadSound
<1> QED BY <1>1, <1>2, <1>3, <1>4, <1>5 DEF IndInv

\* A call that gives up forgets where it was.
LEMMA AbandonKeeps ==
  ASSUME IndInv, NEW t \in Threads, NEW place \in {"idle", "error", "loop"},
         Abandon(t, place), place = "loop" => ~IsInjective(chain),
         pc[t] # "install", UNCHANGED <<chain, list, nrCaches, validId>>
  PROVE  IndInv'
<1>1. TypeOK'
  BY DEF IndInv, TypeOK, Abandon, Goto, AtRest, Run
<1>2. Installing' = Installing
  BY SameInstalling DEF IndInv, TypeOK, Abandon, Goto
<1>3. ThreadSound(t)'
  BY DEF IndInv, TypeOK, Abandon, Goto, ThreadSound
<1>4. ThreadsSound'
  BY <1>3, OthersKeep DEF IndInv, TypeOK, Abandon, Goto
<1> QED BY <1>1, <1>2, <1>4 DEF IndInv, ChainSound, SlotsSound

LEMMA GetFirstKeeps ==
  ASSUME IndInv, NEW t \in Threads, GetFirst(t)
  PROVE  IndInv'
<1> USE DEF IndInv, GetFirst, Goto
<1>1. chain \in Seq(Clusters) /\ chain # <<>>
  BY DEF TypeOK
<1>2. chain[1] \in Clusters /\ 0 < Len(chain)
  BY <1>1
<1>3. TypeOK'
  BY <1>2 DEF TypeOK, AtRest
<1>4. Installing' = Installing
  BY SameInstalling DEF TypeOK, AtRest
<1>5. ThreadSound(t)'
  <2>1. cid[t] = NoRun
    BY DEF ThreadsSound, ThreadSound, AtRest
  <2>2. pc'[t] = "found" /\ want'[t] = 0 /\ fclus'[t] = 0 /\ dclus'[t] = chain[1]
        /\ cid'[t] = NoRun
    BY <2>1 DEF TypeOK
  <2> QED BY <1>2, <2>2 DEF ThreadSound, Placed
<1>6. ThreadsSound'
  BY <1>5, OthersKeep DEF TypeOK
<1> QED BY <1>3, <1>4, <1>6 DEF ChainSound, SlotsSound

\* fat_cache_lookup leaves the thread on a cluster of the chain no further
\* than the one it wants, with a run that ends there or covers the target.
LEMMA LookupKeeps ==
  ASSUME IndInv, NEW t \in Threads, NEW k \in Nat, Lookup(t, k)
  PROVE  IndInv'
<1> USE DEF Lookup, Goto
<1>1. /\ TypeOK
      /\ chain \in Seq(Clusters) /\ chain # <<>>
      /\ chain[1] \in Clusters /\ 0 < Len(chain)
      /\ ListSound(list, chain)
  BY DEF IndInv, TypeOK
<1>2. Installing' = Installing
  BY <1>1, SameInstalling DEF TypeOK, AtRest
<1>3. CASE LookupHits(t, k)
  <2>1. PICK i \in DOMAIN list :
          LET off == IF Covers(i, k) THEN k - list[i].f ELSE list[i].n IN
          /\ IsHit(i, k)
          /\ list' = MoveToFront(list, i)
          /\ fclus' = [fclus EXCEPT ![t] = list[i].f + off]
          /\ dclus' = [dclus EXCEPT ![t] = list[i].d + off]
          /\ cid' = [cid EXCEPT ![t] = [f |-> list[i].f, d |-> list[i].d,
                                        n |-> list[i].n, id |-> validId]]
    BY <1>3 DEF LookupHits
  <2>2. PICK e \in Entry : e = list[i]
    BY <1>1 DEF TypeOK
  <2>3. Fits(chain, e) /\ e.f <= k
    BY <1>1, <2>1, <2>2 DEF ListSound, IsHit, Closer
  <2>4. e.f \in Nat \ {0} /\ e.d \in Clusters /\ e.d \in Nat /\ e.n \in Nat
    BY <2>2, ClusterNumbers DEF Entry
  <2>5. PICK off \in 0 .. e.n :
          /\ e.f + off <= k
          /\ e.f + off = k \/ off = e.n
          /\ fclus' = [fclus EXCEPT ![t] = e.f + off]
          /\ dclus' = [dclus EXCEPT ![t] = e.d + off]
    <3>1. CASE Covers(i, k)
      <4>1. k - e.f \in 0 .. e.n /\ e.f + (k - e.f) = k
        BY <2>2, <2>3, <2>4, <3>1 DEF Covers
      <4>2. /\ fclus' = [fclus EXCEPT ![t] = e.f + (k - e.f)]
            /\ dclus' = [dclus EXCEPT ![t] = e.d + (k - e.f)]
        BY <2>1, <2>2, <3>1
      <4>3. e.f + (k - e.f) <= k
        BY <4>1
      <4> QED BY <4>1, <4>2, <4>3
    <3>2. CASE ~Covers(i, k)
      <4>1. e.n \in 0 .. e.n /\ e.f + e.n <= k
        BY <2>2, <2>4, <3>2 DEF Covers
      <4> QED BY <2>1, <2>2, <3>2, <4>1
    <3> QED BY <3>1, <3>2
  <2>6. e.f + off < Len(chain) /\ e.d + off = chain[e.f + off + 1]
    BY <1>1, <2>3, <2>4, <2>5 DEF Fits
  <2>7. e.f + off \in Nat /\ e.d + off \in Clusters
    BY <1>1, <2>4, <2>5, <2>6
  <2>8. PICK run : run = [f |-> e.f, d |-> e.d, n |-> e.n, id |-> validId]
    OBVIOUS
  <2>9. /\ run \in Run
        /\ Fits(chain, run)
        /\ run.f = e.f /\ run.n = e.n
        /\ cid' = [cid EXCEPT ![t] = run]
    BY <1>1, <2>1, <2>2, <2>3, <2>4, <2>8 DEF Run, Fits, TypeOK
  <2>10. ListSound(list', chain) /\ Len(list') = Len(list)
    BY <1>1, <2>1, FrontKeeps
  <2>11. TypeOK'
    BY <1>1, <2>5, <2>7, <2>9, <2>10 DEF TypeOK, ListSound
  <2>12. ThreadSound(t)'
    <3>1. /\ pc'[t] = "walk" /\ want'[t] = k /\ fclus'[t] = e.f + off
          /\ dclus'[t] = e.d + off /\ cid'[t] = run
      BY <1>1, <2>5, <2>9 DEF TypeOK
    <3> QED BY <2>5, <2>6, <2>9, <3>1 DEF ThreadSound, Placed
  <2>13. ThreadsSound'
    BY <1>1, <2>5, <2>9, <2>12, OthersKeep DEF IndInv, TypeOK
  <2> QED BY <1>1, <1>2, <2>10, <2>11, <2>13 DEF IndInv, ChainSound, SlotsSound
<1>4. CASE LookupMisses(t, k)
  <2>1. TypeOK'
    BY <1>1, <1>4 DEF TypeOK, LookupMisses, Run
  <2>2. ThreadSound(t)'
    <3>1. /\ pc'[t] = "walk" /\ want'[t] = k /\ fclus'[t] = 0
          /\ dclus'[t] = chain[1] /\ cid'[t] = NoRun
      BY <1>1, <1>4 DEF TypeOK, LookupMisses
    <3> QED BY <1>1, <3>1 DEF ThreadSound, Placed
  <2>3. ThreadsSound'
    BY <1>1, <1>4, <2>2, OthersKeep DEF IndInv, TypeOK, LookupMisses
  <2> QED BY <1>1, <1>2, <1>4, <2>1, <2>3
       DEF IndInv, ChainSound, SlotsSound, LookupMisses
<1> QED BY <1>3, <1>4

\* The run of a thread that follows the chain grows with it, or starts anew.
LEMMA CollectFits ==
  ASSUME chain \in Seq(Clusters), NEW run \in Run, NEW k \in Nat \ {0},
         k < Len(chain),
         run # NoRun => Fits(chain, run) /\ k = run.f + run.n + 1
  PROVE  LET new == Collect(run, k, chain[k + 1])
         IN  new \in Run /\ new # NoRun /\ Fits(chain, new) /\ k = new.f + new.n
<1>1. PICK d \in Clusters : d = chain[k + 1] /\ d \in Nat /\ d # 0
  <2>1. chain[k + 1] \in Clusters
    OBVIOUS
  <2> QED BY <2>1, ClusterNumbers
<1>2. CASE run.d + run.n + 1 = d
  <2>1. run # NoRun
    BY <1>1, <1>2 DEF NoRun
  <2>2. /\ run.f \in Nat \ {0} /\ run.d \in Clusters /\ run.n \in Nat /\ run.id \in Nat
        /\ run \in [f : Nat \ {0}, d : Clusters, n : Nat, id : Nat]
    BY <2>1 DEF Run
  <2>3. PICK new : new = [run EXCEPT !.n = @ + 1]
    OBVIOUS
  <2>4. /\ new \in [f : Nat \ {0}, d : Clusters, n : Nat, id : Nat]
        /\ new.f = run.f /\ new.d = run.d /\ new.n = run.n + 1
    BY <2>2, <2>3
  <2>5. new.f + new.n < Len(chain) /\ k = new.f + new.n
    BY <2>1, <2>2, <2>4
  <2>6. ASSUME NEW m \in 0 .. new.n PROVE chain[new.f + m + 1] = new.d + m
    <3>1. CASE m \in 0 .. run.n
      BY <2>1, <2>4, <3>1 DEF Fits
    <3>2. CASE m = new.n
      <4>1. new.f + m + 1 = k + 1
        BY <2>5, <3>2
      <4>2. run.d + (run.n + 1) = d
        <5>1. run.d \in Nat
          BY <2>2, ClusterNumbers
        <5> QED BY <1>2, <2>2, <5>1
      <4> QED BY <1>1, <2>4, <3>2, <4>1, <4>2
    <3> QED BY <2>2, <2>4, <3>1, <3>2
  <2>7. Fits(chain, new)
    BY <2>5, <2>6 DEF Fits
  <2>8. new # NoRun
    BY <2>4 DEF NoRun
  <2> QED BY <1>1, <1>2, <2>3, <2>4, <2>5, <2>7, <2>8 DEF Collect, Run
<1>3. CASE ~(run.d + run.n + 1 = d)
  <2>1. PICK new : new = [f |-> k, d |-> d, n |-> 0, id |-> AlwaysValid]
    OBVIOUS
  <2>2. new.f = k /\ new.d = d /\ new.n = 0
    BY <2>1
  <2>3. Fits(chain, new)
    <3>1. chain[k + 0 + 1] = d + 0
      BY <1>1
    <3>2. \A m \in 0 .. 0 : m = 0
      OBVIOUS
    <3> QED BY <2>2, <3>1, <3>2 DEF Fits
  <2>4. new \in Run /\ new # NoRun
    BY <1>1, <2>1, <2>2 DEF Run, NoRun, AlwaysValid
  <2> QED BY <1>1, <1>3, <2>1, <2>2, <2>3, <2>4 DEF Collect
<1> QED BY <1>2, <1>3

LEMMA FollowKeeps ==
  ASSUME IndInv, NEW t \in Threads, Follow(t)
  PROVE  IndInv'
<1>1. /\ TypeOK /\ ChainSound /\ ThreadSound(t)
      /\ chain \in Seq(Clusters) /\ fclus[t] \in Nat /\ cid[t] \in Run
      /\ want[t] \in Nat
  BY DEF IndInv, TypeOK, ThreadsSound
<1>2. pc[t] = "walk" /\ fclus[t] < want[t] /\ ~PastLimit(t) /\ Placed(t)
  BY <1>1 DEF Follow, ThreadSound
<1>3. PICK j \in 1 .. Len(chain) - 1 :
        /\ chain[j] = dclus[t]
        /\ dclus' = [dclus EXCEPT ![t] = chain[j + 1]]
        /\ cid' = [cid EXCEPT ![t] = Collect(@, fclus[t] + 1, chain[j + 1])]
  BY DEF Follow
<1>4. PICK k \in Nat \ {0} : k = fclus[t] + 1
  BY <1>1
<1>5. k < Len(chain) /\ chain[j + 1] = chain[k + 1]
  <2>1. k + 1 = fclus[t] + 2
    BY <1>1, <1>4
  <2> QED BY <1>1, <1>2, <1>3, <1>4, <2>1, NextCluster
<1>6. PICK run : run = Collect(cid[t], k, chain[k + 1])
  OBVIOUS
<1>7. run \in Run /\ run # NoRun /\ Fits(chain, run) /\ k = run.f + run.n
  <2>1. cid[t] # NoRun => Fits(chain, cid[t]) /\ k = cid[t].f + cid[t].n + 1
    BY <1>1, <1>2, <1>4 DEF ThreadSound, Run
  <2> QED BY <1>1, <1>5, <1>6, <2>1, CollectFits
<1>8. /\ dclus' = [dclus EXCEPT ![t] = chain[k + 1]]
      /\ fclus' = [fclus EXCEPT ![t] = k]
      /\ cid' = [cid EXCEPT ![t] = run]
      /\ UNCHANGED <<chain, list, nrCaches, validId, pc, want>>
  BY <1>3, <1>4, <1>5, <1>6 DEF Follow
<1>9. chain[k + 1] \in Clusters
  BY <1>1, <1>5
<1>10. TypeOK'
  BY <1>1, <1>7, <1>8, <1>9 DEF TypeOK
<1>11. ThreadSound(t)'
  <2>1. /\ pc'[t] = "walk" /\ want'[t] = want[t] /\ fclus'[t] = k
        /\ dclus'[t] = chain[k + 1] /\ cid'[t] = run /\ chain' = chain
    BY <1>1, <1>2, <1>8 DEF TypeOK
  <2>2. k <= want[t]
    BY <1>1, <1>2, <1>4
  <2> QED BY <1>5, <1>7, <2>1, <2>2 DEF ThreadSound, Placed
<1>12. ThreadsSound'
  BY <1>1, <1>8, <1>11, OthersKeep DEF IndInv, TypeOK
<1>13. Installing' = Installing
  BY <1>8, SameInstalling
<1> QED BY <1>8, <1>10, <1>12, <1>13 DEF IndInv, ChainSound, SlotsSound

LEMMA LeaveLoopKeeps ==
  ASSUME IndInv, NEW t \in Threads, LeaveLoop(t)
  PROVE  IndInv'
<1>1. /\ TypeOK /\ ChainSound /\ ThreadSound(t)
      /\ pc[t] = "walk" /\ Placed(t)
  BY DEF IndInv, ThreadsSound, LeaveLoop, ThreadSound
<1>2. /\ pc' = [pc EXCEPT ![t] = "add"]
      /\ UNCHANGED <<chain, list, nrCaches, validId, want, fclus, dclus, cid>>
  BY DEF LeaveLoop, Goto
<1>3. fclus[t] # want[t] => Ended(t)
  BY <1>1, NoNextCluster DEF LeaveLoop, Ended
<1>4. TypeOK'
  BY <1>1, <1>2 DEF TypeOK
<1>5. ThreadSound(t)'
  <2>1. pc'[t] = "add"
    BY <1>1, <1>2 DEF TypeOK
  <2> QED BY <1>1, <1>2, <1>3, <2>1 DEF ThreadSound, Placed, Ended
<1>6. ThreadsSound'
  BY <1>1, <1>2, <1>5, OthersKeep DEF IndInv, TypeOK
<1>7. Installing' = Installing
  BY <1>1, <1>2, SameInstalling DEF TypeOK
<1> QED BY <1>2, <1>4, <1>6, <1>7 DEF IndInv, ChainSound, SlotsSound

\* Past the limit only a chain with a loop goes on.
LEMMA GiveUpKeeps ==
  ASSUME IndInv, NEW t \in Threads, GiveUp(t)
  PROVE  IndInv'
<1>1. /\ chain \in Seq(Clusters) /\ fclus[t] \in Nat /\ Limit \in Nat
      /\ pc[t] = "walk" /\ fclus[t] < Len(chain) /\ fclus[t] > Limit
  BY ClusterAssumption
     DEF IndInv, TypeOK, ThreadsSound, ThreadSound, Placed, GiveUp, PastLimit
<1>2. ~IsInjective(chain)
  BY <1>1, ChainFits
<1> QED BY <1>1, <1>2, AbandonKeeps DEF GiveUp

\* fat_cache_merge and the move to the front after it.
LEMMA MergeSound ==
  ASSUME ListSound(list, chain), NEW run \in Run, run # NoRun,
         Fits(chain, run), Merge(run)
  PROVE  ListSound(list', chain) /\ Len(list') = Len(list)
<1>1. PICK i \in DOMAIN list :
        /\ list[i].f = run.f
        /\ list' = MoveToFront(
                     [list EXCEPT ![i].n = IF run.n > @ THEN run.n ELSE @], i)
  BY DEF Merge
<1>2. PICK m : m = [list EXCEPT ![i].n = IF run.n > @ THEN run.n ELSE @]
  OBVIOUS
<1>3. ListSound(m, chain) /\ Len(m) = Len(list) /\ i \in DOMAIN m
  BY <1>1, <1>2, MergeKeeps
<1>4. list' = MoveToFront(m, i)
  BY <1>1, <1>2
<1> QED BY <1>3, <1>4, FrontKeeps

\* A collected run as an entry.
LEMMA EntryFits ==
  ASSUME NEW run \in Run, run # NoRun, Fits(chain, run)
  PROVE  EntryOf(run) \in Entry /\ Fits(chain, EntryOf(run)) /\ EntryOf(run).f = run.f
BY DEF EntryOf, Entry, Run, Fits

\* The end of a call that succeeds.
LEMMA ReturnKeeps ==
  ASSUME IndInv, NEW t \in Threads, pc[t] \in {"add", "install"},
         Return(t), UNCHANGED <<chain, validId>>,
         ListSound(list', chain), nrCaches' \in Nat, SlotsSound'
  PROVE  IndInv'
<1>1. /\ pc' = [pc EXCEPT ![t] = IF fclus[t] = want[t] THEN "found" ELSE "eof"]
      /\ cid' = [cid EXCEPT ![t] = NoRun]
      /\ UNCHANGED <<chain, validId, want, fclus, dclus>>
  BY DEF Return, Goto
<1>2. TypeOK /\ ThreadSound(t)
  BY DEF IndInv, ThreadsSound
<1>3. TypeOK'
  BY <1>1, <1>2 DEF TypeOK, AtRest, ListSound, Run
<1>4. ThreadSound(t)'
  <2>1. /\ pc'[t] = IF fclus[t] = want[t] THEN "found" ELSE "eof"
        /\ cid'[t] = NoRun
    BY <1>1, <1>2 DEF TypeOK
  <2> QED BY <1>1, <1>2, <2>1 DEF ThreadSound, Placed, Ended
<1>5. ThreadsSound'
  BY <1>1, <1>2, <1>4, OthersKeep DEF IndInv, TypeOK
<1> QED BY <1>1, <1>3, <1>5 DEF IndInv, ChainSound

LEMMA AddToCacheKeeps ==
  ASSUME IndInv, NEW t \in Threads, AddToCache(t)
  PROVE  IndInv'
<1>1. /\ TypeOK /\ ListSound(list, chain) /\ SlotsSound /\ ThreadSound(t)
      /\ pc[t] = "add" /\ UNCHANGED <<chain, validId>>
      /\ cid[t] \in Run /\ nrCaches \in Nat /\ Len(list) \in Nat
      /\ MaxCache \in Nat
  BY ClusterAssumption DEF IndInv, ThreadsSound, AddToCache, TypeOK
<1>2. ~Useless(cid[t]) => cid[t] # NoRun /\ Fits(chain, cid[t])
  BY <1>1 DEF Useless, NoRun, ThreadSound
<1>3. Return(t) => Installing' = Installing
  BY <1>1, SameInstalling DEF Return, Goto, TypeOK
<1>4. CASE Useless(cid[t]) /\ Return(t) /\ UNCHANGED <<list, nrCaches>>
  BY <1>1, <1>3, <1>4, ReturnKeeps DEF SlotsSound
<1>5. CASE ~Useless(cid[t]) /\ Merge(cid[t]) /\ Return(t) /\ UNCHANGED nrCaches
  <2>1. ListSound(list', chain) /\ Len(list') = Len(list)
    BY <1>1, <1>2, <1>5, MergeSound
  <2> QED BY <1>1, <1>3, <1>5, <2>1, ReturnKeeps DEF SlotsSound
<1>6. CASE /\ ~Useless(cid[t]) /\ NoMerge(cid[t])
           /\ nrCaches < MaxCache
           /\ nrCaches' = nrCaches + 1
           /\ Goto(t, "install")
           /\ UNCHANGED <<list, want, fclus, dclus, cid>>
  <2>1. SlotsSound'
    <3>1. Cardinality(Installing') = Cardinality(Installing) + 1
      BY <1>1, <1>6, InstallingStarts
    <3>2. Cardinality(Installing) \in Nat
      BY FS_Subset, FS_CardinalityType, ClusterAssumption DEF Installing
    <3> QED BY <1>1, <1>6, <3>1, <3>2 DEF SlotsSound
  <2>2. TypeOK'
    BY <1>1, <1>6 DEF TypeOK, Goto
  <2>3. ThreadSound(t)'
    <3>1. pc'[t] = "install" /\ UNCHANGED <<chain, want, fclus, dclus, cid>>
      BY <1>1, <1>6 DEF TypeOK, Goto
    <3> QED BY <1>1, <1>2, <1>6, <3>1 DEF ThreadSound, Placed, Ended
  <2>4. ThreadsSound'
    BY <1>1, <1>6, <2>3, OthersKeep DEF IndInv, TypeOK, Goto
  <2> QED BY <1>1, <1>6, <2>1, <2>2, <2>4 DEF IndInv, ChainSound
<1>7. CASE /\ ~Useless(cid[t]) /\ NoMerge(cid[t])
           /\ nrCaches >= MaxCache
           /\ list' = <<EntryOf(cid[t])>> \o RemoveAt(list, Len(list))
           /\ Return(t)
           /\ UNCHANGED nrCaches
  <2>1. Len(list) >= 1
    BY <1>1, <1>7, TailExists
  <2>2. PICK l : l = RemoveAt(list, Len(list))
    OBVIOUS
  <2>3. /\ ListSound(l, chain)
        /\ Len(l) = Len(list) - 1
        /\ \A j \in DOMAIN l : j \in DOMAIN list /\ l[j] = list[j]
    BY <1>1, <2>1, <2>2, DropKeeps
  <2>4. PICK e \in Entry : e = EntryOf(cid[t]) /\ Fits(chain, e) /\ e.f = cid[t].f
    BY <1>1, <1>2, <1>7, EntryFits
  <2>5. \A i \in DOMAIN l : l[i].f # e.f
    BY <1>7, <2>3, <2>4 DEF NoMerge
  <2>6. ListSound(list', chain) /\ Len(list') = Len(l) + 1
    BY <1>7, <2>2, <2>3, <2>4, <2>5, PushKeeps
  <2>7. SlotsSound'
    BY <1>1, <1>3, <1>7, <2>3, <2>6 DEF SlotsSound
  <2> QED BY <1>1, <1>7, <2>6, <2>7, ReturnKeeps
<1> QED BY <1>4, <1>5, <1>6, <1>7 DEF AddToCache

LEMMA InstallEntryKeeps ==
  ASSUME IndInv, NEW t \in Threads, InstallEntry(t)
  PROVE  IndInv'
<1>1. /\ TypeOK /\ ListSound(list, chain) /\ SlotsSound /\ ThreadSound(t)
      /\ pc[t] = "install" /\ Return(t) /\ UNCHANGED <<chain, validId>>
      /\ cid[t] \in Run /\ nrCaches \in Nat /\ Len(list) \in Nat
      /\ MaxCache \in Nat
  BY ClusterAssumption DEF IndInv, ThreadsSound, InstallEntry, TypeOK
<1>2. cid[t] # NoRun /\ Fits(chain, cid[t])
  BY <1>1 DEF ThreadSound
<1>3. Cardinality(Installing') = Cardinality(Installing) - 1
  <2>1. PICK place : place # "install" /\ Goto(t, place)
    BY <1>1 DEF Return
  <2> QED BY <1>1, <2>1, InstallingEnds
<1>4. Cardinality(Installing) \in Nat /\ Cardinality(Installing') \in Nat
  <2>1. IsFiniteSet(Installing) /\ IsFiniteSet(Installing')
    BY FS_Subset, ClusterAssumption DEF Installing
  <2> QED BY <2>1, FS_CardinalityType
<1>5. CASE nrCaches' = nrCaches - 1 /\ ListSound(list', chain) /\ Len(list') = Len(list)
  <2>1. SlotsSound' /\ nrCaches' \in Nat
    BY <1>1, <1>3, <1>4, <1>5 DEF SlotsSound
  <2> QED BY <1>1, <1>5, <2>1, ReturnKeeps
<1>6. CASE /\ NoMerge(cid[t])
           /\ list' = <<EntryOf(cid[t])>> \o list
           /\ UNCHANGED nrCaches
  <2>1. PICK e \in Entry : e = EntryOf(cid[t]) /\ Fits(chain, e) /\ e.f = cid[t].f
    BY <1>1, <1>2, EntryFits
  <2>2. ListSound(list', chain) /\ Len(list') = Len(list) + 1
    BY <1>1, <1>6, <2>1, PushKeeps DEF NoMerge
  <2>3. SlotsSound'
    BY <1>1, <1>3, <1>4, <1>6, <2>2 DEF SlotsSound
  <2> QED BY <1>1, <1>6, <2>2, <2>3, ReturnKeeps
<1>7. \/ nrCaches' = nrCaches - 1 /\ UNCHANGED list
      \/ Merge(cid[t]) /\ nrCaches' = nrCaches - 1
      \/ NoMerge(cid[t]) /\ list' = <<EntryOf(cid[t])>> \o list /\ UNCHANGED nrCaches
  BY DEF InstallEntry
<1>8. CASE nrCaches' = nrCaches - 1 /\ UNCHANGED list
  BY <1>1, <1>5, <1>8
<1>9. CASE Merge(cid[t]) /\ nrCaches' = nrCaches - 1
  BY <1>1, <1>2, <1>5, <1>9, MergeSound
<1> QED BY <1>6, <1>7, <1>8, <1>9

LEMMA InvalidateKeeps ==
  ASSUME IndInv, Invalidate
  PROVE  IndInv'
<1>1. /\ TypeOK /\ SlotsSound /\ ThreadsSound
      /\ Len(list) \in Nat /\ list' = <<>> /\ Len(list') = 0
      /\ UNCHANGED <<chain, pc, want, fclus, dclus, cid>>
  BY DEF IndInv, TypeOK, Invalidate
<1>2. Installing' = Installing /\ Cardinality(Installing) \in Nat
  BY <1>1, FS_Subset, FS_CardinalityType, ClusterAssumption DEF Installing
<1>3. nrCaches' = Cardinality(Installing') /\ nrCaches' <= MaxCache
  <2>1. MaxCache \in Nat /\ nrCaches' = nrCaches - Len(list)
    BY ClusterAssumption DEF Invalidate
  <2> QED BY <1>1, <1>2, <2>1 DEF SlotsSound
<1>4. TypeOK'
  BY <1>1, <1>2, <1>3 DEF TypeOK, Invalidate, AlwaysValid
<1>5. ThreadsSound'
  BY <1>1, Undisturbed DEF ThreadsSound
<1>6. ListSound(list', chain)
  BY <1>1 DEF ListSound, StartOnce
<1> QED BY <1>1, <1>2, <1>3, <1>4, <1>5, <1>6 DEF IndInv, ChainSound, SlotsSound

\* The writer appends where the chain ends: a chain without a loop stays one,
\* and what the other threads hold on to lies before the new cluster.
LEMMA ExtendKeeps ==
  ASSUME IndInv, NEW new \in Clusters, Extend(new)
  PROVE  IndInv'
<1>1. /\ TypeOK /\ ThreadsSound /\ ListSound(list, chain)
      /\ chain \in Seq(Clusters) /\ Len(chain) \in Nat /\ Writer \in Threads
  BY ClusterAssumption DEF IndInv, TypeOK
<1>2. /\ chain' = Append(chain, new) /\ new \notin ToSet(chain)
      /\ Abandon(Writer, "idle") /\ UNCHANGED <<list, nrCaches, validId>>
  BY DEF Extend
<1>3. IsInjective(chain) /\ pc[Writer] # "install"
  <2>1. CASE chain = <<>> /\ pc[Writer] \in AtRest
    BY <2>1 DEF AtRest, IsInjective
  <2>2. CASE pc[Writer] = "eof"
    BY <1>1, <2>2 DEF ThreadsSound, ThreadSound, Ended
  <2> QED BY <2>1, <2>2 DEF Extend
<1>4. /\ chain' \in Seq(Clusters) /\ Len(chain') = Len(chain) + 1
      /\ \A j \in 1 .. Len(chain) : chain'[j] = chain[j]
      /\ chain'[Len(chain) + 1] = new
  BY <1>1, <1>2
<1>5. IsInjective(chain')
  <2>1. \A j \in 1 .. Len(chain) : chain[j] # new
    BY <1>1, <1>2 DEF ToSet
  <2>2. DOMAIN chain' = 1 .. Len(chain) + 1 /\ DOMAIN chain = 1 .. Len(chain)
    BY <1>1, <1>4
  <2> QED BY <1>1, <1>3, <1>4, <2>1, <2>2 DEF IsInjective
<1>6. ASSUME NEW r, r.f \in Nat, r.n \in Nat, Fits(chain, r)
      PROVE  Fits(chain', r)
  BY <1>1, <1>2, <1>6, FitsGrown
<1>7. ListSound(list', chain')
  <2>1. \A i \in DOMAIN list : Fits(chain', list[i])
    <3>1. ASSUME NEW i \in DOMAIN list PROVE Fits(chain', list[i])
      <4>1. list[i] \in Entry /\ Fits(chain, list[i])
        BY <1>1 DEF ListSound
      <4>2. list[i].f \in Nat /\ list[i].n \in Nat
        BY <4>1 DEF Entry
      <4> QED BY <1>6, <4>1, <4>2
    <3> QED BY <3>1
  <2> QED BY <1>1, <1>2, <2>1 DEF ListSound
<1>8. ASSUME NEW u \in Threads \ {Writer} PROVE ThreadSound(u)'
  <2>1. /\ pc'[u] = pc[u] /\ want'[u] = want[u] /\ fclus'[u] = fclus[u]
        /\ dclus'[u] = dclus[u] /\ cid'[u] = cid[u]
        /\ fclus[u] \in Nat
    BY <1>1, <1>2 DEF Abandon, Goto, TypeOK
  <2>2. ThreadSound(u)
    BY <1>1 DEF ThreadsSound
  <2>3. Placed(u) => Placed(u)'
    BY <1>1, <1>4, <2>1, SMTT(30) DEF Placed
  <2>4. Ended(u)'
    BY <1>5, <1>8 DEF Ended
  <2>5. cid[u] # NoRun => cid'[u] # NoRun /\ Fits(chain', cid'[u])
    <3>1. ASSUME cid[u] # NoRun PROVE Fits(chain', cid[u])
      <4>1. cid[u].f \in Nat /\ cid[u].n \in Nat
        BY <1>1, <3>1 DEF TypeOK, Run
      <4> QED BY <1>6, <2>2, <3>1, <4>1 DEF ThreadSound
    <3> QED BY <2>1, <3>1
  <2> QED BY <1>3, <2>1, <2>2, <2>3, <2>4, <2>5 DEF ThreadSound
<1>9. ThreadSound(Writer)'
  <2>1. pc'[Writer] = "idle" /\ cid'[Writer] = NoRun
    BY <1>1, <1>2 DEF Abandon, Goto, TypeOK
  <2> QED BY <2>1 DEF ThreadSound
<1>10. TypeOK'
  BY <1>1, <1>2, <1>4 DEF TypeOK, Abandon, Goto, AtRest, Run
<1>11. Installing' = Installing
  BY <1>1, <1>2, <1>3, SameInstalling DEF Abandon, Goto, TypeOK
<1>12. ThreadsSound'
  BY <1>8, <1>9 DEF ThreadsSound
<1> QED BY <1>2, <1>5, <1>7, <1>10, <1>11, <1>12 DEF IndInv, ChainSound, SlotsSound

LEMMA NextKeeps == IndInv /\ [Next]_vars => IndInv'
<1> SUFFICES ASSUME IndInv, [Next]_vars PROVE IndInv'
  OBVIOUS
<1>1. CASE UNCHANGED vars
  <2>1. UNCHANGED <<chain, list, nrCaches, validId, pc, want, fclus, dclus, cid>>
    BY <1>1 DEF vars
  <2>2. ThreadsSound'
    BY <2>1, Undisturbed DEF IndInv, ThreadsSound
  <2> QED BY <2>1, <2>2
       DEF IndInv, TypeOK, ChainSound, ListSound, SlotsSound, Installing
<1>2. ASSUME NEW t \in Threads, GetFromEmpty(t) PROVE IndInv'
  <2>1. pc[t] # "install"
    BY <1>2 DEF GetFromEmpty, AtRest
  <2> QED BY <1>2, <2>1, AbandonKeeps DEF GetFromEmpty
<1>3. ASSUME NEW t \in Threads, ReadFails(t) PROVE IndInv'
  BY <1>3, AbandonKeeps DEF ReadFails
<1>4. ASSUME NEW t \in Threads, NEW k \in 0 .. Limit, Lookup(t, k) PROVE IndInv'
  <2>1. k \in Nat
    BY ClusterAssumption
  <2> QED BY <1>4, <2>1, LookupKeeps
<1>5. ASSUME Lookup(Writer, ToTheEnd) PROVE IndInv'
  <2>1. ToTheEnd \in Nat /\ Writer \in Threads
    BY ClusterAssumption DEF ToTheEnd
  <2> QED BY <1>5, <2>1, LookupKeeps
<1> QED BY <1>1, <1>2, <1>3, <1>4, <1>5, GetFirstKeeps, FollowKeeps,
           LeaveLoopKeeps, GiveUpKeeps, AddToCacheKeeps, InstallEntryKeeps,
           InvalidateKeeps, ExtendKeeps DEF Next

LEMMA Inductive == Spec => []IndInv
BY InitSound, NextKeeps, PTL DEF Spec

-----------------------------------------------------------------------------
(* What the invariant gives.                                               *)

\* Every variable of a lookup keeps its type, sums of cluster numbers and
\* offsets included.
THEOREM TypeCorrect == Spec => []TypeOK
<1>1. IndInv => TypeOK
  BY DEF IndInv
<1> QED BY <1>1, Inductive, PTL

\* Every entry of the cache agrees with the FAT: of entries added after the
\* lock was dropped, of entries made longer by fat_cache_merge and of entries
\* that were put there before the chain grew.
THEOREM CacheAlwaysSound == Spec => []CacheSound
<1>1. IndInv => CacheSound
  BY DEF IndInv, ListSound, Fits, CacheSound, RunSound
<1> QED BY <1>1, Inductive, PTL

\* fat_get_cluster finds the cluster of the file it was asked for, whatever
\* the other threads do to the cache meanwhile.
THEOREM ClusterAlwaysFound == Spec => []ClusterFound
<1>1. IndInv => ClusterFound
  BY DEF IndInv, ThreadsSound, ThreadSound, Placed, ClusterFound
<1> QED BY <1>1, Inductive, PTL

\* Where fat_chain_add links the new cluster is where the chain ends.
THEOREM EndAlwaysFound == Spec => []EndFound
<1>1. IndInv => EndFound
  <2> SUFFICES ASSUME IndInv, pc[Writer] = "eof", want[Writer] = ToTheEnd
               PROVE  fclus[Writer] + 1 = Len(chain) /\ dclus[Writer] = Last(chain)
    BY DEF EndFound
  <2>1. ThreadSound(Writer)
    BY ClusterAssumption DEF IndInv, ThreadsSound
  <2>2. Placed(Writer) /\ Ended(Writer)
    BY <2>1 DEF ThreadSound
  <2> QED BY <2>2 DEF Placed, Ended, Last
<1> QED BY <1>1, Inductive, PTL

\* nr_caches is the number of entries and of slots reserved while the lock is
\* dropped, it stays within FAT_MAX_CACHE, and no run is in the list twice.
THEOREM SlotsAlwaysCounted == Spec => []SlotsCounted
<1>1. IndInv => SlotsCounted
  BY DEF IndInv, SlotsSound, Installing, ListSound, StartOnce, SlotsCounted
<1> QED BY <1>1, Inductive, PTL

\* "detected cluster chain loop" is said of chains that have a loop only.
THEOREM LoopAlwaysReal == Spec => []LoopIsReal
<1>1. IndInv => LoopIsReal
  BY DEF IndInv, ThreadsSound, ThreadSound, LoopIsReal
<1> QED BY <1>1, Inductive, PTL
=============================================================================
