-------------------------- MODULE BufferCacheProofs --------------------------
(***************************************************************************)
(* Proofs about the buffer cache, for every set of blocks and clients and  *)
(* every cache size.                                                       *)
(***************************************************************************)
EXTENDS BufferCache, FiniteSetTheorems, TLAPS

-----------------------------------------------------------------------------
(* Lists without repetition: list_del and buf_touch_lru take an element    *)
(* out, list_add puts one in front.                                        *)

\* The elements of a concatenation.
LEMMA ConcatElements ==
  ASSUME NEW S, NEW l \in Seq(S), NEW r \in Seq(S)
  PROVE  /\ l \o r \in Seq(S)
         /\ Len(l \o r) = Len(l) + Len(r)
         /\ \A j \in 1 .. Len(l) : (l \o r)[j] = l[j]
         /\ \A j \in 1 .. Len(r) : (l \o r)[Len(l) + j] = r[j]
OBVIOUS

\* Where the elements of s are once the one at position i is gone.
LEMMA RemoveAtElements ==
  ASSUME NEW S, NEW s \in Seq(S), NEW i \in 1 .. Len(s)
  PROVE  /\ RemoveAt(s, i) \in Seq(S)
         /\ Len(RemoveAt(s, i)) = Len(s) - 1
         /\ \A j \in 1 .. Len(s) - 1 :
              RemoveAt(s, i)[j] = IF j < i THEN s[j] ELSE s[j + 1]
<1>0. PICK n \in Nat : n = Len(s)
  OBVIOUS
<1>1. PICK l \in Seq(S) : /\ l = SubSeq(s, 1, i - 1)
                          /\ Len(l) = i - 1
                          /\ \A j \in 1 .. i - 1 : l[j] = s[j]
  <2>1. /\ SubSeq(s, 1, i - 1) \in Seq(S)
        /\ Len(SubSeq(s, 1, i - 1)) = i - 1
        /\ \A j \in 1 .. i - 1 : SubSeq(s, 1, i - 1)[j] = s[j]
    BY <1>0
  <2> QED BY <2>1
<1>2. PICK r \in Seq(S) : /\ r = SubSeq(s, i + 1, n)
                          /\ Len(r) = n - i
                          /\ \A j \in 1 .. n - i : r[j] = s[i + j]
  <2>1. /\ SubSeq(s, i + 1, n) \in Seq(S)
        /\ Len(SubSeq(s, i + 1, n)) = n - i
        /\ \A j \in 1 .. n - i : SubSeq(s, i + 1, n)[j] = s[i + j]
    BY <1>0
  <2> QED BY <2>1
<1>3. PICK t : t = l \o r
  OBVIOUS
<1>4. /\ t \in Seq(S)
      /\ Len(t) = n - 1
      /\ \A j \in 1 .. i - 1 : t[j] = s[j]
      /\ \A j \in 1 .. n - i : t[(i - 1) + j] = s[i + j]
  <2>1. /\ t \in Seq(S)
        /\ Len(t) = Len(l) + Len(r)
        /\ \A j \in 1 .. Len(l) : t[j] = l[j]
        /\ \A j \in 1 .. Len(r) : t[Len(l) + j] = r[j]
    BY <1>3, ConcatElements
  <2>2. Len(l) = i - 1 /\ Len(r) = n - i
    BY <1>1, <1>2
  <2>3. Len(t) = n - 1
    BY <2>1, <2>2
  <2>4. \A j \in 1 .. i - 1 : t[j] = s[j]
    BY <1>1, <2>1, <2>2
  <2>5. \A j \in 1 .. n - i : t[(i - 1) + j] = s[i + j]
    BY <1>2, <2>1, <2>2
  <2> QED BY <2>1, <2>3, <2>4, <2>5
<1>5. ASSUME NEW j \in 1 .. n - 1
      PROVE  t[j] = IF j < i THEN s[j] ELSE s[j + 1]
  <2>1. CASE j < i
    BY <1>4, <2>1
  <2>2. CASE ~(j < i)
    <3>1. /\ j - (i - 1) \in 1 .. n - i
          /\ (i - 1) + (j - (i - 1)) = j
          /\ i + (j - (i - 1)) = j + 1
      BY <1>0, <2>2
    <3> QED BY <1>4, <2>2, <3>1
  <2> QED BY <2>1, <2>2
<1>6. t = RemoveAt(s, i)
  BY <1>0, <1>1, <1>2, <1>3 DEF RemoveAt
<1> QED BY <1>0, <1>4, <1>5, <1>6

\* A list t that has the elements of s but the one at position i has them
\* once each when s does.
LEMMA OnceEach ==
  ASSUME NEW s, NEW t, NEW n \in Nat, NEW i \in 1 .. n,
         DOMAIN s = 1 .. n, IsInjective(s),
         DOMAIN t = 1 .. n - 1,
         \A j \in 1 .. n - 1 : t[j] = IF j < i THEN s[j] ELSE s[j + 1]
  PROVE  /\ IsInjective(t)
         /\ ToSet(t) = ToSet(s) \ {s[i]}
<1>1. IsInjective(t)
  BY SMTT(30) DEF IsInjective
<1>2. ASSUME NEW x \in ToSet(t) PROVE x \in ToSet(s) \ {s[i]}
  <2>1. PICK j \in 1 .. n - 1 : t[j] = x
    BY DEF ToSet
  <2>2. \E k \in 1 .. n : k # i /\ s[k] = x
    BY <2>1
  <2> QED BY <2>2 DEF ToSet, IsInjective
<1>3. ASSUME NEW k \in 1 .. n, k # i PROVE s[k] \in ToSet(t)
  <2>1. \E j \in 1 .. n - 1 : t[j] = s[k]
    <3>1. CASE k < i
      BY <3>1
    <3>2. CASE k > i
      <4>1. k - 1 \in 1 .. n - 1 /\ t[k - 1] = s[k]
        BY <3>2
      <4> QED BY <4>1
    <3> QED BY <1>3, <3>1, <3>2
  <2> QED BY <2>1 DEF ToSet
<1> QED BY <1>1, <1>2, <1>3 DEF ToSet

\* Taking an element out of a list without repetition.
LEMMA RemoveProps ==
  ASSUME NEW S, NEW s \in Seq(S), IsInjective(s), NEW i \in DOMAIN s
  PROVE  /\ RemoveAt(s, i) \in Seq(S)
         /\ Len(RemoveAt(s, i)) = Len(s) - 1
         /\ IsInjective(RemoveAt(s, i))
         /\ ToSet(RemoveAt(s, i)) = ToSet(s) \ {s[i]}
<1>1. PICK n \in Nat : n = Len(s) /\ DOMAIN s = 1 .. n /\ i \in 1 .. n
  OBVIOUS
<1>2. PICK t : t = RemoveAt(s, i)
  OBVIOUS
<1>3. /\ t \in Seq(S)
      /\ Len(t) = n - 1
      /\ \A j \in 1 .. n - 1 : t[j] = IF j < i THEN s[j] ELSE s[j + 1]
  <2>1. i \in 1 .. Len(s)
    BY <1>1
  <2>2. /\ RemoveAt(s, i) \in Seq(S)
        /\ Len(RemoveAt(s, i)) = Len(s) - 1
        /\ \A j \in 1 .. Len(s) - 1 :
             RemoveAt(s, i)[j] = IF j < i THEN s[j] ELSE s[j + 1]
    BY <2>1, RemoveAtElements
  <2> QED BY <1>1, <1>2, <2>2
<1>4. DOMAIN t = 1 .. n - 1
  BY <1>3
<1>5. IsInjective(t) /\ ToSet(t) = ToSet(s) \ {s[i]}
  <2>1. i \in 1 .. n /\ DOMAIN s = 1 .. n
    BY <1>1
  <2>2. \A j \in 1 .. n - 1 : t[j] = IF j < i THEN s[j] ELSE s[j + 1]
    BY <1>3
  <2> QED BY <1>4, <2>1, <2>2, OnceEach, ZenonT(60)
<1> QED BY <1>1, <1>2, <1>3, <1>5

\* Putting a new element in front of a list without repetition.
LEMMA PushProps ==
  ASSUME NEW S, NEW s \in Seq(S), IsInjective(s), NEW b \in S, b \notin ToSet(s)
  PROVE  /\ <<b>> \o s \in Seq(S)
         /\ Len(<<b>> \o s) = Len(s) + 1
         /\ IsInjective(<<b>> \o s)
         /\ ToSet(<<b>> \o s) = ToSet(s) \cup {b}
<1>1. ASSUME NEW t, t = <<b>> \o s
      PROVE  /\ t \in Seq(S)
             /\ Len(t) = Len(s) + 1
             /\ \A j \in 1 .. Len(s) + 1 :
                  t[j] = IF j = 1 THEN b ELSE s[j - 1]
  BY <1>1
<1>2. IsInjective(<<b>> \o s)
  BY <1>1 DEF IsInjective, ToSet
<1>3. ToSet(<<b>> \o s) \subseteq ToSet(s) \cup {b}
  BY <1>1 DEF ToSet
<1>4. b \in ToSet(<<b>> \o s)
  <2>1. 1 \in DOMAIN (<<b>> \o s) /\ (<<b>> \o s)[1] = b
    OBVIOUS
  <2> QED BY <2>1 DEF ToSet
<1>5. ToSet(s) \subseteq ToSet(<<b>> \o s)
  <2>1. ASSUME NEW j \in DOMAIN s PROVE s[j] \in ToSet(<<b>> \o s)
    <3>1. j + 1 \in DOMAIN (<<b>> \o s) /\ (<<b>> \o s)[j + 1] = s[j]
      OBVIOUS
    <3> QED BY <3>1 DEF ToSet
  <2> QED BY <2>1 DEF ToSet
<1> QED BY <1>1, <1>2, <1>3, <1>4, <1>5

\* Moving an element to the front.
LEMMA MoveToFrontProps ==
  ASSUME NEW S, NEW s \in Seq(S), IsInjective(s), NEW i \in DOMAIN s
  PROVE  /\ <<s[i]>> \o RemoveAt(s, i) \in Seq(S)
         /\ Len(<<s[i]>> \o RemoveAt(s, i)) = Len(s)
         /\ IsInjective(<<s[i]>> \o RemoveAt(s, i))
         /\ ToSet(<<s[i]>> \o RemoveAt(s, i)) = ToSet(s)
<1>1. PICK t : t = RemoveAt(s, i)
  OBVIOUS
<1>2. /\ t \in Seq(S)
      /\ Len(t) = Len(s) - 1
      /\ IsInjective(t)
      /\ ToSet(t) = ToSet(s) \ {s[i]}
  BY <1>1, RemoveProps
<1>3. s[i] \in S /\ s[i] \in ToSet(s) /\ s[i] \notin ToSet(t)
  <2>1. s[i] \in S
    OBVIOUS
  <2>2. s[i] \in ToSet(s)
    BY DEF ToSet
  <2> QED BY <1>2, <2>1, <2>2
<1>4. /\ <<s[i]>> \o t \in Seq(S)
      /\ Len(<<s[i]>> \o t) = Len(t) + 1
      /\ IsInjective(<<s[i]>> \o t)
      /\ ToSet(<<s[i]>> \o t) = ToSet(t) \cup {s[i]}
  BY <1>2, <1>3, PushProps
<1>5. Len(t) + 1 = Len(s)
  BY <1>2
<1> QED BY <1>1, <1>2, <1>3, <1>4, <1>5

-----------------------------------------------------------------------------
(* The LRU list, one outcome of alloc_buf and of the hash lookup at a time. *)

\* A hit reorders the list.
LEMMA HitKeepsList ==
  ASSUME lru \in Seq(Blocks), LruSound, NEW b \in Blocks, Hit(b)
  PROVE  lru' \in Seq(Blocks) /\ LruSound' /\ Cached' = Cached /\ b \in Cached
<1>1. PICK i \in DOMAIN lru : lru[i] = b /\ lru' = <<lru[i]>> \o RemoveAt(lru, i)
  BY DEF Hit, Touch
<1>2. /\ lru' \in Seq(Blocks)
      /\ Len(lru') = Len(lru)
      /\ IsInjective(lru')
      /\ ToSet(lru') = ToSet(lru)
  BY <1>1, MoveToFrontProps DEF LruSound
<1>3. nrBufs' = nrBufs
  BY DEF Hit
<1>4. b \in ToSet(lru)
  BY <1>1 DEF ToSet
<1> QED BY <1>2, <1>3, <1>4 DEF LruSound, Cached

\* A new buffer below the limit.
LEMMA AllocInRoomExtendsList ==
  ASSUME BufferAssumption, lru \in Seq(Blocks), LruSound,
         NEW b \in Blocks, AllocInRoom(b)
  PROVE  lru' \in Seq(Blocks) /\ LruSound' /\ Cached' = Cached \cup {b}
<1>1. /\ lru' \in Seq(Blocks)
      /\ Len(lru') = Len(lru) + 1
      /\ IsInjective(lru')
      /\ ToSet(lru') = ToSet(lru) \cup {b}
  BY PushProps DEF LruSound, AllocInRoom, Cached
<1>2. nrBufs' = nrBufs + 1 /\ nrBufs < MaxBuf
  BY DEF AllocInRoom
<1>3. nrBufs' = Len(lru') /\ nrBufs' <= MaxBuf
  BY <1>1, <1>2 DEF LruSound, BufferAssumption
<1> QED BY <1>1, <1>3 DEF LruSound, Cached

\* A new buffer in the place of a free one.
LEMMA AllocByEvictionSwaps ==
  ASSUME lru \in Seq(Blocks), LruSound, NEW b \in Blocks, AllocByEviction(b)
  PROVE  \E v \in Cached :
           /\ count[v] = 0
           /\ Evict(v)
           /\ lru' \in Seq(Blocks)
           /\ LruSound'
           /\ Cached' = (Cached \ {v}) \cup {b}
<1>1. PICK i \in DOMAIN lru :
        /\ count[lru[i]] = 0
        /\ Evict(lru[i])
        /\ lru' = <<b>> \o RemoveAt(lru, i)
  BY DEF AllocByEviction, IsVictim
<1>2. PICK t : t = RemoveAt(lru, i)
  OBVIOUS
<1>3. /\ t \in Seq(Blocks)
      /\ Len(t) = Len(lru) - 1
      /\ IsInjective(t)
      /\ ToSet(t) = ToSet(lru) \ {lru[i]}
  BY <1>2, RemoveProps DEF LruSound
<1>4. b \notin ToSet(t)
  BY <1>3 DEF AllocByEviction, Cached
<1>5. /\ <<b>> \o t \in Seq(Blocks)
      /\ Len(<<b>> \o t) = Len(t) + 1
      /\ IsInjective(<<b>> \o t)
      /\ ToSet(<<b>> \o t) = ToSet(t) \cup {b}
  BY <1>3, <1>4, PushProps
<1>6. nrBufs' = nrBufs /\ Len(t) + 1 = Len(lru)
  BY <1>3 DEF AllocByEviction
<1>7. lru' \in Seq(Blocks) /\ LruSound' /\ Cached' = (Cached \ {lru[i]}) \cup {b}
  BY <1>1, <1>2, <1>3, <1>5, <1>6 DEF LruSound, Cached
<1>8. lru[i] \in Cached
  BY DEF Cached, ToSet
<1> QED BY <1>1, <1>7, <1>8

\* A free buffer goes and no new one comes.
LEMMA EvictThenNoMemoryShrinks ==
  ASSUME BufferAssumption, lru \in Seq(Blocks), LruSound,
         NEW b \in Blocks, EvictThenNoMemory(b)
  PROVE  \E v \in Cached :
           /\ count[v] = 0
           /\ Evict(v)
           /\ lru' \in Seq(Blocks)
           /\ LruSound'
           /\ Cached' = Cached \ {v}
<1>1. PICK i \in DOMAIN lru :
        /\ count[lru[i]] = 0
        /\ Evict(lru[i])
        /\ lru' = RemoveAt(lru, i)
  BY DEF EvictThenNoMemory, IsVictim
<1>2. /\ lru' \in Seq(Blocks)
      /\ Len(lru') = Len(lru) - 1
      /\ IsInjective(lru')
      /\ ToSet(lru') = ToSet(lru) \ {lru[i]}
  BY <1>1, RemoveProps DEF LruSound
<1>3. nrBufs' = nrBufs - 1
  BY DEF EvictThenNoMemory
<1>4. nrBufs' = Len(lru') /\ nrBufs' <= MaxBuf
  BY <1>2, <1>3 DEF LruSound, BufferAssumption
<1>5. LruSound' /\ Cached' = Cached \ {lru[i]}
  BY <1>2, <1>4 DEF LruSound, Cached
<1>6. lru[i] \in Cached
  BY DEF Cached, ToSet
<1> QED BY <1>1, <1>2, <1>5, <1>6

-----------------------------------------------------------------------------
(* Counting the clients that point to a block.                             *)

Holders(r, b) == {c \in Clients : r[c] = b}

\* A client without a buffer takes one.
LEMMA AcquireCount ==
  ASSUME BufferAssumption, NEW r \in [Clients -> Blocks \cup {NoBlock}],
         NEW c \in Clients, NEW b \in Blocks, r[c] = NoBlock
  PROVE  \A x \in Blocks :
           Cardinality(Holders([r EXCEPT ![c] = b], x)) =
             IF x = b THEN Cardinality(Holders(r, x)) + 1
                      ELSE Cardinality(Holders(r, x))
<1> TAKE x \in Blocks
<1>1. IsFiniteSet(Holders(r, x))
  BY FS_Subset DEF Holders, BufferAssumption
<1>2. c \notin Holders(r, x)
  BY DEF Holders, BufferAssumption
<1>3. CASE x = b
  <2>1. Holders([r EXCEPT ![c] = b], x) = Holders(r, x) \cup {c}
    BY <1>3 DEF Holders
  <2> QED BY <1>1, <1>2, <1>3, <2>1, FS_AddElement
<1>4. CASE x # b
  <2>1. Holders([r EXCEPT ![c] = b], x) = Holders(r, x)
    BY <1>2, <1>4 DEF Holders
  <2> QED BY <1>4, <2>1
<1> QED BY <1>3, <1>4

\* A client lets its buffer go.
LEMMA ReleaseCount ==
  ASSUME BufferAssumption, NEW r \in [Clients -> Blocks \cup {NoBlock}],
         NEW c \in Clients, r[c] # NoBlock
  PROVE  \A x \in Blocks :
           /\ Cardinality(Holders(r, x)) \in Nat
           /\ x = r[c] => Cardinality(Holders(r, x)) > 0
           /\ Cardinality(Holders([r EXCEPT ![c] = NoBlock], x)) =
                IF x = r[c] THEN Cardinality(Holders(r, x)) - 1
                            ELSE Cardinality(Holders(r, x))
<1> TAKE x \in Blocks
<1>1. IsFiniteSet(Holders(r, x)) /\ Cardinality(Holders(r, x)) \in Nat
  BY FS_Subset, FS_CardinalityType DEF Holders, BufferAssumption
<1>2. CASE x = r[c]
  <2>1. c \in Holders(r, x)
    BY <1>2 DEF Holders
  <2>2. Holders([r EXCEPT ![c] = NoBlock], x) = Holders(r, x) \ {c}
    BY <1>2 DEF Holders, BufferAssumption
  <2>3. Cardinality(Holders(r, x)) # 0
    BY <1>1, <2>1, FS_EmptySet
  <2>4. Cardinality(Holders(r, x) \ {c}) = Cardinality(Holders(r, x)) - 1
    BY <1>1, <2>1, FS_RemoveElement
  <2>5. Cardinality(Holders(r, x)) > 0
    BY <1>1, <2>3
  <2> QED BY <1>1, <1>2, <2>2, <2>4, <2>5
<1>3. CASE x # r[c]
  <2>1. Holders([r EXCEPT ![c] = NoBlock], x) = Holders(r, x)
    BY <1>3 DEF Holders, BufferAssumption
  <2> QED BY <1>1, <1>3, <2>1
<1> QED BY <1>2, <1>3

\* A buffer with b_count zero is nobody's.
LEMMA FreeMeansUnheld ==
  ASSUME BufferAssumption, TypeOK, ReferencesHold, NEW b \in Blocks
  PROVE  count[b] = 0 <=> \A c \in Clients : ref[c] # b
<1>1. IsFiniteSet(Holders(ref, b))
  BY FS_Subset DEF Holders, BufferAssumption
<1>2. count[b] = Cardinality(Holders(ref, b))
  BY DEF ReferencesHold, Holders
<1>3. Cardinality(Holders(ref, b)) = 0 <=> Holders(ref, b) = {}
  BY <1>1, FS_EmptySet
<1> QED BY <1>2, <1>3 DEF Holders

-----------------------------------------------------------------------------
(* Getting a buffer keeps the inductive invariant.                         *)

\* Evicting a free buffer keeps the types and loses no valid content that
\* still counts.
LEMMA EvictKeepsContents ==
  ASSUME TypeOK, ContentsValid, NEW v \in Blocks, Evict(v)
  PROVE  /\ disk' \in [Blocks -> Vals]
         /\ data' \in [Blocks -> Vals \cup {Junk}]
         /\ dirty' \subseteq Blocks
         /\ uptodate' \subseteq Blocks
         /\ stored' \in [Blocks -> Vals \cup {Junk}]
         /\ ContentsValid'
<1>1. disk' \in [Blocks -> Vals] /\ stored' \in [Blocks -> Vals \cup {Junk}]
  BY DEF TypeOK, ContentsValid, Evict
<1>2. /\ data' \in [Blocks -> Vals \cup {Junk}]
      /\ dirty' \subseteq Blocks
      /\ uptodate' \subseteq Blocks
  BY DEF TypeOK, Evict
<1>3. ContentsValid'
  BY DEF TypeOK, ContentsValid, Evict
<1> QED BY <1>1, <1>2, <1>3

\* The client that gets a buffer: what the cache must have done for it.
LEMMA TakeBuffer ==
  ASSUME BufferAssumption, IndInv, NEW c \in Clients, NEW b \in Blocks,
         NEW place \in {"fill", "held"},
         pc[c] \in AtRest,
         Hit(b) \/ AllocInRoom(b) \/ AllocByEviction(b)
  PROVE  /\ disk' \in [Blocks -> Vals]
         /\ data' \in [Blocks -> Vals \cup {Junk}]
         /\ dirty' \subseteq Blocks
         /\ uptodate' \subseteq Blocks
         /\ stored' \in [Blocks -> Vals \cup {Junk}]
         /\ nrBufs' \in Nat
         /\ lru' \in Seq(Blocks)
         /\ ContentsValid'
         /\ LruSound'
         /\ b \in Cached'
         /\ \A x \in Cached \ Cached' : count[x] = 0
         /\ count' = [count EXCEPT ![b] = @ + 1]
<1>1. CASE Hit(b)
  <2>1. lru' \in Seq(Blocks) /\ LruSound' /\ Cached' = Cached /\ b \in Cached
    BY <1>1, HitKeepsList DEF IndInv, TypeOK
  <2> QED BY <1>1, <2>1 DEF Hit, bufs, IndInv, TypeOK, ContentsValid
<1>2. ASSUME b \notin Cached PROVE count[b] = 0
  BY <1>2, FreeMeansUnheld DEF IndInv, ReferencesHold, BufferAssumption
<1>3. CASE AllocInRoom(b)
  <2>1. lru' \in Seq(Blocks) /\ LruSound' /\ Cached' = Cached \cup {b}
    BY <1>3, AllocInRoomExtendsList DEF IndInv, TypeOK
  <2>2. count' = [count EXCEPT ![b] = @ + 1]
    BY <1>2, <1>3 DEF AllocInRoom, IndInv, TypeOK
  <2>3. b \in Cached' /\ \A x \in Cached \ Cached' : count[x] = 0
    BY <2>1
  <2>4. nrBufs' \in Nat
    BY <1>3 DEF AllocInRoom, IndInv, TypeOK
  <2>5. /\ disk' = disk /\ data' = data /\ stored' = stored
        /\ dirty' = dirty /\ uptodate' = uptodate
    BY <1>3 DEF AllocInRoom, bufs
  <2>6. /\ disk' \in [Blocks -> Vals]
        /\ data' \in [Blocks -> Vals \cup {Junk}]
        /\ dirty' \subseteq Blocks
        /\ uptodate' \subseteq Blocks
        /\ stored' \in [Blocks -> Vals \cup {Junk}]
        /\ ContentsValid'
    BY <2>5 DEF IndInv, TypeOK, ContentsValid
  <2> QED BY <2>1, <2>2, <2>3, <2>4, <2>6
<1>4. CASE AllocByEviction(b)
  <2>1. PICK v \in Cached : /\ count[v] = 0
                            /\ Evict(v)
                            /\ lru' \in Seq(Blocks)
                            /\ LruSound'
                            /\ Cached' = (Cached \ {v}) \cup {b}
    BY <1>4, AllocByEvictionSwaps DEF IndInv, TypeOK
  <2>2. v \in Blocks
    BY DEF IndInv, TypeOK, Cached, ToSet
  <2>3. /\ disk' \in [Blocks -> Vals]
        /\ data' \in [Blocks -> Vals \cup {Junk}]
        /\ dirty' \subseteq Blocks
        /\ uptodate' \subseteq Blocks
        /\ stored' \in [Blocks -> Vals \cup {Junk}]
        /\ ContentsValid'
    BY <2>1, <2>2, EvictKeepsContents DEF IndInv
  <2>4. count' = [count EXCEPT ![b] = @ + 1]
    BY <1>2, <1>4 DEF AllocByEviction, IndInv, TypeOK
  <2>5. nrBufs' \in Nat
    BY <1>4 DEF AllocByEviction, IndInv, TypeOK
  <2> QED BY <2>1, <2>3, <2>4, <2>5
<1> QED BY <1>1, <1>3, <1>4

\* ufs_bread and ufs_bget up to the end of their critical section.
LEMMA GetBufferKeeps ==
  ASSUME BufferAssumption, IndInv, NEW c \in Clients, NEW b \in Blocks,
         NEW place \in {"fill", "held"}, GetBuffer(c, b, place)
  PROVE  IndInv'
<1>1. /\ pc[c] \in AtRest
      /\ flusher = NoClient
      /\ UNCHANGED <<flusher, todo, flushErr>>
  BY DEF GetBuffer, Unlocked, flush
<1>2. ref[c] = NoBlock
  BY <1>1 DEF IndInv, Pointing
<1>3. FlushWalksTheList'
  BY <1>1 DEF FlushWalksTheList
<1>4. CASE /\ Hit(b) \/ AllocInRoom(b) \/ AllocByEviction(b)
           /\ Goto(c, place)
           /\ ref' = [ref EXCEPT ![c] = b]
  <2>1. /\ disk' \in [Blocks -> Vals]
        /\ data' \in [Blocks -> Vals \cup {Junk}]
        /\ dirty' \subseteq Blocks
        /\ uptodate' \subseteq Blocks
        /\ stored' \in [Blocks -> Vals \cup {Junk}]
        /\ nrBufs' \in Nat
        /\ lru' \in Seq(Blocks)
        /\ ContentsValid'
        /\ LruSound'
        /\ b \in Cached'
        /\ \A x \in Cached \ Cached' : count[x] = 0
        /\ count' = [count EXCEPT ![b] = @ + 1]
    BY <1>1, <1>4, TakeBuffer
  <2>2. pc' = [pc EXCEPT ![c] = place]
    BY <1>4 DEF Goto
  <2>3. TypeOK'
    BY <1>1, <1>4, <2>1, <2>2 DEF IndInv, TypeOK, Places
  <2>4. Pointing' /\ Locking'
    BY <1>1, <1>4, <2>2, BufferAssumption
       DEF IndInv, TypeOK, Pointing, Locking, BufferAssumption, AtRest, InFlush
  <2>5. \A x \in Clients : ref'[x] # NoBlock => ref'[x] \in Cached'
    <3>1. ASSUME NEW x \in Clients, ref'[x] # NoBlock, x # c
          PROVE  ref'[x] \in Cached'
      <4>1. ref'[x] = ref[x] /\ ref[x] \in Blocks /\ ref[x] \in Cached
        BY <1>4, <3>1 DEF IndInv, TypeOK, ReferencesHold
      <4>2. count[ref[x]] # 0
        BY <4>1, FreeMeansUnheld DEF IndInv
      <4> QED BY <2>1, <4>1, <4>2
    <3>2. ref'[c] = b
      BY <1>4 DEF IndInv, TypeOK
    <3> QED BY <2>1, <3>1, <3>2
  <2>6. \A x \in Blocks : count'[x] = Cardinality(Holders(ref', x))
    <3>1. \A x \in Blocks :
            Cardinality(Holders([ref EXCEPT ![c] = b], x)) =
              IF x = b THEN Cardinality(Holders(ref, x)) + 1
                       ELSE Cardinality(Holders(ref, x))
      <4>1. ref \in [Clients -> Blocks \cup {NoBlock}]
        BY DEF IndInv, TypeOK
      <4> QED BY <1>2, <4>1, AcquireCount
    <3>2. \A x \in Blocks : count[x] = Cardinality(Holders(ref, x))
      BY DEF IndInv, ReferencesHold, Holders
    <3> QED BY <1>4, <2>1, <3>1, <3>2 DEF IndInv, TypeOK
  <2>7. ReferencesHold'
    BY <2>5, <2>6 DEF ReferencesHold, Holders
  <2> QED BY <1>3, <2>1, <2>3, <2>4, <2>7 DEF IndInv
<1>5. CASE /\ EvictThenNoMemory(b) \/ AllocFails(b)
           /\ Goto(c, "null")
           /\ UNCHANGED ref
  <2>1. pc' = [pc EXCEPT ![c] = "null"] /\ ref' = ref
    BY <1>5 DEF Goto
  <2>2. pc' \in [Clients -> Places] /\ Pointing' /\ Locking'
    BY <1>1, <1>2, <2>1, BufferAssumption
       DEF IndInv, TypeOK, Places, Pointing, Locking, BufferAssumption,
           AtRest, InFlush
  <2>3. count' = count
    BY <1>5 DEF EvictThenNoMemory, AllocFails, cache
  <2>4. CASE AllocFails(b)
    BY <1>1, <1>3, <2>1, <2>2, <2>4
       DEF AllocFails, cache, bufs, IndInv, TypeOK, ContentsValid, LruSound,
           ReferencesHold, Cached
  <2>5. CASE EvictThenNoMemory(b)
    <3>1. PICK v \in Cached : /\ count[v] = 0
                              /\ Evict(v)
                              /\ lru' \in Seq(Blocks)
                              /\ LruSound'
                              /\ Cached' = Cached \ {v}
      BY <2>5, EvictThenNoMemoryShrinks DEF IndInv, TypeOK
    <3>2. v \in Blocks
      BY DEF IndInv, TypeOK, Cached, ToSet
    <3>3. /\ disk' \in [Blocks -> Vals]
          /\ data' \in [Blocks -> Vals \cup {Junk}]
          /\ dirty' \subseteq Blocks
          /\ uptodate' \subseteq Blocks
          /\ stored' \in [Blocks -> Vals \cup {Junk}]
          /\ ContentsValid'
      BY <3>1, <3>2, EvictKeepsContents DEF IndInv
    <3>4. nrBufs' \in Nat
      <4>1. nrBufs' = Len(lru') /\ Len(lru') \in Nat
        BY <3>1 DEF LruSound
      <4> QED BY <4>1
    <3>5. TypeOK'
      BY <1>1, <2>1, <2>2, <2>3, <3>1, <3>3, <3>4 DEF IndInv, TypeOK
    <3>6. \A x \in Clients : ref[x] # v
      BY <3>1, <3>2, FreeMeansUnheld DEF IndInv
    <3>7. ReferencesHold'
      BY <2>1, <2>3, <3>1, <3>6 DEF IndInv, ReferencesHold
    <3> QED BY <1>3, <2>2, <3>1, <3>3, <3>5, <3>7 DEF IndInv
  <2> QED BY <1>5, <2>4, <2>5
<1> QED BY <1>4, <1>5 DEF GetBuffer, Unlocked

-----------------------------------------------------------------------------
(* The other actions.                                                      *)

\* While a client fills, changes or syncs its buffer the list, the counts and
\* the references stay as they are.
LEMMA UseKeeps ==
  ASSUME BufferAssumption, IndInv, NEW c \in Clients,
         \/ CheckUptodate(c) \/ Pread(c)
         \/ \E v \in Vals : Modify(c, v)
         \/ SyncSkips(c) \/ SyncWrites(c) \/ SyncClears(c)
  PROVE  IndInv'
<1> USE DEF IndInv
<1>1. UNCHANGED <<lru, nrBufs, count, ref, flusher, todo, flushErr>>
  BY DEF CheckUptodate, Pread, Modify, SyncSkips, SyncWrites, SyncClears,
         cache, bufs, flush
<1>2. LruSound' /\ ReferencesHold' /\ FlushWalksTheList'
  BY <1>1 DEF LruSound, ReferencesHold, FlushWalksTheList, Cached
<1>3. /\ pc[c] \in {"fill", "pread", "held", "wrote", "synced"}
      /\ \E p \in {"fill", "pread", "held", "wrote", "synced"} :
           pc' = [pc EXCEPT ![c] = p]
  BY DEF CheckUptodate, Pread, Modify, SyncSkips, SyncWrites, SyncClears, Goto
<1>4. pc' \in [Clients -> Places] /\ Pointing' /\ Locking'
  BY <1>1, <1>3 DEF TypeOK, Places, Pointing, Locking, AtRest, InFlush
<1>5. ref[c] \in Blocks
  BY <1>3 DEF TypeOK, Pointing, AtRest, InFlush
<1>6. /\ disk' \in [Blocks -> Vals]
      /\ stored' \in [Blocks -> Vals \cup {Junk}]
      /\ data' \in [Blocks -> Vals \cup {Junk}]
      /\ dirty' \subseteq Blocks
      /\ uptodate' \subseteq Blocks
      /\ ContentsValid'
  <2>1. CASE CheckUptodate(c)
    BY <2>1 DEF CheckUptodate, bufs, TypeOK, ContentsValid
  <2>2. CASE Pread(c)
    BY <1>5, <2>2 DEF Pread, TypeOK, ContentsValid
  <2>3. ASSUME NEW v \in Vals, Modify(c, v)
        PROVE  /\ disk' \in [Blocks -> Vals]
               /\ stored' \in [Blocks -> Vals \cup {Junk}]
               /\ data' \in [Blocks -> Vals \cup {Junk}]
               /\ dirty' \subseteq Blocks
               /\ uptodate' \subseteq Blocks
               /\ ContentsValid'
    BY <1>5, <2>3 DEF Modify, TypeOK, ContentsValid
  <2>4. CASE SyncSkips(c)
    BY <2>4 DEF SyncSkips, bufs, TypeOK, ContentsValid
  <2>5. CASE SyncWrites(c)
    BY <1>5, <2>5 DEF SyncWrites, bufs, TypeOK, ContentsValid
  <2>6. CASE SyncClears(c)
    BY <1>5, <2>6 DEF SyncClears, TypeOK, ContentsValid
  <2> QED BY <2>1, <2>2, <2>3, <2>4, <2>5, <2>6
<1>7. TypeOK'
  BY <1>1, <1>4, <1>6 DEF TypeOK
<1> QED BY <1>2, <1>4, <1>6, <1>7

\* Giving a buffer up, after use or after a failed read.
LEMMA ReleaseKeeps ==
  ASSUME BufferAssumption, IndInv, NEW c \in Clients, PreadFails(c) \/ Brelse(c)
  PROVE  IndInv'
<1> USE DEF IndInv
<1>1. /\ UNCHANGED <<disk, lru, nrBufs, data, dirty, uptodate>>
      /\ UNCHANGED <<flusher, todo, flushErr, stored>>
  BY DEF PreadFails, Brelse, bufs, flush
<1>2. LruSound' /\ FlushWalksTheList' /\ ContentsValid'
  BY <1>1 DEF LruSound, FlushWalksTheList, ContentsValid
<1>3. /\ pc[c] \in {"pread", "held", "synced"}
      /\ \E p \in {"null", "idle"} : pc' = [pc EXCEPT ![c] = p]
      /\ count' = [count EXCEPT ![ref[c]] = IF @ > 0 THEN @ - 1 ELSE @]
      /\ ref' = [ref EXCEPT ![c] = NoBlock]
  BY DEF PreadFails, Brelse, Goto, DropRef, Unlocked
<1>4. ref[c] \in Blocks /\ ref[c] # NoBlock
  BY <1>3 DEF TypeOK, Pointing, AtRest, InFlush, BufferAssumption
<1>5. TypeOK'
  BY <1>1, <1>3, <1>4 DEF TypeOK, Places, AtRest
<1>6. Pointing' /\ Locking'
  BY <1>1, <1>3, <1>4 DEF TypeOK, Pointing, Locking, AtRest, InFlush
<1>7. \A x \in Clients : ref'[x] # NoBlock => ref'[x] \in Cached'
  BY <1>1, <1>3 DEF TypeOK, ReferencesHold, Cached
<1>8. \A x \in Blocks : count'[x] = Cardinality(Holders(ref', x))
  <2>1. ref \in [Clients -> Blocks \cup {NoBlock}]
    BY DEF TypeOK
  <2>2. \A x \in Blocks :
          /\ Cardinality(Holders(ref, x)) \in Nat
          /\ x = ref[c] => Cardinality(Holders(ref, x)) > 0
          /\ Cardinality(Holders([ref EXCEPT ![c] = NoBlock], x)) =
               IF x = ref[c] THEN Cardinality(Holders(ref, x)) - 1
                             ELSE Cardinality(Holders(ref, x))
    BY <1>4, <2>1, ReleaseCount
  <2>3. \A x \in Blocks : count[x] = Cardinality(Holders(ref, x))
    BY DEF ReferencesHold, Holders
  <2> QED BY <1>3, <1>4, <2>2, <2>3 DEF TypeOK
<1>9. ReferencesHold'
  BY <1>7, <1>8 DEF ReferencesHold, Holders
<1> QED BY <1>2, <1>5, <1>6, <1>9

\* ufs_bcache_flush: only it moves, and only towards the end of the list.
LEMMA FlushKeeps ==
  ASSUME BufferAssumption, IndInv, NEW c \in Clients,
         \/ FlushBegin(c) \/ FlushPasses(c) \/ FlushWrites(c)
         \/ FlushClears(c) \/ FlushEnd(c)
  PROVE  IndInv'
<1> USE DEF IndInv
<1>1. UNCHANGED <<lru, nrBufs, count, ref, data, uptodate, stored>>
  BY DEF FlushBegin, Unlocked, FlushPasses, FlushWrites, FlushClears, FlushEnd, cache,
         bufs, flush
<1>2. LruSound' /\ ReferencesHold'
  BY <1>1 DEF LruSound, ReferencesHold, Cached
<1>3. todo # <<>> => /\ Head(todo) \in Blocks
                     /\ Tail(todo) \in Seq(Blocks)
                     /\ Len(Tail(todo)) = Len(todo) - 1
                     /\ \A i \in 1 .. Len(todo) - 1 :
                          Tail(todo)[i] = todo[i + 1]
  BY DEF TypeOK
<1>4. FlushWalksTheList /\ todo # <<>> /\ todo' = Tail(todo)
        /\ flusher # NoClient => FlushWalksTheList'
  <2> SUFFICES ASSUME FlushWalksTheList, todo # <<>>, todo' = Tail(todo),
                      flusher # NoClient
               PROVE  FlushWalksTheList'
    OBVIOUS
  <2>1. Len(todo) \in Nat /\ Len(lru) \in Nat
    BY DEF TypeOK
  <2>2. /\ Len(todo') = Len(todo) - 1
        /\ DOMAIN todo' = 1 .. Len(todo) - 1
        /\ \A i \in 1 .. Len(todo) - 1 : todo'[i] = todo[i + 1]
    BY <1>3 DEF TypeOK
  <2>3. /\ Len(todo) <= Len(lru)
        /\ \A i \in 1 .. Len(todo) : todo[i] = lru[Len(lru) - Len(todo) + i]
    BY DEF FlushWalksTheList, TypeOK
  <2>4. ASSUME NEW i \in 1 .. Len(todo) - 1
        PROVE  todo'[i] = lru[Len(lru) - Len(todo') + i]
    <3>1. i + 1 \in 1 .. Len(todo)
      BY <2>1
    <3>2. Len(lru) - Len(todo) + (i + 1) = Len(lru) - Len(todo') + i
      BY <2>1, <2>2
    <3> QED BY <2>2, <2>3, <3>1, <3>2
  <2> QED BY <1>1, <2>1, <2>2, <2>3, <2>4 DEF FlushWalksTheList
<1>5. CASE FlushBegin(c)
  <2>1. FlushWalksTheList'
    BY <1>1, <1>5 DEF FlushBegin, Unlocked, FlushWalksTheList, TypeOK
  <2>2. TypeOK' /\ ContentsValid'
    BY <1>1, <1>5
       DEF FlushBegin, Unlocked, Goto, TypeOK, Places, ContentsValid, bufs
  <2>3. Pointing' /\ Locking'
    BY <1>1, <1>5
       DEF FlushBegin, Unlocked, Goto, TypeOK, Pointing, Locking, AtRest, InFlush,
           BufferAssumption
  <2> QED BY <1>2, <2>1, <2>2, <2>3
<1>6. CASE FlushPasses(c)
  <2>1. flusher = c /\ flusher # NoClient
    BY <1>6 DEF FlushPasses, Locking, InFlush, BufferAssumption
  <2>2. FlushWalksTheList'
    BY <1>4, <1>6, <2>1 DEF FlushPasses
  <2>3. TypeOK' /\ ContentsValid'
    BY <1>1, <1>3, <1>6 DEF FlushPasses, TypeOK, ContentsValid, bufs
  <2>4. Pointing' /\ Locking'
    BY <1>1, <1>6, <2>1
       DEF FlushPasses, TypeOK, Pointing, Locking, InFlush
  <2> QED BY <1>2, <2>2, <2>3, <2>4
<1>7. CASE FlushWrites(c)
  <2>1. UNCHANGED <<dirty, flusher, todo, flushErr>>
    BY <1>7 DEF FlushWrites, bufs, flush
  <2>2. FlushWalksTheList' /\ ContentsValid'
    BY <1>1, <2>1 DEF FlushWalksTheList, ContentsValid
  <2>3. data[Head(todo)] \in Vals
    BY <1>7 DEF FlushWrites, ContentsValid
  <2>4. TypeOK'
    BY <1>1, <1>3, <1>7, <2>1, <2>3 DEF FlushWrites, Goto, TypeOK, Places
  <2>5. Pointing' /\ Locking'
    BY <1>1, <1>7, <2>1
       DEF FlushWrites, Goto, TypeOK, Pointing, Locking, AtRest, InFlush
  <2> QED BY <1>2, <2>2, <2>4, <2>5
<1>8. CASE FlushClears(c)
  <2>1. flusher = c /\ flusher # NoClient /\ todo # <<>>
    BY <1>8 DEF FlushClears, Locking, InFlush, BufferAssumption
  <2>2. FlushWalksTheList'
    BY <1>4, <1>8, <2>1 DEF FlushClears
  <2>3. TypeOK' /\ ContentsValid'
    BY <1>1, <1>3, <1>8, <2>1
       DEF FlushClears, Goto, TypeOK, Places, ContentsValid
  <2>4. Pointing' /\ Locking'
    BY <1>1, <1>8, <2>1
       DEF FlushClears, Goto, TypeOK, Pointing, Locking, AtRest, InFlush
  <2> QED BY <1>2, <2>2, <2>3, <2>4
<1>9. CASE FlushEnd(c)
  <2>1. FlushWalksTheList'
    BY <1>9 DEF FlushEnd, FlushWalksTheList
  <2>2. TypeOK' /\ ContentsValid'
    BY <1>1, <1>9
       DEF FlushEnd, Goto, TypeOK, Places, AtRest, ContentsValid, bufs
  <2>3. flusher = c /\ c # NoClient
    BY <1>9 DEF FlushEnd, Locking, InFlush, BufferAssumption
  <2>4. Pointing' /\ Locking'
    BY <1>1, <1>9, <2>3
       DEF FlushEnd, Goto, TypeOK, Pointing, Locking, AtRest, InFlush,
           BufferAssumption
  <2> QED BY <1>2, <2>1, <2>2, <2>4
<1> QED BY <1>5, <1>6, <1>7, <1>8, <1>9

\* An empty cache satisfies the invariant: at the start, after
\* ufs_bcache_destroy and after a crash.
LEMMA EmptyIsSound ==
  ASSUME BufferAssumption
  PROVE  /\ Init => IndInv
         /\ EmptyCache /\ disk' \in [Blocks -> Vals] /\ stored' \in [Blocks -> Vals \cup {Junk}]
              => IndInv'
<1>1. /\ IsInjective(<<>>) /\ Len(<<>>) = 0 /\ DOMAIN <<>> = {}
      /\ <<>> \in Seq(Blocks)
  BY DEF IsInjective
<1>2. \A r \in [Clients -> {NoBlock}] : \A b \in Blocks :
        Cardinality({c \in Clients : r[c] = b}) = 0
  <2> TAKE r \in [Clients -> {NoBlock}]
  <2> TAKE b \in Blocks
  <2>1. {c \in Clients : r[c] = b} = {}
    BY DEF BufferAssumption
  <2> QED BY <2>1, FS_EmptySet
<1>3. ASSUME Init PROVE IndInv
  <2> USE <1>3 DEF Init
  <2>0. pc \in [Clients -> Places] /\ ContentsValid
    BY DEF ContentsValid, Places, AtRest
  <2>1. TypeOK
    BY <1>1, <2>0 DEF TypeOK
  <2>2. Pointing /\ Locking /\ FlushWalksTheList
    BY DEF Pointing, Locking, FlushWalksTheList, AtRest, InFlush,
           BufferAssumption
  <2>3. LruSound
    BY <1>1 DEF LruSound, BufferAssumption
  <2>4. ref \in [Clients -> {NoBlock}]
    OBVIOUS
  <2>5. ReferencesHold
    BY <1>2, <2>4 DEF ReferencesHold
  <2> QED BY <2>0, <2>1, <2>2, <2>3, <2>5 DEF IndInv
<1>4. ASSUME EmptyCache, disk' \in [Blocks -> Vals], stored' \in [Blocks -> Vals \cup {Junk}]
      PROVE  IndInv'
  <2> USE <1>4 DEF EmptyCache
  <2>0. pc' \in [Clients -> Places] /\ ContentsValid'
    BY DEF ContentsValid, Places, AtRest
  <2>1. TypeOK'
    BY <1>1, <2>0 DEF TypeOK
  <2>2. Pointing' /\ Locking' /\ FlushWalksTheList'
    BY DEF Pointing, Locking, FlushWalksTheList, AtRest, InFlush,
           BufferAssumption
  <2>3. LruSound'
    BY <1>1 DEF LruSound, BufferAssumption
  <2>4. ref' \in [Clients -> {NoBlock}]
    OBVIOUS
  <2>5. ReferencesHold'
    BY <1>2, <2>4 DEF ReferencesHold
  <2> QED BY <2>0, <2>1, <2>2, <2>3, <2>5 DEF IndInv
<1> QED BY <1>3, <1>4

-----------------------------------------------------------------------------
(* The theorems.                                                           *)

\* Every step of the buffer cache keeps the inductive invariant.
LEMMA StepKeeps ==
  ASSUME BufferAssumption, IndInv, [Next]_vars
  PROVE  IndInv'
<1>1. ASSUME NEW c \in Clients, NEW b \in Blocks, Bread(c, b) \/ Bget(c, b)
      PROVE  IndInv'
  <2>1. \E place \in {"fill", "held"} : GetBuffer(c, b, place)
    BY <1>1 DEF Bread, Bget
  <2> QED BY <2>1, GetBufferKeeps
<1>2. ASSUME NEW c \in Clients,
             \/ CheckUptodate(c) \/ Pread(c)
             \/ \E v \in Vals : Modify(c, v)
             \/ SyncSkips(c) \/ SyncWrites(c) \/ SyncClears(c)
      PROVE  IndInv'
  BY <1>2, UseKeeps
<1>3. ASSUME NEW c \in Clients, PreadFails(c) \/ Brelse(c) PROVE IndInv'
  BY <1>3, ReleaseKeeps
<1>4. ASSUME NEW c \in Clients,
             \/ FlushBegin(c) \/ FlushPasses(c) \/ FlushWrites(c)
             \/ FlushClears(c) \/ FlushEnd(c)
      PROVE  IndInv'
  BY <1>4, FlushKeeps
<1>5. CASE Destroy
  <2>1. disk' \in [Blocks -> Vals] /\ stored' \in [Blocks -> Vals \cup {Junk}]
    BY <1>5 DEF Destroy, IndInv, TypeOK, ContentsValid
  <2> QED BY <1>5, <2>1, EmptyIsSound DEF Destroy
<1>6. CASE Crash
  BY <1>6, EmptyIsSound DEF Crash, IndInv, TypeOK
<1>7. CASE UNCHANGED vars
  BY <1>7 DEF vars, cache, bufs, flush, IndInv, TypeOK, ContentsValid,
              Pointing, Locking, LruSound, ReferencesHold, FlushWalksTheList,
              Cached
<1> QED BY <1>1, <1>2, <1>3, <1>4, <1>5, <1>6, <1>7 DEF Next

\* The inductive invariant holds in every reachable state.
THEOREM Inductive == Spec => []IndInv
<1>1. Init => IndInv
  BY BufferAssumption, EmptyIsSound
<1>2. IndInv /\ [Next]_vars => IndInv'
  BY BufferAssumption, StepKeeps
<1> QED BY <1>1, <1>2, PTL DEF Spec

\* evict_one never frees a buffer that some caller of ufs_bread or ufs_bget
\* still points to, and b_count is the number of these callers.
THEOREM ReferencesAlwaysHold == Spec => []ReferencesHold
<1>1. IndInv => ReferencesHold
  BY DEF IndInv
<1> QED BY <1>1, Inductive, PTL

\* The LRU list names every cached block once, nr_bufs is its length and
\* stays within UFS_BCACHE_MAX_BUF.
THEOREM LruAlwaysSound == Spec => []LruSound
<1>1. IndInv => LruSound
  BY DEF IndInv
<1> QED BY <1>1, Inductive, PTL

\* ufs_bcache_flush walks a list that nobody changes under its feet.
THEOREM FlushAlwaysWalksTheList == Spec => []FlushWalksTheList
<1>1. IndInv => FlushWalksTheList
  BY DEF IndInv
<1> QED BY <1>1, Inductive, PTL
-----------------------------------------------------------------------------
(* What is on the device, when threads take turns.                         *)

\* No thread is inside the buffer layer, or holds a buffer, while another is.
OneAtATime ==
  \A c, d \in Clients : pc[c] \notin AtRest /\ pc[d] \notin AtRest => c = d

\* Only cached buffers have contents that count, and these differ from the
\* device only where b_dirty says so, or where the write is just done.
CacheAgrees ==
  /\ dirty \subseteq uptodate
  /\ uptodate \subseteq Cached
  /\ \A b \in uptodate \ dirty : data[b] = disk[b]
  /\ \A c \in Clients :
       /\ pc[c] \in {"held", "wrote", "synced"} => ref[c] \in uptodate
       /\ pc[c] = "pread" => ref[c] \notin uptodate
       /\ pc[c] \in {"wrote", "synced"} => disk[ref[c]] = data[ref[c]]
       /\ pc[c] = "flushwrote" => disk[Head(todo)] = data[Head(todo)]

\* What a flush without an error has behind it is clean.
FlushCleans ==
  \A c \in Clients : pc[c] \in InFlush /\ ~ flushErr => dirty \subseteq ToSet(todo)

SerialInv == CacheAgrees /\ FlushCleans

\* A step of the abstract store, or none.
StoreStep == [Store!Next]_(Store!vars)

LEMMA StoreStutters ==
  ASSUME View' = View, disk' = disk, stored' = stored
  PROVE  StoreStep
BY DEF StoreStep, Store!vars

\* Evicting a buffer that nobody points to: its block goes to the device, or
\* the device refuses it.
LEMMA EvictAgrees ==
  ASSUME BufferAssumption, IndInv, CacheAgrees, NEW v \in Blocks, Evict(v)
  PROVE  /\ dirty' = dirty \ {v} /\ uptodate' = uptodate \ {v}
         /\ \A b \in Blocks : b # v => disk'[b] = disk[b] /\ data'[b] = data[b]
         /\ StoreStep
<1>1. /\ dirty' = dirty \ {v} /\ uptodate' = uptodate \ {v}
      /\ \A b \in Blocks : b # v => disk'[b] = disk[b] /\ data'[b] = data[b]
  BY DEF Evict, IndInv, TypeOK
<1>2. /\ disk \in [Blocks -> Vals] /\ disk' \in [Blocks -> Vals]
      /\ stored \in [Blocks -> Vals \cup {Junk}]
      /\ \A b \in uptodate : b \in Blocks
  BY EvictKeepsContents DEF IndInv, TypeOK
<1>3. \A b \in Blocks : b # v => View'[b] = View[b]
  BY <1>1 DEF View
<1>4. View'[v] = disk'[v]
  BY <1>1 DEF View
<1>5. View = [b \in Blocks |-> View[b]] /\ View' = [b \in Blocks |-> View'[b]]
  BY DEF View
<1>6. CASE v \in dirty \cap uptodate /\ disk' = [disk EXCEPT ![v] = data[v]] /\ UNCHANGED stored
  <2>1. View[v] = data[v] /\ disk'[v] = data[v]
    BY <1>2, <1>6 DEF View
  <2>2. View' = View
    BY <1>3, <1>4, <1>5, <2>1
  <2>3. Store!Persist(v)
    BY <1>6, <2>1, <2>2 DEF Store!Persist
  <2> QED BY <1>1, <2>3 DEF StoreStep, Store!Next
<1>7. CASE stored' = [stored EXCEPT ![v] = Junk] /\ UNCHANGED disk
  <2>1. View' = [View EXCEPT ![v] = disk[v]]
    BY <1>3, <1>4, <1>5, <1>7
  <2>2. Store!Refuse(v)
    BY <1>7, <2>1 DEF Store!Refuse
  <2> QED BY <1>1, <2>2 DEF StoreStep, Store!Next
<1>8. CASE v \notin dirty \cap uptodate /\ UNCHANGED <<disk, stored>>
  <2>1. View[v] = disk[v]
    BY <1>8 DEF CacheAgrees, View
  <2>2. View' = View
    BY <1>3, <1>4, <1>5, <1>8, <2>1
  <2> QED BY <1>1, <1>8, <2>2, StoreStutters
<1>9. \/ v \in dirty \cap uptodate /\ disk' = [disk EXCEPT ![v] = data[v]] /\ UNCHANGED stored
      \/ stored' = [stored EXCEPT ![v] = Junk] /\ UNCHANGED disk
      \/ v \notin dirty \cap uptodate /\ UNCHANGED <<disk, stored>>
  BY DEF Evict
<1> QED BY <1>1, <1>6, <1>7, <1>8, <1>9

\* ufs_bread up to the end of its critical section, also on behalf of a
\* client that gets no buffer while another one works.
LEMMA GetBufferAgrees ==
  ASSUME BufferAssumption, IndInv, SerialInv, NEW c \in Clients, NEW b \in Blocks,
         GetBuffer(c, b, "fill")
  PROVE  SerialInv' /\ StoreStep
<1>1. /\ pc[c] \in AtRest
      /\ flusher = NoClient /\ todo' = todo
      /\ \A d \in Clients : pc[d] \notin InFlush
  BY DEF GetBuffer, Unlocked, flush, IndInv, Locking, BufferAssumption
<1>2. \/ pc' = [pc EXCEPT ![c] = "fill"] /\ ref' = [ref EXCEPT ![c] = b]
      \/ pc' = [pc EXCEPT ![c] = "null"] /\ ref' = ref
  BY DEF GetBuffer, Goto
<1>3. /\ pc'[c] \in {"fill", "null"}
      /\ \A d \in Clients : d # c => pc'[d] = pc[d] /\ ref'[d] = ref[d]
  BY <1>2 DEF IndInv, TypeOK
<1>4. FlushCleans'
  BY <1>1, <1>3 DEF FlushCleans, InFlush
<1>5. CASE UNCHANGED <<disk, data, dirty, uptodate, stored>> /\ Cached \subseteq Cached'
  <2>1. CacheAgrees'
    BY <1>1, <1>3, <1>5 DEF SerialInv, CacheAgrees
  <2>2. StoreStep
    BY <1>5, StoreStutters DEF View
  <2> QED BY <1>4, <2>1, <2>2 DEF SerialInv
<1>6. ASSUME NEW v \in Cached, count[v] = 0, Evict(v), Cached \ {v} \subseteq Cached'
      PROVE  SerialInv' /\ StoreStep
  <2>1. v \in Blocks
    BY DEF IndInv, TypeOK, Cached, ToSet
  <2>2. /\ dirty' = dirty \ {v} /\ uptodate' = uptodate \ {v}
        /\ \A x \in Blocks : x # v => disk'[x] = disk[x] /\ data'[x] = data[x]
        /\ StoreStep
    BY <1>6, <2>1, EvictAgrees DEF SerialInv
  <2>3. \A d \in Clients : ref[d] # v
    BY <1>6, <2>1, FreeMeansUnheld DEF IndInv
  <2>4. uptodate \subseteq Blocks
    BY DEF IndInv, TypeOK
  <2>5. /\ dirty' \subseteq uptodate'
        /\ uptodate' \subseteq Cached'
        /\ \A x \in uptodate' \ dirty' : data'[x] = disk'[x]
    BY <1>6, <2>2, <2>4 DEF SerialInv, CacheAgrees
  <2>6. ASSUME NEW d \in Clients
        PROVE  /\ pc'[d] \in {"held", "wrote", "synced"} => ref'[d] \in uptodate'
               /\ pc'[d] = "pread" => ref'[d] \notin uptodate'
               /\ pc'[d] \in {"wrote", "synced"} => disk'[ref'[d]] = data'[ref'[d]]
               /\ pc'[d] = "flushwrote" => disk'[Head(todo')] = data'[Head(todo')]
    <3>1. CASE d = c
      BY <1>3, <3>1
    <3>2. CASE d # c
      <4>1. pc'[d] = pc[d] /\ ref'[d] = ref[d] /\ ref[d] # v
        BY <1>3, <2>3, <3>2
      <4>2. pc[d] # "flushwrote"
        BY <1>1 DEF InFlush
      <4>3. pc[d] \in {"held", "wrote", "synced"} => ref[d] \in Blocks
        BY <2>4 DEF SerialInv, CacheAgrees
      <4> QED BY <2>2, <4>1, <4>2, <4>3 DEF SerialInv, CacheAgrees
    <3> QED BY <3>1, <3>2
  <2> QED BY <1>4, <2>2, <2>5, <2>6 DEF SerialInv, CacheAgrees
<1>7. CASE Hit(b)
  <2>1. Cached' = Cached
    BY <1>7, HitKeepsList DEF IndInv, TypeOK
  <2> QED BY <1>5, <1>7, <2>1 DEF Hit, bufs
<1>8. CASE AllocInRoom(b)
  <2>1. Cached' = Cached \cup {b}
    BY <1>8, AllocInRoomExtendsList DEF IndInv, TypeOK
  <2> QED BY <1>5, <1>8, <2>1 DEF AllocInRoom, bufs
<1>9. CASE AllocByEviction(b)
  <2>1. PICK v \in Cached :
          count[v] = 0 /\ Evict(v) /\ Cached' = (Cached \ {v}) \cup {b}
    BY <1>9, AllocByEvictionSwaps DEF IndInv, TypeOK
  <2> QED BY <1>6, <2>1
<1>10. CASE EvictThenNoMemory(b)
  <2>1. PICK v \in Cached : count[v] = 0 /\ Evict(v) /\ Cached' = Cached \ {v}
    BY <1>10, EvictThenNoMemoryShrinks DEF IndInv, TypeOK
  <2> QED BY <1>6, <2>1
<1>11. CASE AllocFails(b)
  BY <1>5, <1>11 DEF AllocFails, bufs, cache, Cached
<1> QED BY <1>7, <1>8, <1>9, <1>10, <1>11 DEF GetBuffer

\* While a client is inside, its own place is the only one that matters.
LEMMA OthersRest ==
  ASSUME IndInv, OneAtATime, NEW c \in Clients, pc[c] \notin AtRest,
         NEW q \in Places, pc' = [pc EXCEPT ![c] = q]
  PROVE  /\ pc'[c] = q
         /\ \A d \in Clients : d # c => pc[d] \in AtRest /\ pc'[d] \in AtRest
BY DEF IndInv, TypeOK, OneAtATime

\* Filling, storing into and syncing a buffer.
LEMMA UseAgrees ==
  ASSUME BufferAssumption, IndInv, SerialInv, OneAtATime, NEW c \in Clients,
         \/ CheckUptodate(c) \/ Pread(c)
         \/ \E v \in Vals : Modify(c, v)
         \/ SyncSkips(c) \/ SyncWrites(c) \/ SyncClears(c)
  PROVE  SerialInv' /\ StoreStep
<1> USE DEF IndInv, SerialInv
<1>1. UNCHANGED <<lru, ref, todo, flushErr>> /\ Cached' = Cached
  BY DEF CheckUptodate, Pread, Modify, SyncSkips, SyncWrites, SyncClears,
         cache, bufs, flush, Cached
<1>2. /\ pc[c] \in {"fill", "pread", "held", "wrote", "synced"}
      /\ \E q \in {"pread", "held", "wrote", "synced"} : pc' = [pc EXCEPT ![c] = q]
  BY DEF CheckUptodate, Pread, Modify, SyncSkips, SyncWrites, SyncClears, Goto
<1>3. /\ pc'[c] \in {"pread", "held", "wrote", "synced"}
      /\ \A d \in Clients : d # c => pc[d] \in AtRest /\ pc'[d] \in AtRest
  BY <1>2, OthersRest DEF AtRest, Places
<1>4. FlushCleans'
  BY <1>3 DEF FlushCleans, InFlush, AtRest
<1>5. ref[c] \in Blocks /\ ref[c] \in Cached
  BY <1>2, BufferAssumption
     DEF TypeOK, Pointing, ReferencesHold, AtRest, InFlush, BufferAssumption
<1>6. CASE CheckUptodate(c)
  <2>1. UNCHANGED <<disk, data, dirty, uptodate, stored>>
    BY <1>6 DEF CheckUptodate, bufs
  <2>2. pc'[c] = IF ref[c] \in uptodate THEN "held" ELSE "pread"
    BY <1>6 DEF CheckUptodate, Goto, TypeOK
  <2>3. CacheAgrees'
    BY <1>1, <1>3, <2>1, <2>2 DEF CacheAgrees, AtRest
  <2> QED BY <1>4, <2>1, <2>3, StoreStutters DEF View
<1>7. CASE Pread(c)
  <2>1. /\ UNCHANGED <<disk, dirty, stored>>
        /\ data' = [data EXCEPT ![ref[c]] = disk[ref[c]]]
        /\ uptodate' = uptodate \cup {ref[c]}
        /\ pc'[c] = "held" /\ ref[c] \notin uptodate
    BY <1>7 DEF Pread, Goto, TypeOK, CacheAgrees
  <2>4. /\ dirty' \subseteq uptodate'
        /\ uptodate' \subseteq Cached'
        /\ \A b \in uptodate' \ dirty' : data'[b] = disk'[b]
    BY <1>1, <1>5, <2>1 DEF CacheAgrees, TypeOK
  <2>2. CacheAgrees'
    BY <1>1, <1>3, <2>1, <2>4 DEF CacheAgrees, AtRest
  <2>3. View' = View
    BY <1>5, <2>1 DEF View, TypeOK
  <2> QED BY <1>4, <2>1, <2>2, <2>3, StoreStutters
<1>8. ASSUME NEW v \in Vals, Modify(c, v) PROVE SerialInv' /\ StoreStep
  <2>1. /\ UNCHANGED <<disk, uptodate>>
        /\ data' = [data EXCEPT ![ref[c]] = v]
        /\ dirty' = dirty \cup {ref[c]}
        /\ stored' = [stored EXCEPT ![ref[c]] = v]
        /\ pc'[c] = "held" /\ pc[c] \in {"held", "synced"}
    BY <1>8 DEF Modify, Goto, TypeOK
  <2>2. ref[c] \in uptodate
    BY <2>1 DEF CacheAgrees
  <2>3. CacheAgrees'
    BY <1>1, <1>3, <2>1, <2>2 DEF CacheAgrees, AtRest, TypeOK
  <2>4. View' = [View EXCEPT ![ref[c]] = v]
    BY <1>5, <2>1, <2>2 DEF View, TypeOK
  <2>5. Store!Write(ref[c], v)
    BY <2>1, <2>4 DEF Store!Write
  <2>6. StoreStep
    BY <1>5, <2>5 DEF StoreStep, Store!Next
  <2> QED BY <1>4, <2>3, <2>6
<1>9. CASE SyncSkips(c)
  <2>1. UNCHANGED <<disk, data, dirty, uptodate, stored>>
    BY <1>9 DEF SyncSkips, bufs
  <2>2. pc'[c] = "synced" /\ pc[c] = "held" /\ ref[c] \notin dirty \cap uptodate
    BY <1>9 DEF SyncSkips, Goto, TypeOK
  <2>3. ref[c] \in uptodate \ dirty
    BY <2>2 DEF CacheAgrees
  <2>4. CacheAgrees'
    BY <1>1, <1>3, <2>1, <2>2, <2>3 DEF CacheAgrees, AtRest
  <2> QED BY <1>4, <2>1, <2>4, StoreStutters DEF View
<1>10. CASE SyncWrites(c)
  <2>1. /\ UNCHANGED <<data, dirty, uptodate, stored>>
        /\ disk' = [disk EXCEPT ![ref[c]] = data[ref[c]]]
        /\ pc'[c] = "wrote" /\ ref[c] \in dirty \cap uptodate
    BY <1>10 DEF SyncWrites, bufs, Goto, TypeOK
  <2>2. CacheAgrees'
    BY <1>1, <1>3, <1>5, <2>1 DEF CacheAgrees, AtRest, TypeOK
  <2>3. View' = View /\ View[ref[c]] = data[ref[c]]
    BY <1>5, <2>1 DEF View, TypeOK
  <2>4. Store!Persist(ref[c])
    BY <2>1, <2>3 DEF Store!Persist
  <2>5. StoreStep
    BY <1>5, <2>4 DEF StoreStep, Store!Next
  <2> QED BY <1>4, <2>2, <2>5
<1>11. CASE SyncClears(c)
  <2>1. /\ UNCHANGED <<disk, data, uptodate, stored>>
        /\ dirty' = dirty \ {ref[c]}
        /\ pc'[c] = "synced" /\ pc[c] = "wrote"
    BY <1>11 DEF SyncClears, Goto, TypeOK
  <2>2. ref[c] \in uptodate /\ disk[ref[c]] = data[ref[c]]
    BY <2>1 DEF CacheAgrees
  <2>3. CacheAgrees'
    BY <1>1, <1>3, <2>1, <2>2 DEF CacheAgrees, AtRest
  <2> QED BY <1>4, <2>1, <2>3, StoreStutters DEF View
<1> QED BY <1>6, <1>7, <1>8, <1>9, <1>10, <1>11

\* Giving a buffer up.
LEMMA ReleaseAgrees ==
  ASSUME BufferAssumption, IndInv, SerialInv, OneAtATime, NEW c \in Clients,
         PreadFails(c) \/ Brelse(c)
  PROVE  SerialInv' /\ StoreStep
<1>1. UNCHANGED <<disk, lru, data, dirty, uptodate, stored, todo, flushErr>>
  BY DEF PreadFails, Brelse, bufs, flush
<1>2. /\ pc[c] \notin AtRest
      /\ \E q \in {"null", "idle"} : pc' = [pc EXCEPT ![c] = q]
  BY DEF PreadFails, Brelse, Goto, AtRest
<1>3. \A d \in Clients : pc'[d] \in AtRest
  BY <1>2, OthersRest DEF AtRest, Places
<1>4. SerialInv'
  BY <1>1, <1>3 DEF SerialInv, CacheAgrees, FlushCleans, AtRest, InFlush, Cached
<1> QED BY <1>1, <1>4, StoreStutters DEF View

\* ufs_bcache_flush.
LEMMA FlushAgrees ==
  ASSUME BufferAssumption, IndInv, SerialInv, OneAtATime, OneAtATime', NEW c \in Clients,
         \/ FlushBegin(c) \/ FlushPasses(c) \/ FlushWrites(c)
         \/ FlushClears(c) \/ FlushEnd(c)
  PROVE  SerialInv' /\ StoreStep
<1> USE DEF IndInv, SerialInv
<1>1. UNCHANGED <<lru, data, uptodate, stored>> /\ Cached' = Cached
  BY DEF FlushBegin, FlushPasses, FlushWrites, FlushClears, FlushEnd, cache, bufs, Cached
<1>2. todo # <<>> =>
        /\ Head(todo) \in Blocks
        /\ ToSet(todo) \subseteq ToSet(Tail(todo)) \cup {Head(todo)}
  <2> SUFFICES ASSUME todo # <<>>
               PROVE  /\ Head(todo) \in Blocks
                      /\ ToSet(todo) \subseteq ToSet(Tail(todo)) \cup {Head(todo)}
    OBVIOUS
  <2>1. todo \in Seq(Blocks)
    BY DEF TypeOK
  <2>2. ASSUME NEW i \in DOMAIN todo, i # 1 PROVE todo[i] \in ToSet(Tail(todo))
    <3>1. i - 1 \in DOMAIN Tail(todo) /\ Tail(todo)[i - 1] = todo[i]
      BY <2>1, <2>2
    <3> QED BY <3>1 DEF ToSet
  <2> QED BY <2>1, <2>2 DEF ToSet
<1>3. CASE FlushBegin(c)
  <2>1. /\ UNCHANGED <<disk, dirty>> /\ pc'[c] = "flush" /\ todo' = lru
        /\ \A d \in Clients : d # c => pc'[d] = pc[d]
    BY <1>3 DEF FlushBegin, Goto, TypeOK, bufs
  <2>2. \A d \in Clients : d # c => pc[d] \in AtRest /\ pc'[d] \in AtRest
    BY <2>1 DEF OneAtATime, AtRest
  <2>3. CacheAgrees'
    BY <1>1, <2>1, <2>2 DEF CacheAgrees, AtRest
  <2>4. FlushCleans'
    BY <1>1, <2>1 DEF FlushCleans, CacheAgrees, Cached
  <2> QED BY <1>1, <2>1, <2>3, <2>4, StoreStutters DEF View
<1>4. ASSUME pc[c] \in InFlush
      PROVE  \A d \in Clients : d # c => pc[d] \in AtRest
  BY <1>4 DEF OneAtATime, InFlush, AtRest
<1>5. CASE FlushPasses(c)
  <2>1. /\ UNCHANGED <<disk, dirty, pc>> /\ todo' = Tail(todo)
        /\ pc[c] = "flush" /\ todo # <<>>
        /\ Head(todo) \in dirty => flushErr'
        /\ flushErr => flushErr'
    BY <1>5 DEF FlushPasses, bufs, CacheAgrees
  <2>2. CacheAgrees'
    BY <1>1, <1>4, <2>1 DEF CacheAgrees, AtRest, InFlush
  <2>3. FlushCleans'
    BY <1>2, <1>4, <2>1 DEF FlushCleans, AtRest, InFlush
  <2> QED BY <1>1, <2>1, <2>2, <2>3, StoreStutters DEF View
<1>6. CASE FlushWrites(c)
  <2>1. /\ UNCHANGED <<dirty, todo, flushErr>> /\ pc[c] = "flush" /\ todo # <<>>
        /\ Head(todo) \in dirty \cap uptodate
        /\ disk' = [disk EXCEPT ![Head(todo)] = data[Head(todo)]]
        /\ pc'[c] = "flushwrote"
        /\ \A d \in Clients : d # c => pc'[d] = pc[d]
    BY <1>6 DEF FlushWrites, bufs, flush, Goto, TypeOK
  <2>2. CacheAgrees'
    BY <1>1, <1>2, <1>4, <2>1 DEF CacheAgrees, AtRest, InFlush, TypeOK
  <2>3. FlushCleans'
    BY <1>4, <2>1 DEF FlushCleans, AtRest, InFlush
  <2>4. View' = View /\ View[Head(todo)] = data[Head(todo)]
    BY <1>1, <1>2, <2>1 DEF View, TypeOK
  <2>5. Store!Persist(Head(todo))
    BY <1>1, <2>1, <2>4 DEF Store!Persist
  <2>6. StoreStep
    BY <1>2, <2>1, <2>5 DEF StoreStep, Store!Next
  <2> QED BY <2>2, <2>3, <2>6
<1>7. CASE FlushClears(c)
  <2>1. /\ UNCHANGED <<disk, flushErr>> /\ pc[c] = "flushwrote" /\ todo # <<>>
        /\ dirty' = dirty \ {Head(todo)}
        /\ todo' = Tail(todo)
        /\ pc'[c] = "flush"
        /\ \A d \in Clients : d # c => pc'[d] = pc[d]
    BY <1>7 DEF FlushClears, Goto, TypeOK, Locking
  <2>2. CacheAgrees'
    BY <1>1, <1>4, <2>1 DEF CacheAgrees, AtRest, InFlush
  <2>3. FlushCleans'
    BY <1>2, <1>4, <2>1 DEF FlushCleans, AtRest, InFlush
  <2> QED BY <1>1, <2>1, <2>2, <2>3, StoreStutters DEF View
<1>8. CASE FlushEnd(c)
  <2>1. /\ UNCHANGED <<disk, dirty, todo, ref>> /\ pc[c] = "flush"
        /\ pc'[c] \in {"null", "flushed"}
        /\ \A d \in Clients : d # c => pc'[d] = pc[d]
    BY <1>8 DEF FlushEnd, Goto, TypeOK, bufs
  <2>2. \A d \in Clients : pc'[d] \in AtRest
    BY <1>4, <2>1 DEF AtRest, InFlush
  <2>3. CacheAgrees' /\ FlushCleans'
    BY <1>1, <2>1, <2>2 DEF CacheAgrees, FlushCleans, AtRest, InFlush
  <2> QED BY <1>1, <2>1, <2>3, StoreStutters DEF View
<1> QED BY <1>3, <1>5, <1>6, <1>7, <1>8

\* The end of a cache leaves nothing to agree with.
LEMMA EmptyAgrees ==
  ASSUME BufferAssumption, IndInv, SerialInv, Destroy \/ Crash
  PROVE  SerialInv' /\ StoreStep
<1>1. /\ dirty' = {} /\ uptodate' = {}
      /\ \A c \in Clients : pc'[c] = "idle"
  BY DEF Destroy, Crash, EmptyCache
<1>2. SerialInv'
  BY <1>1 DEF SerialInv, CacheAgrees, FlushCleans, InFlush
<1>3. disk \in [Blocks -> Vals] /\ stored \in [Blocks -> Vals \cup {Junk}]
  BY DEF IndInv, TypeOK
<1>4. CASE Crash
  <2>1. View' = disk
    BY <1>1, <1>3, <1>4 DEF Crash, View
  <2>2. Store!Crash
    BY <1>4, <2>1 DEF Crash, Store!Crash
  <2> QED BY <1>2, <2>2 DEF StoreStep, Store!Next
<1>5. CASE Destroy
  <2>1. PICK F \in SUBSET dirty :
          /\ disk' = [b \in Blocks |-> IF b \in dirty \ F THEN data[b] ELSE disk[b]]
          /\ stored' = [b \in Blocks |-> IF b \in F THEN Junk ELSE stored[b]]
    BY <1>5 DEF Destroy
  <2>2. View' = disk'
    BY <1>1, <2>1 DEF View
  <2>3. \A b \in Blocks : (IF b \in dirty \ F THEN data[b] ELSE disk[b]) =
                            IF b \in F THEN disk[b] ELSE View[b]
    BY DEF View, SerialInv, CacheAgrees
  <2>4. disk' = [b \in Blocks |-> IF b \in F THEN disk[b] ELSE View[b]]
    BY <2>1, <2>3
  <2>5. Store!Close(F)
    BY <2>1, <2>2, <2>4 DEF Store!Close
  <2>6. F \in SUBSET Blocks
    BY DEF IndInv, TypeOK
  <2> QED BY <1>2, <2>5, <2>6 DEF StoreStep, Store!Next
<1> QED BY <1>4, <1>5

\* Every step of threads that take turns keeps the two in agreement, and is a
\* step of the abstract store.
LEMMA StepAgrees ==
  ASSUME BufferAssumption, GetBlocks = {}, IndInv, SerialInv,
         OneAtATime, OneAtATime', [Next]_vars
  PROVE  SerialInv' /\ StoreStep
<1>1. ASSUME NEW c \in Clients, NEW b \in Blocks, Bread(c, b) \/ Bget(c, b)
      PROVE  SerialInv' /\ StoreStep
  BY <1>1, GetBufferAgrees DEF Bread, Bget
<1>2. ASSUME NEW c \in Clients,
             \/ CheckUptodate(c) \/ Pread(c)
             \/ \E v \in Vals : Modify(c, v)
             \/ SyncSkips(c) \/ SyncWrites(c) \/ SyncClears(c)
      PROVE  SerialInv' /\ StoreStep
  BY <1>2, UseAgrees
<1>3. ASSUME NEW c \in Clients, PreadFails(c) \/ Brelse(c)
      PROVE  SerialInv' /\ StoreStep
  BY <1>3, ReleaseAgrees
<1>4. ASSUME NEW c \in Clients,
             \/ FlushBegin(c) \/ FlushPasses(c) \/ FlushWrites(c)
             \/ FlushClears(c) \/ FlushEnd(c)
      PROVE  SerialInv' /\ StoreStep
  BY <1>4, FlushAgrees
<1>5. CASE Destroy \/ Crash
  BY <1>5, EmptyAgrees
<1>6. CASE UNCHANGED vars
  BY <1>6, StoreStutters
     DEF vars, cache, bufs, flush, SerialInv, CacheAgrees, FlushCleans, Cached, View
<1> QED BY <1>1, <1>2, <1>3, <1>4, <1>5, <1>6 DEF Next

LEMMA SerialStart ==
  ASSUME Init
  PROVE  SerialInv /\ Store!Init
<1>1. SerialInv
  BY DEF Init, SerialInv, CacheAgrees, FlushCleans, InFlush
<1>2. View = disk
  BY DEF Init, View
<1> QED BY <1>1, <1>2 DEF Init, Store!Init

\* The strengthened invariant of threads that take turns.
LEMMA TurnsInductive ==
  GetBlocks = {} /\ Spec /\ []OneAtATime => []SerialInv
<1> SUFFICES ASSUME GetBlocks = {} PROVE Spec /\ []OneAtATime => []SerialInv
  OBVIOUS
<1>1. Init => SerialInv
  BY SerialStart
<1>2. IndInv /\ SerialInv /\ OneAtATime /\ OneAtATime' /\ [Next]_vars => SerialInv'
  BY BufferAssumption, StepAgrees
<1> QED BY <1>1, <1>2, Inductive, PTL DEF Spec

\* Threads that take turns, and read every block before they change it: when
\* ufs_sync_buf has returned 0, what the buffer holds is on the device.
THEOREM SyncedAlwaysOnDisk ==
  GetBlocks = {} /\ Spec /\ []OneAtATime => []SyncedOnDisk
<1>1. SerialInv => SyncedOnDisk
  BY DEF SerialInv, CacheAgrees, SyncedOnDisk
<1> QED BY <1>1, TurnsInductive, PTL

\* To threads that take turns the cache is a block store, through evictions,
\* failing reads and writes, flushes, unmounts and crashes.
THEOREM CacheImplementsStore ==
  GetBlocks = {} /\ Spec /\ []OneAtATime => ImplementsStore
<1> SUFFICES ASSUME GetBlocks = {} PROVE Spec /\ []OneAtATime => ImplementsStore
  OBVIOUS
<1>1. Init => Store!Init
  BY SerialStart
<1>2. IndInv /\ SerialInv /\ OneAtATime /\ OneAtATime' /\ [Next]_vars
        => [Store!Next]_(Store!vars)
  BY BufferAssumption, StepAgrees DEF StoreStep
<1>3. Spec /\ []OneAtATime => []SerialInv
  BY TurnsInductive
<1> QED BY <1>1, <1>2, <1>3, Inductive, PTL DEF Spec, ImplementsStore, Store!Spec

\* A thread that has the device to itself: when ufs_bcache_flush has returned 0
\* the device holds what the cache does, until the thread calls again.
THEOREM FlushedAlwaysOnDisk ==
  GetBlocks = {} /\ (\A c, d \in Clients : c = d) /\ Spec => []FlushedOnDisk
<1> SUFFICES ASSUME GetBlocks = {}, \A c, d \in Clients : c = d
             PROVE  Spec => []FlushedOnDisk
  OBVIOUS
<1> DEFINE Clean == \A c \in Clients : pc[c] = "flushed" => dirty = {}
<1>1. OneAtATime
  BY DEF OneAtATime
<1>2. Init => Clean
  BY DEF Init
<1>3. IndInv /\ SerialInv /\ Clean /\ [Next]_vars => Clean'
  <2> SUFFICES ASSUME IndInv, SerialInv, Clean, [Next]_vars,
                      NEW c \in Clients, pc'[c] = "flushed"
               PROVE  dirty' = {}
    OBVIOUS
  <2>1. CASE pc' = pc /\ dirty' = dirty
    BY <2>1
  <2>2. CASE FlushEnd(c)
    <3>1. dirty' = dirty /\ todo = <<>> /\ pc[c] = "flush" /\ ~ flushErr
      BY <2>2 DEF FlushEnd, bufs, Goto, IndInv, TypeOK
    <3>2. dirty \subseteq ToSet(todo)
      BY <3>1 DEF SerialInv, FlushCleans, InFlush
    <3> QED BY <3>1, <3>2 DEF ToSet
  <2>3. ASSUME NEW d \in Clients,
               \/ \E b \in Blocks : Bread(d, b) \/ Bget(d, b)
               \/ CheckUptodate(d) \/ Pread(d) \/ PreadFails(d)
               \/ \E v \in Vals : Modify(d, v)
               \/ SyncSkips(d) \/ SyncWrites(d) \/ SyncClears(d)
               \/ Brelse(d)
               \/ FlushBegin(d) \/ FlushWrites(d) \/ FlushClears(d)
        PROVE  FALSE
    <3>1. \E q \in Places \ {"flushed"} : pc' = [pc EXCEPT ![d] = q]
      BY <2>3 DEF Bread, Bget, GetBuffer, CheckUptodate, Pread, PreadFails, Modify,
                  SyncSkips, SyncWrites, SyncClears, Brelse, FlushBegin, FlushWrites,
                  FlushClears, Goto, Places, AtRest
    <3> QED BY <3>1 DEF IndInv, TypeOK
  <2>4. CASE Destroy \/ Crash
    BY <2>4 DEF Destroy, Crash, EmptyCache
  <2>5. ASSUME NEW d \in Clients, FlushPasses(d) PROVE pc' = pc /\ dirty' = dirty
    BY <2>5 DEF FlushPasses, bufs
  <2>6. CASE UNCHANGED vars
    BY <2>6 DEF vars, bufs
  <2>7. \A d \in Clients : FlushEnd(d) => FlushEnd(c)
    OBVIOUS
  <2> QED BY <2>1, <2>2, <2>3, <2>4, <2>5, <2>6, <2>7 DEF Next, vars, bufs
<1>4. SerialInv /\ Clean => FlushedOnDisk
  BY DEF SerialInv, CacheAgrees, FlushedOnDisk
<1>5. Spec => []SerialInv
  <2>1. Spec /\ []OneAtATime => []SerialInv
    BY TurnsInductive
  <2> QED BY <1>1, <2>1, PTL
<1> HIDE DEF Clean
<1> QED BY <1>2, <1>3, <1>4, <1>5, Inductive, PTL DEF Spec

=============================================================================
