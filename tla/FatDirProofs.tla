---------------------------- MODULE FatDirProofs ----------------------------
(***************************************************************************)
(* For any directories, names, clusters, handles and directory clusters: a *)
(* rename keeps the file and, in one directory, no cluster and no entry    *)
(* gets lost, also when the directory grows by a cluster with old bytes in *)
(* it.  Without old bytes no two files ever share a cluster whatever the   *)
(* callers do, no size gets lost, and to careful callers the directory is  *)
(* a map from names to sizes.                                              *)
(***************************************************************************)
EXTENDS FatDir, WellFoundedInduction, TLAPS

Special == {Empty, Other}

Tables == [Dirs -> Seq(Entry \cup Special)]

\* The slots of directory d of table t with files in them.
Filed(t, d) == {i \in DOMAIN t[d] : IsFile(t[d][i])}

-----------------------------------------------------------------------------
(* Tables of slots.                                                        *)

\* A set of numbers has a smallest element.
LEMMA MinIn ==
  ASSUME NEW S \in SUBSET Nat, S # {}
  PROVE  Min(S) \in S /\ \A y \in S : Min(S) <= y
<1> DEFINE R == {p \in Nat \X Nat : p[1] < p[2]}
<1>1. IsWellFoundedOn(R, Nat)
  BY NatLessThanWellFounded DEF OpToRel
<1> HIDE DEF R
<1>2. PICK x \in S : \A y \in S : ~ (<<y, x>> \in R)
  BY <1>1, WFMin
<1>3. ASSUME NEW y \in S PROVE x <= y
  <2>1. x \in Nat /\ y \in Nat /\ ~ (<<y, x>> \in R)
    BY <1>2
  <2>2. ~ (y < x)
    BY <2>1 DEF R
  <2> QED BY <2>1, <2>2
<1> QED BY <1>3 DEF Min

\* Entries are files, and the other slots are not.
LEMMA EntriesAreFiles ==
  ASSUME DirAssumption
  PROVE  /\ \A e \in Entry : IsFile(e)
         /\ \A s \in Entry \cup Special : IsFile(s) => s \in Entry
         /\ ~IsFile(Empty) /\ ~IsFile(Other)
BY DEF DirAssumption, IsFile, Special

\* Storing s into slot i of directory d changes that slot alone.
LEMMA StoreProps ==
  ASSUME NEW t \in Tables, NEW d \in Dirs, NEW i \in DOMAIN t[d],
         NEW s \in Entry \cup Special
  PROVE  LET u == [t EXCEPT ![d][i] = s]
         IN  /\ u \in Tables
             /\ \A b \in Dirs : DOMAIN u[b] = DOMAIN t[b] /\ Len(u[b]) = Len(t[b])
             /\ u[d][i] = s
             /\ \A b \in Dirs : \A j \in DOMAIN t[b] :
                  <<b, j>> # <<d, i>> => u[b][j] = t[b][j]
<1> DEFINE f == [t[d] EXCEPT ![i] = s]
           u == [t EXCEPT ![d] = f]
<1>1. t[d] \in Seq(Entry \cup Special)
  BY DEF Tables
<1>2. f \in Seq(Entry \cup Special) /\ Len(f) = Len(t[d]) /\ DOMAIN f = DOMAIN t[d]
  BY <1>1
<1>3. f[i] = s /\ \A j \in DOMAIN t[d] : j # i => f[j] = t[d][j]
  BY <1>1
<1> HIDE DEF f
<1>4. u \in Tables /\ u[d] = f /\ \A b \in Dirs : b # d => u[b] = t[b]
  BY <1>2 DEF Tables
<1> HIDE DEF u
<1>5. \A b \in Dirs : DOMAIN u[b] = DOMAIN t[b] /\ Len(u[b]) = Len(t[b])
  BY <1>2, <1>4
<1>6. \A b \in Dirs : \A j \in DOMAIN t[b] :
        <<b, j>> # <<d, i>> => u[b][j] = t[b][j]
  BY <1>3, <1>4
<1>7. u[d][i] = s
  BY <1>3, <1>4
<1>8. [t EXCEPT ![d][i] = s] = u
  BY DEF u, f
<1> QED BY <1>4, <1>5, <1>6, <1>7, <1>8, ZenonT(60)

\* Clearing a slot takes the file out of it and leaves the other ones.
LEMMA ClearProps ==
  ASSUME DirAssumption,
         NEW t \in Tables, NEW d \in Dirs, NEW i \in DOMAIN t[d]
  PROVE  LET u == Clear(t, d, i)
         IN  /\ u \in Tables
             /\ \A b \in Dirs : DOMAIN u[b] = DOMAIN t[b] /\ Len(u[b]) = Len(t[b])
             /\ u[d][i] = Empty
             /\ \A b \in Dirs : \A j \in DOMAIN t[b] :
                  <<b, j>> # <<d, i>> => u[b][j] = t[b][j]
             /\ \A b \in Dirs : \A j \in Filed(u, b) :
                  <<b, j>> # <<d, i>> /\ j \in Filed(t, b) /\ u[b][j] = t[b][j]
             /\ \A b \in Dirs : \A j \in Filed(t, b) :
                  <<b, j>> # <<d, i>> => j \in Filed(u, b)
<1> DEFINE u == Clear(t, d, i)
<1>1. /\ u \in Tables
      /\ \A b \in Dirs : DOMAIN u[b] = DOMAIN t[b] /\ Len(u[b]) = Len(t[b])
      /\ u[d][i] = Empty
      /\ \A b \in Dirs : \A j \in DOMAIN t[b] :
           <<b, j>> # <<d, i>> => u[b][j] = t[b][j]
  <2>1. Empty \in Entry \cup Special
    BY DEF Special
  <2> QED BY <2>1, StoreProps DEF Clear
<1> HIDE DEF u
<1>2. \A b \in Dirs : \A j \in Filed(u, b) :
        <<b, j>> # <<d, i>> /\ j \in Filed(t, b) /\ u[b][j] = t[b][j]
  BY <1>1, EntriesAreFiles DEF Filed
<1>3. \A b \in Dirs : \A j \in Filed(t, b) :
        <<b, j>> # <<d, i>> => j \in Filed(u, b)
  BY <1>1 DEF Filed
<1> QED BY <1>1, <1>2, <1>3 DEF u

Extended(t, d, f) == [t EXCEPT ![d] = t[d] \o f]

\* A directory grows behind its slots.
LEMMA ExtendProps ==
  ASSUME NEW t \in Tables, NEW d \in Dirs, NEW f \in Seq(Entry \cup Special)
  PROVE  LET u == Extended(t, d, f)
         IN  /\ u \in Tables
             /\ Len(u[d]) = Len(t[d]) + Len(f)
             /\ \A b \in Dirs : b # d => u[b] = t[b]
             /\ \A j \in DOMAIN t[d] : j \in DOMAIN u[d] /\ u[d][j] = t[d][j]
             /\ \A j \in DOMAIN u[d] :
                  j \notin DOMAIN t[d] => \E k \in DOMAIN f : u[d][j] = f[k]
<1> DEFINE g == t[d] \o f
           u == [t EXCEPT ![d] = g]
<1>1. t[d] \in Seq(Entry \cup Special)
  BY DEF Tables
<1>2. /\ g \in Seq(Entry \cup Special)
      /\ Len(g) = Len(t[d]) + Len(f)
      /\ DOMAIN g = 1 .. Len(t[d]) + Len(f)
  BY <1>1
<1>3. \A j \in DOMAIN t[d] : j \in DOMAIN g /\ g[j] = t[d][j]
  BY <1>1
<1>4. ASSUME NEW j \in DOMAIN g, j \notin DOMAIN t[d]
      PROVE  \E k \in DOMAIN f : g[j] = f[k]
  <2>1. j - Len(t[d]) \in DOMAIN f /\ g[j] = f[j - Len(t[d])]
    BY <1>1, <1>4
  <2> QED BY <2>1
<1> HIDE DEF g
<1>5. u \in Tables /\ u[d] = g /\ \A b \in Dirs : b # d => u[b] = t[b]
  BY <1>2 DEF Tables
<1>6. Extended(t, d, f) = u
  BY DEF g, Extended
<1> HIDE DEF u
<1> QED BY <1>2, <1>3, <1>4, <1>5, <1>6

-----------------------------------------------------------------------------
(* Adding an entry.                                                        *)

\* Nothing in a new cluster is a file, unless it holds old bytes.
LEMMA NewSlotsProps ==
  ASSUME DirAssumption, NEW f \in NewSlots
  PROVE  /\ f \in Seq(Entry \cup Special)
         /\ Len(f) = PerCluster
         /\ ~aged => \A k \in DOMAIN f : ~IsFile(f[k])
<1>1. PerCluster \in Nat
  BY DEF DirAssumption
<1>2. f \in [1 .. PerCluster -> Entry \cup Special]
  BY DEF NewSlots, EmptyCluster, Special
<1>3. f \in Seq(Entry \cup Special) /\ Len(f) = PerCluster
  BY <1>1, <1>2
<1>4. ~aged => \A k \in DOMAIN f : ~IsFile(f[k])
  BY EntriesAreFiles DEF NewSlots, EmptyCluster
<1> QED BY <1>3, <1>4

\* The entry e is in directory d of the new table, and every other file is
\* where it was: the slot taken was empty, or the first one that i_size says
\* is new.
Added(t, d, e, r) ==
  /\ r.slots \in Tables
  /\ r.pos \in Filed(r.slots, d)
  /\ r.slots[d][r.pos] = e
  /\ \A b \in Dirs : \A j \in DOMAIN t[b] :
       /\ j \in DOMAIN r.slots[b]
       /\ <<b, j>> # <<d, r.pos>> => r.slots[b][j] = t[b][j]
  /\ ~aged =>
       \A b \in Dirs : \A j \in Filed(r.slots, b) :
         <<b, j>> # <<d, r.pos>> => j \in Filed(t, b) /\ r.slots[b][j] = t[b][j]
  /\ \A b \in Dirs : b # d => Len(r.slots[b]) = Len(t[b])
  /\ \/ /\ r.took = {}
        /\ r.pos \in Room(t, d)
        /\ Len(r.slots[d]) = Len(t[d])
     \/ /\ r.took # {}
        /\ Room(t, d) = {}
        /\ ~(d = Root /\ FixedRoot)
        /\ r.pos = InSize(d) + 1
        /\ Len(r.slots[d]) = Len(t[d]) + PerCluster

\* An entry stored into slot i of a table u that has t's files and, without old
\* bytes, no other.
LEMMA AddToGives ==
  ASSUME DirAssumption,
         NEW t \in Tables, NEW u \in Tables, NEW d \in Dirs, NEW e \in Entry,
         NEW i \in DOMAIN u[d], NEW took,
         \A b \in Dirs : \A j \in DOMAIN t[b] : j \in DOMAIN u[b] /\ u[b][j] = t[b][j],
         ~aged => \A b \in Dirs : \A j \in Filed(u, b) : j \in DOMAIN t[b],
         \A b \in Dirs : b # d => Len(u[b]) = Len(t[b]),
         \/ took = {} /\ i \in Room(t, d) /\ Len(u[d]) = Len(t[d])
         \/ /\ took # {} /\ Room(t, d) = {}
            /\ ~(d = Root /\ FixedRoot)
            /\ i = InSize(d) + 1
            /\ Len(u[d]) = Len(t[d]) + PerCluster
  PROVE  Added(t, d, e, AddTo(u, d, e, i, took))
<1> DEFINE v == [u EXCEPT ![d][i] = e]
           r == AddTo(u, d, e, i, took)
<1>1. /\ v \in Tables
      /\ \A b \in Dirs : DOMAIN v[b] = DOMAIN u[b] /\ Len(v[b]) = Len(u[b])
      /\ v[d][i] = e
      /\ \A b \in Dirs : \A j \in DOMAIN u[b] :
           <<b, j>> # <<d, i>> => v[b][j] = u[b][j]
  BY StoreProps
<1>2. r.slots = v /\ r.pos = i /\ r.took = took
  BY DEF AddTo
<1> HIDE DEF v, r
<1>3. i \in Filed(v, d)
  BY <1>1, EntriesAreFiles DEF Filed
<1>4. \A b \in Dirs : \A j \in DOMAIN t[b] :
        j \in DOMAIN v[b] /\ (<<b, j>> # <<d, i>> => v[b][j] = t[b][j])
  BY <1>1
<1>5. ~aged =>
        \A b \in Dirs : \A j \in Filed(v, b) :
          <<b, j>> # <<d, i>> => j \in Filed(t, b) /\ v[b][j] = t[b][j]
  <2> SUFFICES ASSUME ~aged,
                      NEW b \in Dirs, NEW j \in Filed(v, b), <<b, j>> # <<d, i>>
               PROVE  j \in Filed(t, b) /\ v[b][j] = t[b][j]
    OBVIOUS
  <2>1. j \in DOMAIN u[b] /\ v[b][j] = u[b][j] /\ IsFile(v[b][j])
    BY <1>1 DEF Filed
  <2>2. j \in DOMAIN t[b]
    BY <2>1 DEF Filed
  <2>3. u[b][j] = t[b][j]
    BY <2>2
  <2> QED BY <2>1, <2>2, <2>3 DEF Filed
<1>6. \A b \in Dirs : b # d => Len(v[b]) = Len(t[b])
  BY <1>1
<1>7. Len(v[d]) = Len(u[d])
  BY <1>1
<1>8. Added(t, d, e, r)
  BY <1>1, <1>2, <1>3, <1>4, <1>5, <1>6, <1>7 DEF Added
<1> QED BY <1>8 DEF r

\* What fat_add_entries does.
LEMMA AddEntryGives ==
  ASSUME DirAssumption,
         NEW t \in Tables, NEW d \in Dirs, NEW e \in Entry, NEW avail,
         NEW r \in AddEntry(t, d, e, avail),
         rootSize \in Nat, FixedRoot \/ rootSize <= Len(t[Root])
  PROVE  /\ r.took \subseteq avail
         /\ \/ r.ok /\ Added(t, d, e, r)
            \/ ~r.ok /\ r.slots = t /\ (r.took = {} \/ (d = Root /\ FixedRoot))
<1>1. CASE Room(t, d) # {}
  <2>1. Room(t, d) \subseteq Nat
    BY DEF Room, Tables
  <2>2. Min(Room(t, d)) \in Room(t, d)
    BY <1>1, <2>1, MinIn
  <2>3. PICK i : i \in Room(t, d) /\ r = AddTo(t, d, e, i, {})
    BY <1>1, <2>2 DEF AddEntry
  <2>4. i \in DOMAIN t[d]
    BY <2>3 DEF Room
  <2>5. Added(t, d, e, r)
    <3> HIDE DEF AddTo
    <3>1. \A b \in Dirs : \A j \in Filed(t, b) : j \in DOMAIN t[b]
      BY DEF Filed
    <3>2. Added(t, d, e, AddTo(t, d, e, i, {}))
      BY <2>3, <2>4, <3>1, AddToGives
    <3> QED BY <2>3, <3>2
  <2> QED BY <2>3, <2>5 DEF AddTo
<1>2. CASE Room(t, d) = {} /\ avail = {}
  <2>1. r = Failure(t, {})
    BY <1>2 DEF AddEntry
  <2> QED BY <2>1 DEF Failure
<1>3. CASE Room(t, d) = {} /\ avail # {} /\ d = Root /\ FixedRoot
  BY <1>3 DEF AddEntry, Failure
<1>4. CASE Room(t, d) = {} /\ avail # {} /\ ~(d = Root /\ FixedRoot)
  <2>1. PICK c \in avail : r \in Grown(t, d, e, c)
    BY <1>4 DEF AddEntry
  <2>2. PICK f \in NewSlots :
          r = AddTo(Extended(t, d, f), d, e, InSize(d) + 1, {c})
    BY <2>1 DEF Grown, Extended
  <2>3. /\ f \in Seq(Entry \cup Special)
        /\ Len(f) = PerCluster
        /\ ~aged => \A k \in DOMAIN f : ~IsFile(f[k])
    BY NewSlotsProps
  <2> DEFINE u == Extended(t, d, f)
  <2>4. /\ u \in Tables
        /\ Len(u[d]) = Len(t[d]) + Len(f)
        /\ \A b \in Dirs : b # d => u[b] = t[b]
        /\ \A j \in DOMAIN t[d] : j \in DOMAIN u[d] /\ u[d][j] = t[d][j]
        /\ \A j \in DOMAIN u[d] :
             j \notin DOMAIN t[d] => \E k \in DOMAIN f : u[d][j] = f[k]
    BY <2>3, ExtendProps
  <2>5. r = AddTo(u, d, e, InSize(d) + 1, {c})
    BY <2>2
  <2> HIDE DEF u
  <2>6. InSize(d) + 1 \in DOMAIN u[d]
    <3>1. u[d] \in Seq(Entry \cup Special) /\ t[d] \in Seq(Entry \cup Special)
      BY <2>4 DEF Tables
    <3>2. InSize(d) \in Nat /\ InSize(d) <= Len(t[d])
      BY <1>4, <3>1 DEF InSize
    <3>3. PerCluster \in Nat /\ PerCluster >= 1
      BY DEF DirAssumption
    <3> QED BY <2>3, <2>4, <3>1, <3>2, <3>3
  <2>7. \A b \in Dirs : \A j \in DOMAIN t[b] : j \in DOMAIN u[b] /\ u[b][j] = t[b][j]
    BY <2>4
  <2>8. ~aged => \A b \in Dirs : \A j \in Filed(u, b) : j \in DOMAIN t[b]
    <3> SUFFICES ASSUME ~aged, NEW b \in Dirs, NEW j \in Filed(u, b)
                 PROVE  j \in DOMAIN t[b]
      OBVIOUS
    <3>1. j \in DOMAIN u[b] /\ IsFile(u[b][j])
      BY DEF Filed
    <3>2. CASE b # d
      BY <2>4, <3>1, <3>2
    <3>3. CASE b = d
      BY <2>3, <2>4, <3>1, <3>3
    <3> QED BY <3>2, <3>3
  <2>9. \A b \in Dirs : b # d => Len(u[b]) = Len(t[b])
    BY <2>4
  <2>10. Added(t, d, e, AddTo(u, d, e, InSize(d) + 1, {c}))
    <3>1. Len(u[d]) = Len(t[d]) + PerCluster /\ {c} # {}
      BY <2>3, <2>4
    <3> QED BY <1>4, <2>4, <2>6, <2>7, <2>8, <2>9, <3>1, AddToGives
  <2>11. r.ok /\ r.took = {c}
    BY <2>5 DEF AddTo
  <2> QED BY <2>1, <2>5, <2>10, <2>11
<1> QED BY <1>1, <1>2, <1>3, <1>4

\* The search finds a file of that name.
LEMMA SlotFound ==
  ASSUME slots \in Tables, NEW d \in Dirs, NEW n, Exists(d, n)
  PROVE  /\ Slot(d, n) \in Filed(slots, d)
         /\ Slot(d, n) \in DOMAIN slots[d]
         /\ slots[d][Slot(d, n)].name = n
<1>1. Named(slots, d, n) \subseteq Nat
  BY DEF Named, Tables
<1>2. Slot(d, n) \in Named(slots, d, n)
  BY <1>1, MinIn DEF Exists, Slot
<1> QED BY <1>2 DEF Named, Filed

-----------------------------------------------------------------------------
(* Clusters have one owner.                                                *)

StartsApart ==
  \A d, b \in Dirs : \A i \in Filed(slots, d), j \in Filed(slots, b) :
    slots[d][i].start = slots[b][j].start => d = b /\ i = j

StartsTaken ==
  \A d \in Dirs : \A i \in Filed(slots, d) :
    slots[d][i].start \notin free \cup dirOwn

Owned == StartsApart /\ StartsTaken /\ free \cap dirOwn = {}

\* Clusters have one owner as long as no old bytes come to be entries.
OwnInv ==
  /\ TypeOK
  /\ PerCluster <= rootSize
  /\ ~aged => Owned

\* What holds of the slots is what the property says of the pairs.
LEMMA OwnInvGives == StartsApart /\ StartsTaken => StartsOwned
<1> SUFFICES ASSUME StartsApart, StartsTaken PROVE StartsOwned
  OBVIOUS
<1>1. ASSUME NEW s \in FileSlots
      PROVE  \E d \in Dirs : \E i \in Filed(slots, d) :
               s = <<d, i>> /\ EntryAt(s) = slots[d][i]
  BY <1>1 DEF FileSlots, Filed, EntryAt
<1>2. ASSUME NEW r \in FileSlots, NEW s \in FileSlots,
             EntryAt(r).start = EntryAt(s).start
      PROVE  r = s
  <2>1. PICK d \in Dirs : \E i \in Filed(slots, d) :
          r = <<d, i>> /\ EntryAt(r) = slots[d][i]
    BY <1>1
  <2>2. PICK b \in Dirs : \E j \in Filed(slots, b) :
          s = <<b, j>> /\ EntryAt(s) = slots[b][j]
    BY <1>1
  <2> QED BY <1>2, <2>1, <2>2 DEF StartsApart
<1>3. ASSUME NEW s \in FileSlots PROVE EntryAt(s).start \notin free \cup dirOwn
  <2>1. PICK d \in Dirs : \E i \in Filed(slots, d) :
          s = <<d, i>> /\ EntryAt(s) = slots[d][i]
    BY <1>1
  <2> QED BY <2>1 DEF StartsTaken
<1> QED BY <1>2, <1>3 DEF StartsOwned

\* The entries of files.
LEMMA FiledEntry ==
  ASSUME DirAssumption, NEW t \in Tables, NEW d \in Dirs, NEW i \in Filed(t, d)
  PROVE  /\ t[d][i] \in Entry
         /\ t[d][i].name \in Names
         /\ t[d][i].start \in Clusters
         /\ t[d][i].size \in 0 .. MaxSize
<1>1. i \in DOMAIN t[d] /\ IsFile(t[d][i])
  BY DEF Filed
<1>2. t[d] \in Seq(Entry \cup Special)
  BY DEF Tables
<1>3. t[d][i] \in Entry \cup Special
  BY <1>1, <1>2
<1>4. t[d][i] \in Entry
  BY <1>1, <1>3, EntriesAreFiles
<1> QED BY <1>4 DEF Entry

\* A directory that grows takes the new cluster, and the size of the root
\* directory follows the number of its slots.
LEMMA GrowGives ==
  ASSUME DirAssumption, TypeOK,
         NEW t \in Tables, Len(t[Root]) = Len(slots[Root]),
         NEW d \in Dirs, NEW e \in Entry, NEW avail, avail \subseteq free,
         NEW r \in AddEntry(t, d, e, avail), Grow(d, r.took)
  PROVE  /\ r.took \subseteq avail
         /\ r.slots \in Tables
         /\ dirOwn' \subseteq dirOwn \cup r.took
         /\ dirOwn \subseteq dirOwn'
         /\ ~FixedRoot => dirOwn' = dirOwn \cup r.took
         /\ rootSize' \in Nat /\ rootSize <= rootSize'
         /\ FixedRoot \/ Len(r.slots[Root]) - rootSize' = Len(slots[Root]) - rootSize
         /\ \/ r.ok /\ Added(t, d, e, r)
            \/ ~r.ok /\ r.slots = t /\ (r.took = {} \/ (d = Root /\ FixedRoot))
<1>1. Root \in Dirs /\ PerCluster \in Nat
  BY DEF DirAssumption
<1>2. rootSize \in Nat /\ (FixedRoot \/ rootSize <= Len(t[Root]))
  BY DEF TypeOK
<1>3. /\ r.took \subseteq avail
      /\ \/ r.ok /\ Added(t, d, e, r)
         \/ ~r.ok /\ r.slots = t /\ (r.took = {} \/ (d = Root /\ FixedRoot))
  BY <1>2, AddEntryGives
<1>4. r.slots \in Tables
  BY <1>3 DEF Added
<1>5. /\ dirOwn' \subseteq dirOwn \cup r.took
      /\ dirOwn \subseteq dirOwn'
      /\ ~FixedRoot => dirOwn' = dirOwn \cup r.took
  BY DEF Grow
<1>6. rootSize' = IF d = Root /\ r.took # {} THEN rootSize + PerCluster ELSE rootSize
  BY DEF Grow
<1>7. rootSize' \in Nat /\ rootSize <= rootSize'
  BY <1>1, <1>2, <1>6
<1>8. Len(r.slots[Root]) \in Nat /\ Len(t[Root]) \in Nat
  BY <1>1, <1>4 DEF Tables
<1>9. CASE FixedRoot
  BY <1>3, <1>4, <1>5, <1>7, <1>9
<1>10. CASE ~FixedRoot /\ ~r.ok
  BY <1>1, <1>2, <1>3, <1>4, <1>5, <1>6, <1>7, <1>8, <1>10
<1>11. CASE ~FixedRoot /\ r.ok
  <2>1. /\ \A b \in Dirs : b # d => Len(r.slots[b]) = Len(t[b])
        /\ \/ r.took = {} /\ Len(r.slots[d]) = Len(t[d])
           \/ r.took # {} /\ Len(r.slots[d]) = Len(t[d]) + PerCluster
    BY <1>3, <1>11 DEF Added
  <2>2. Len(r.slots[Root]) - rootSize' = Len(slots[Root]) - rootSize
    <3>1. CASE d # Root
      <4>1. rootSize' = rootSize /\ Len(r.slots[Root]) = Len(t[Root])
        BY <1>1, <1>6, <2>1, <3>1
      <4> QED BY <4>1
    <3>2. CASE d = Root /\ r.took = {}
      <4>1. rootSize' = rootSize /\ Len(r.slots[Root]) = Len(t[Root])
        BY <1>6, <2>1, <3>2
      <4> QED BY <4>1
    <3>3. CASE d = Root /\ r.took # {}
      <4>1. /\ rootSize' = rootSize + PerCluster
            /\ Len(r.slots[Root]) = Len(t[Root]) + PerCluster
        BY <1>6, <2>1, <3>3
      <4> QED BY <1>1, <1>2, <1>8, <4>1
    <3> QED BY <3>1, <3>2, <3>3
  <2> QED BY <1>3, <1>4, <1>5, <1>7, <2>2
<1> QED BY <1>9, <1>10, <1>11

LEMMA TypeGives ==
  ASSUME TypeOK
  PROVE  /\ slots \in Tables
         /\ rootSize \in Nat
         /\ FixedRoot \/ rootSize <= Len(slots[Root])
BY DEF TypeOK, Tables, Special

\* Files that stay where they are have the clusters they had.
LEMMA StayingApart ==
  ASSUME StartsApart,
         \A b \in Dirs : \A j \in Filed(slots, b)' :
           j \in Filed(slots, b) /\ slots'[b][j].start = slots[b][j].start
  PROVE  StartsApart'
BY DEF StartsApart

\* The entry of a new file with first cluster c.
NewEntry(n, c) == [name |-> n, start |-> c, size |-> 0]

\* What ufs_create does.
LEMMA CreateGives ==
  ASSUME DirAssumption, TypeOK, NEW d \in Dirs, NEW n \in Names,
         NEW h \in Handles, Create(d, n, h)
  PROVE  \E c \in free : \E r :
           /\ c \in Clusters
           /\ NewEntry(n, c) \in Entry
           /\ r.took \subseteq free \ {c}
           /\ free' = IF r.ok THEN (free \ {c}) \ r.took ELSE free \ r.took
           /\ dirOwn' \subseteq dirOwn \cup r.took
           /\ ~FixedRoot => dirOwn' = dirOwn \cup r.took
           /\ rootSize' \in Nat /\ rootSize <= rootSize'
           /\ slots' \in Tables
           /\ FixedRoot \/ Len(slots'[Root]) - rootSize' = Len(slots[Root]) - rootSize
           /\ handles' = [handles EXCEPT ![h] =
                IF r.ok THEN [dir |-> d, pos |-> r.pos, start |-> c, size |-> 0]
                        ELSE Closed]
           /\ written' = [written EXCEPT ![c] = 0]
           /\ slots' = r.slots
           /\ \/ r.ok /\ Added(slots, d, NewEntry(n, c), r)
              \/ ~r.ok /\ slots' = slots /\ (r.took = {} \/ (d = Root /\ FixedRoot))
<1>1. PICK c \in free :
        \E r \in AddEntry(slots, d, NewEntry(n, c), free \ {c}) :
          /\ slots' = r.slots
          /\ Grow(d, r.took)
          /\ free' = IF r.ok THEN (free \ {c}) \ r.took ELSE free \ r.took
          /\ handles' = [handles EXCEPT ![h] =
               IF r.ok THEN [dir |-> d, pos |-> r.pos, start |-> c, size |-> 0]
                       ELSE Closed]
          /\ written' = [written EXCEPT ![c] = 0]
  BY DEF Create, NewEntry
<1>2. PICK r \in AddEntry(slots, d, NewEntry(n, c), free \ {c}) :
          /\ slots' = r.slots
          /\ Grow(d, r.took)
          /\ free' = IF r.ok THEN (free \ {c}) \ r.took ELSE free \ r.took
          /\ handles' = [handles EXCEPT ![h] =
               IF r.ok THEN [dir |-> d, pos |-> r.pos, start |-> c, size |-> 0]
                       ELSE Closed]
          /\ written' = [written EXCEPT ![c] = 0]
  BY <1>1
<1>3. c \in Clusters
  BY DEF TypeOK
<1>4. NewEntry(n, c) \in Entry
  BY <1>3 DEF NewEntry, Entry, DirAssumption
<1>5. /\ r.took \subseteq free \ {c}
      /\ r.slots \in Tables
      /\ dirOwn' \subseteq dirOwn \cup r.took
      /\ ~FixedRoot => dirOwn' = dirOwn \cup r.took
      /\ rootSize' \in Nat /\ rootSize <= rootSize'
      /\ FixedRoot \/ Len(r.slots[Root]) - rootSize' = Len(slots[Root]) - rootSize
      /\ \/ r.ok /\ Added(slots, d, NewEntry(n, c), r)
         \/ ~r.ok /\ r.slots = slots /\ (r.took = {} \/ (d = Root /\ FixedRoot))
  BY <1>2, <1>4, GrowGives, TypeGives
<1> QED BY <1>2, <1>3, <1>4, <1>5

LEMMA CreateOwns ==
  ASSUME DirAssumption, OwnInv, UNCHANGED aged, NEW d \in Dirs, NEW n \in Names,
         NEW h \in Handles, Create(d, n, h)
  PROVE  OwnInv'
<1>1. PICK c \in free : \E r :
        /\ c \in Clusters
        /\ NewEntry(n, c) \in Entry
        /\ r.took \subseteq free \ {c}
        /\ free' = IF r.ok THEN (free \ {c}) \ r.took ELSE free \ r.took
        /\ dirOwn' \subseteq dirOwn \cup r.took
        /\ rootSize' \in Nat /\ rootSize <= rootSize'
        /\ slots' \in Tables
        /\ FixedRoot \/ Len(slots'[Root]) - rootSize' = Len(slots[Root]) - rootSize
        /\ handles' = [handles EXCEPT ![h] =
             IF r.ok THEN [dir |-> d, pos |-> r.pos, start |-> c, size |-> 0]
                     ELSE Closed]
        /\ written' = [written EXCEPT ![c] = 0]
        /\ slots' = r.slots
        /\ \/ r.ok /\ Added(slots, d, NewEntry(n, c), r)
           \/ ~r.ok /\ slots' = slots
  BY CreateGives DEF OwnInv
<1>2. PICK r :
        /\ r.took \subseteq free \ {c}
        /\ free' = IF r.ok THEN (free \ {c}) \ r.took ELSE free \ r.took
        /\ handles' = [handles EXCEPT ![h] =
             IF r.ok THEN [dir |-> d, pos |-> r.pos, start |-> c, size |-> 0]
                     ELSE Closed]
        /\ dirOwn' \subseteq dirOwn \cup r.took
        /\ slots' = r.slots
        /\ \/ r.ok /\ Added(slots, d, NewEntry(n, c), r)
           \/ ~r.ok /\ slots' = slots
  BY <1>1
<1>3. c \in Clusters /\ free \subseteq Clusters /\ dirOwn \subseteq Clusters
  BY DEF OwnInv, TypeOK
<1>4. NewEntry(n, c).start = c /\ 0 \in 0 .. MaxSize
  BY DEF NewEntry, DirAssumption
<1>5. /\ rootSize' \in Nat /\ rootSize <= rootSize'
      /\ slots' \in Tables
      /\ FixedRoot \/ Len(slots'[Root]) - rootSize' = Len(slots[Root]) - rootSize
      /\ written' = [written EXCEPT ![c] = 0]
  BY <1>1
<1>6. TypeOK'
  <2>1. slots' \in [Dirs -> Seq(Entry \cup {Empty, Other})]
    BY <1>5 DEF Tables, Special
  <2>2. FixedRoot \/ rootSize' <= Len(slots'[Root])
    <3>1. Len(slots'[Root]) \in Nat /\ Len(slots[Root]) \in Nat
      BY <2>1, TypeGives DEF Tables, DirAssumption, OwnInv
    <3> QED BY <1>5, <3>1, TypeGives DEF OwnInv
  <2>3. free' \subseteq Clusters /\ dirOwn' \subseteq Clusters
    BY <1>2, <1>3
  <2>4. handles' \in [Handles -> Handle \cup {Closed}]
    <3>1. r.ok => [dir |-> d, pos |-> r.pos, start |-> c, size |-> 0] \in Handle
      <4>1. r.ok => r.pos \in Nat
        BY <1>2 DEF Added, Filed, Tables
      <4> QED BY <1>3, <1>4, <4>1 DEF Handle
    <3> QED BY <1>2, <3>1 DEF OwnInv, TypeOK
  <2>5. written' \in [Clusters -> 0 .. MaxSize]
    BY <1>3, <1>4, <1>5 DEF OwnInv, TypeOK
  <2>6. aged' \in BOOLEAN
    BY DEF OwnInv, TypeOK
  <2> QED BY <1>5, <2>1, <2>2, <2>3, <2>4, <2>5, <2>6 DEF TypeOK
<1>7. PerCluster <= rootSize'
  BY <1>2, <1>5, TypeGives DEF OwnInv, DirAssumption
<1>8. ASSUME ~aged, ~r.ok PROVE Owned'
  <2>1. slots' = slots
    BY <1>2, <1>8
  <2>2. free' \cup dirOwn' \subseteq free \cup dirOwn /\ free' \cap dirOwn' = {}
    BY <1>2, <1>5, <1>8 DEF OwnInv, Owned
  <2> QED BY <1>8, <2>1, <2>2 DEF OwnInv, Owned, StartsApart, StartsTaken, Filed
<1>9. ASSUME ~aged, r.ok PROVE Owned'
  <2>1. ASSUME NEW b \in Dirs, NEW j \in Filed(slots, b)'
        PROVE  \/ b = d /\ j = r.pos /\ slots'[b][j].start = c
               \/ /\ j \in Filed(slots, b) /\ slots'[b][j] = slots[b][j]
                  /\ slots'[b][j].start \notin free \cup dirOwn
    <3>1. j \in Filed(r.slots, b) /\ slots'[b][j] = r.slots[b][j]
      BY <1>2 DEF Filed
    <3>2. CASE <<b, j>> = <<d, r.pos>>
      BY <1>2, <1>4, <1>9, <3>1, <3>2 DEF Added
    <3>3. CASE <<b, j>> # <<d, r.pos>>
      <4>1. j \in Filed(slots, b) /\ slots'[b][j] = slots[b][j]
        BY <1>2, <1>9, <3>1, <3>3 DEF Added
      <4> QED BY <1>9, <4>1 DEF OwnInv, Owned, StartsTaken
    <3> QED BY <3>2, <3>3
  <2>2. StartsApart'
    BY <1>9, <2>1 DEF OwnInv, Owned, StartsApart
  <2>3. /\ c \notin free' \cup dirOwn' /\ free' \cup dirOwn' \subseteq free \cup dirOwn
        /\ free' \cap dirOwn' = {}
    BY <1>2, <1>5, <1>9 DEF OwnInv, Owned
  <2>4. StartsTaken'
    BY <2>1, <2>3 DEF StartsTaken
  <2> QED BY <2>2, <2>3, <2>4 DEF Owned
<1> QED BY <1>6, <1>7, <1>8, <1>9 DEF OwnInv

\* Closing a file changes nothing but the size in one entry.
LEMMA CloseGives ==
  ASSUME DirAssumption, TypeOK, NEW h \in Handles, Close(h)
  PROVE  /\ handles[h] \in Handle
         /\ slots' \in Tables
         /\ \A b \in Dirs : Len(slots'[b]) = Len(slots[b])
         /\ \A b \in Dirs : Filed(slots, b)' = Filed(slots, b)
         /\ \A b \in Dirs : \A j \in Filed(slots, b) :
              /\ slots'[b][j].name = slots[b][j].name
              /\ slots'[b][j].start = slots[b][j].start
              /\ slots'[b][j].size = IF <<b, j>> \in SizeTo(handles[h])
                                       THEN handles[h].size ELSE slots[b][j].size
<1>1. handles[h] \in Handle /\ handles[h].size \in 0 .. MaxSize
  BY DEF Close, TypeOK, Handle
<1> DEFINE new(b, j) == IF <<b, j>> \in SizeTo(handles[h]) /\ IsFile(slots[b][j])
                          THEN [slots[b][j] EXCEPT !.size = handles[h].size]
                          ELSE slots[b][j]
<1>2. slots' = [b \in Dirs |-> [j \in DOMAIN slots[b] |-> new(b, j)]]
  BY DEF Close
<1>3. slots \in Tables
  BY TypeGives
<1>4. ASSUME NEW b \in Dirs, NEW j \in DOMAIN slots[b]
      PROVE  /\ new(b, j) \in Entry \cup Special
             /\ IsFile(new(b, j)) <=> IsFile(slots[b][j])
             /\ IsFile(slots[b][j]) =>
                  /\ new(b, j).name = slots[b][j].name
                  /\ new(b, j).start = slots[b][j].start
                  /\ new(b, j).size = IF <<b, j>> \in SizeTo(handles[h])
                                        THEN handles[h].size ELSE slots[b][j].size
  <2>1. slots[b][j] \in Entry \cup Special
    BY <1>3 DEF Tables
  <2>2. CASE ~IsFile(slots[b][j])
    BY <2>1, <2>2
  <2>3. CASE IsFile(slots[b][j])
    <3>1. slots[b][j] \in Entry
      BY <2>1, <2>3, EntriesAreFiles
    <3>2. [slots[b][j] EXCEPT !.size = handles[h].size] \in Entry
      BY <1>1, <3>1 DEF Entry
    <3>3. new(b, j) \in Entry
      BY <3>1, <3>2
    <3>4. /\ new(b, j).name = slots[b][j].name
          /\ new(b, j).start = slots[b][j].start
          /\ new(b, j).size = IF <<b, j>> \in SizeTo(handles[h])
                                THEN handles[h].size ELSE slots[b][j].size
      BY <2>3, <3>1 DEF Entry
    <3> HIDE DEF new
    <3> QED BY <2>3, <3>3, <3>4, EntriesAreFiles
  <2> QED BY <2>2, <2>3
<1> HIDE DEF new
<1>5. ASSUME NEW b \in Dirs
      PROVE  /\ slots'[b] \in Seq(Entry \cup Special)
             /\ Len(slots'[b]) = Len(slots[b])
             /\ DOMAIN slots'[b] = DOMAIN slots[b]
             /\ \A j \in DOMAIN slots[b] : slots'[b][j] = new(b, j)
  <2>1. slots'[b] = [j \in DOMAIN slots[b] |-> new(b, j)]
    BY <1>2
  <2>2. slots[b] \in Seq(Entry \cup Special)
    BY <1>3 DEF Tables
  <2>3. DOMAIN slots[b] = 1 .. Len(slots[b]) /\ Len(slots[b]) \in Nat
    BY <2>2
  <2>4. DOMAIN slots'[b] = DOMAIN slots[b] /\ \A j \in DOMAIN slots[b] : slots'[b][j] = new(b, j)
    BY <2>1
  <2>5. slots'[b] \in [1 .. Len(slots[b]) -> Entry \cup Special]
    BY <1>4, <2>1, <2>3, ZenonT(60)
  <2>6. slots'[b] \in Seq(Entry \cup Special) /\ Len(slots'[b]) = Len(slots[b])
    BY <2>3, <2>5
  <2> QED BY <2>4, <2>6
<1>6. slots' \in Tables
  BY <1>2, <1>5 DEF Tables
<1>7. \A b \in Dirs : Filed(slots, b)' = Filed(slots, b)
  BY <1>4, <1>5, ZenonT(60) DEF Filed
<1>8. ASSUME NEW b \in Dirs, NEW j \in Filed(slots, b)
      PROVE  /\ slots'[b][j].name = slots[b][j].name
             /\ slots'[b][j].start = slots[b][j].start
             /\ slots'[b][j].size = IF <<b, j>> \in SizeTo(handles[h])
                                      THEN handles[h].size ELSE slots[b][j].size
  <2>1. j \in DOMAIN slots[b] /\ IsFile(slots[b][j])
    BY DEF Filed
  <2> QED BY <1>4, <1>5, <2>1
<1> QED BY <1>1, <1>5, <1>6, <1>7, <1>8

LEMMA CloseOwns ==
  ASSUME DirAssumption, OwnInv, UNCHANGED aged, NEW h \in Handles, Close(h)
  PROVE  OwnInv'
<1>1. /\ slots' \in Tables
      /\ \A b \in Dirs : Len(slots'[b]) = Len(slots[b])
      /\ \A b \in Dirs : Filed(slots, b)' = Filed(slots, b)
      /\ \A b \in Dirs : \A j \in Filed(slots, b) : slots'[b][j].start = slots[b][j].start
  BY CloseGives DEF OwnInv
<1>2. /\ UNCHANGED <<rootSize, free, dirOwn, written>>
      /\ handles' = [handles EXCEPT ![h] = Closed]
  BY DEF Close
<1>3. TypeOK'
  BY <1>1, <1>2 DEF OwnInv, TypeOK, Tables, Special, DirAssumption
<1>4. ASSUME Owned PROVE Owned'
  <2>1. StartsApart'
    BY <1>1, <1>4, StayingApart DEF Owned
  <2>2. StartsTaken'
    BY <1>1, <1>2, <1>4 DEF Owned, StartsTaken
  <2> QED BY <1>2, <1>4, <2>1, <2>2 DEF Owned
<1> QED BY <1>2, <1>3, <1>4 DEF OwnInv

LEMMA OpenOwns ==
  ASSUME DirAssumption, OwnInv, UNCHANGED aged, NEW d \in Dirs, NEW n \in Names,
         NEW h \in Handles, Open(d, n, h)
  PROVE  OwnInv'
<1> DEFINE e == slots[d][Slot(d, n)]
<1>1. e \in Entry
  BY SlotFound, FiledEntry, TypeGives DEF OwnInv, Open
<1>2. /\ UNCHANGED <<slots, rootSize, free, dirOwn, written>>
      /\ handles' = [handles EXCEPT ![h] =
           [dir |-> Root, pos |-> 0, start |-> e.start, size |-> e.size]]
  BY DEF Open
<1> HIDE DEF e
<1>3. [dir |-> Root, pos |-> 0, start |-> e.start, size |-> e.size] \in Handle
  BY <1>1 DEF Entry, Handle, DirAssumption
<1>4. TypeOK'
  BY <1>2, <1>3 DEF OwnInv, TypeOK
<1> QED BY <1>2, <1>4 DEF OwnInv, Owned, StartsApart, StartsTaken, Filed

\* A write goes to the cluster of the handle.
LEMMA WriteGives ==
  ASSUME DirAssumption, TypeOK, NEW h \in Handles, Write(h)
  PROVE  /\ handles[h] \in Handle
         /\ handles[h].start \in Clusters
         /\ handles[h].size + 1 \in 0 .. MaxSize
         /\ handles' \in [Handles -> Handle \cup {Closed}]
         /\ handles'[h] \in Handle
         /\ handles'[h].dir = handles[h].dir
         /\ handles'[h].pos = handles[h].pos
         /\ handles'[h].start = handles[h].start
         /\ handles'[h].size = handles[h].size + 1
         /\ \A g \in Handles : g # h => handles'[g] = handles[g]
         /\ written' \in [Clusters -> 0 .. MaxSize]
         /\ written'[handles[h].start] = handles[h].size + 1
         /\ \A c \in Clusters : c # handles[h].start => written'[c] = written[c]
<1>1. PICK hd \in Handle : hd = handles[h]
  BY DEF Write, TypeOK
<1>2. hd.start \in Clusters /\ hd.size + 1 \in 0 .. MaxSize
  BY <1>1 DEF Write, Handle, DirAssumption
<1>3. PICK new : new = [hd EXCEPT !.size = hd.size + 1]
  OBVIOUS
<1>4. /\ new \in Handle
      /\ new.dir = hd.dir /\ new.pos = hd.pos /\ new.start = hd.start
      /\ new.size = hd.size + 1
  BY <1>2, <1>3 DEF Handle
<1>5. handles' = [handles EXCEPT ![h] = new]
  BY <1>1, <1>3 DEF Write
<1>6. written' = [written EXCEPT ![hd.start] = hd.size + 1]
  BY <1>1 DEF Write
<1>7. handles \in [Handles -> Handle \cup {Closed}] /\ written \in [Clusters -> 0 .. MaxSize]
  BY DEF TypeOK
<1> QED BY <1>1, <1>2, <1>4, <1>5, <1>6, <1>7

LEMMA WriteOwns ==
  ASSUME DirAssumption, OwnInv, UNCHANGED aged, NEW h \in Handles, Write(h)
  PROVE  OwnInv'
<1>1. UNCHANGED <<slots, rootSize, free, dirOwn>>
  BY DEF Write
<1>2. handles' \in [Handles -> Handle \cup {Closed}] /\ written' \in [Clusters -> 0 .. MaxSize]
  BY WriteGives DEF OwnInv
<1>3. TypeOK'
  BY <1>1, <1>2 DEF OwnInv, TypeOK
<1> QED BY <1>1, <1>3 DEF OwnInv, Owned, StartsApart, StartsTaken, Filed

\* The entry that is unlinked, and what is left.
LEMMA UnlinkGives ==
  ASSUME DirAssumption, TypeOK, NEW d \in Dirs, NEW n \in Names, Unlink(d, n)
  PROVE  /\ Slot(d, n) \in Filed(slots, d)
         /\ slots[d][Slot(d, n)].start \in Clusters
         /\ slots[d][Slot(d, n)].name = n
         /\ slots' \in Tables
         /\ \A b \in Dirs : Len(slots'[b]) = Len(slots[b])
         /\ \A b \in Dirs : \A j \in Filed(slots, b)' :
              /\ <<b, j>> # <<d, Slot(d, n)>>
              /\ j \in Filed(slots, b)
              /\ slots'[b][j] = slots[b][j]
         /\ \A b \in Dirs : \A j \in Filed(slots, b) :
              <<b, j>> # <<d, Slot(d, n)>> => j \in Filed(slots, b)'
<1>1. slots \in Tables
  BY TypeGives
<1>2. PICK i \in DOMAIN slots[d] :
        i = Slot(d, n) /\ i \in Filed(slots, d) /\ slots[d][i].name = n
  BY <1>1, SlotFound DEF Unlink
<1>3. slots[d][i].start \in Clusters
  BY <1>1, <1>2, FiledEntry
<1>4. slots' = Clear(slots, d, i)
  BY <1>2 DEF Unlink
<1>5. \A b \in Dirs : Filed(slots, b)' = Filed(slots', b)
  BY DEF Filed
<1>6. LET u == Clear(slots, d, i)
      IN  /\ u \in Tables
          /\ \A b \in Dirs : Len(u[b]) = Len(slots[b])
          /\ \A b \in Dirs : \A j \in Filed(u, b) :
               <<b, j>> # <<d, i>> /\ j \in Filed(slots, b) /\ u[b][j] = slots[b][j]
          /\ \A b \in Dirs : \A j \in Filed(slots, b) :
               <<b, j>> # <<d, i>> => j \in Filed(u, b)
  BY <1>1, ClearProps
<1>7. /\ slots' \in Tables
      /\ \A b \in Dirs : Len(slots'[b]) = Len(slots[b])
      /\ \A b \in Dirs : \A j \in Filed(slots', b) :
           <<b, j>> # <<d, i>> /\ j \in Filed(slots, b) /\ slots'[b][j] = slots[b][j]
      /\ \A b \in Dirs : \A j \in Filed(slots, b) :
           <<b, j>> # <<d, i>> => j \in Filed(slots', b)
  BY <1>4, <1>6
<1> QED BY <1>2, <1>3, <1>5, <1>7

LEMMA UnlinkOwns ==
  ASSUME DirAssumption, OwnInv, UNCHANGED aged, NEW d \in Dirs, NEW n \in Names, Unlink(d, n)
  PROVE  OwnInv'
<1> DEFINE i == Slot(d, n)
<1>1. /\ i \in Filed(slots, d)
      /\ slots[d][i].start \in Clusters
      /\ slots' \in Tables
      /\ \A b \in Dirs : Len(slots'[b]) = Len(slots[b])
      /\ \A b \in Dirs : \A j \in Filed(slots, b)' :
           <<b, j>> # <<d, i>> /\ j \in Filed(slots, b) /\ slots'[b][j] = slots[b][j]
  BY UnlinkGives DEF OwnInv
<1>2. /\ UNCHANGED <<rootSize, dirOwn, handles, written>>
      /\ free' = free \cup {slots[d][i].start}
  BY DEF Unlink
<1> HIDE DEF i
<1>3. TypeOK'
  BY <1>1, <1>2 DEF OwnInv, TypeOK, Tables, Special, DirAssumption
<1>4. ASSUME Owned PROVE Owned'
  <2>1. StartsApart'
    BY <1>1, <1>4, StayingApart DEF Owned
  <2>2. StartsTaken'
    BY <1>1, <1>2, <1>4 DEF Owned, StartsTaken, StartsApart
  <2>3. free' \cap dirOwn' = {}
    BY <1>1, <1>2, <1>4 DEF Owned, StartsTaken
  <2> QED BY <2>1, <2>2, <2>3 DEF Owned
<1> QED BY <1>2, <1>3, <1>4 DEF OwnInv

-----------------------------------------------------------------------------
(* Renaming.                                                               *)

\* The slots when the target of a rename is out of the way.
Target(d, n) == IF Exists(d, n) THEN Clear(slots, d, Slot(d, n)) ELSE slots

LEMMA TargetGives ==
  ASSUME DirAssumption, TypeOK, NEW d \in Dirs, NEW n \in Names
  PROVE  LET t == Target(d, n)
         IN  /\ t \in Tables
             /\ \A b \in Dirs : DOMAIN t[b] = DOMAIN slots[b] /\ Len(t[b]) = Len(slots[b])
             /\ \A b \in Dirs : \A j \in Filed(t, b) :
                  j \in Filed(slots, b) /\ t[b][j] = slots[b][j]
             /\ \A b \in Dirs : \A j \in Filed(slots, b) :
                  \/ j \in Filed(t, b)
                  \/ Exists(d, n) /\ b = d /\ j = Slot(d, n) /\ slots[b][j].name = n
             /\ Room(slots, d) \subseteq Room(t, d)
             /\ \A j \in Room(t, d) : j \in Room(slots, d) \/ (Exists(d, n) /\ j = Slot(d, n))
<1>1. slots \in Tables
  BY TypeGives
<1>2. CASE ~Exists(d, n)
  BY <1>1, <1>2 DEF Target
<1>3. CASE Exists(d, n)
  <2>1. PICK i \in DOMAIN slots[d] : i = Slot(d, n) /\ slots[d][i].name = n
    BY <1>1, <1>3, SlotFound
  <2> DEFINE u == Clear(slots, d, i)
  <2>2. /\ u \in Tables
        /\ \A b \in Dirs : DOMAIN u[b] = DOMAIN slots[b] /\ Len(u[b]) = Len(slots[b])
        /\ u[d][i] = Empty
        /\ \A b \in Dirs : \A j \in DOMAIN slots[b] :
             <<b, j>> # <<d, i>> => u[b][j] = slots[b][j]
        /\ \A b \in Dirs : \A j \in Filed(u, b) :
             <<b, j>> # <<d, i>> /\ j \in Filed(slots, b) /\ u[b][j] = slots[b][j]
        /\ \A b \in Dirs : \A j \in Filed(slots, b) :
             <<b, j>> # <<d, i>> => j \in Filed(u, b)
    BY <1>1, ClearProps
  <2>3. Target(d, n) = u
    BY <1>3, <2>1 DEF Target
  <2> HIDE DEF u
  <2>4. /\ Room(slots, d) \subseteq Room(u, d)
        /\ \A j \in Room(u, d) : j \in Room(slots, d) \/ j = i
    BY <2>2 DEF Room
  <2> QED BY <1>3, <2>1, <2>2, <2>3, <2>4
<1> QED BY <1>2, <1>3

\* What a rename that succeeds does to the slots: the entry e comes to slot p
\* of d2, and slot i of d is freed.
Moved(t, d, i, d2, p, e) ==
  /\ <<d2, p>> # <<d, i>> => p \in Filed(slots', d2) /\ slots'[d2][p] = e
  /\ \A b \in Dirs : \A j \in Filed(slots', b) :
       /\ <<b, j>> # <<d, i>>
       /\ ~aged /\ <<b, j>> # <<d2, p>> =>
            j \in Filed(t, b) /\ slots'[b][j] = t[b][j]
  /\ \A b \in Dirs : \A j \in Filed(t, b) :
       <<b, j>> # <<d, i>> /\ <<b, j>> # <<d2, p>> =>
         j \in Filed(slots', b) /\ slots'[b][j] = t[b][j]

\* The copy of the entry under its new name.
Copy(d, n, m) == [slots[d][Slot(d, n)] EXCEPT !.name = m]

LEMMA CopyGives ==
  ASSUME DirAssumption, TypeOK, NEW d \in Dirs, NEW n \in Names, NEW m \in Names,
         Exists(d, n)
  PROVE  LET s == slots[d][Slot(d, n)]
         IN  /\ Slot(d, n) \in Filed(slots, d)
             /\ Slot(d, n) \in DOMAIN slots[d]
             /\ s \in Entry /\ s.name = n
             /\ Copy(d, n, m) \in Entry
             /\ Copy(d, n, m).name = m
             /\ Copy(d, n, m).start = s.start
             /\ Copy(d, n, m).size = s.size
<1>1. PICK s : s = slots[d][Slot(d, n)]
  OBVIOUS
<1>2. /\ Slot(d, n) \in Filed(slots, d)
      /\ Slot(d, n) \in DOMAIN slots[d]
      /\ s.name = n
  BY <1>1, SlotFound, TypeGives
<1>3. s \in Entry
  BY <1>1, <1>2, FiledEntry, TypeGives
<1>4. PICK e : e = [s EXCEPT !.name = m]
  OBVIOUS
<1>5. e \in Entry /\ e.name = m /\ e.start = s.start /\ e.size = s.size
  BY <1>3, <1>4 DEF Entry
<1>6. Copy(d, n, m) = e
  BY <1>1, <1>4 DEF Copy
<1> QED BY <1>1, <1>2, <1>3, <1>5, <1>6

LEMMA RenameGives ==
  ASSUME DirAssumption, TypeOK, NEW d \in Dirs, NEW n \in Names,
         NEW d2 \in Dirs, NEW n2 \in Names, Rename(d, n, d2, n2)
  PROVE  \E r :
           /\ r.took \subseteq free
           /\ free' = free \ r.took
           /\ dirOwn' \subseteq dirOwn \cup r.took
           /\ ~FixedRoot => dirOwn' = dirOwn \cup r.took
           /\ rootSize' \in Nat /\ rootSize <= rootSize'
           /\ slots' \in Tables
           /\ FixedRoot \/ Len(slots'[Root]) - rootSize' = Len(slots[Root]) - rootSize
           /\ ~r.ok =>
                /\ slots' = Target(d2, n2)
                /\ r.took = {} \/ (d2 = Root /\ FixedRoot)
           /\ r.ok =>
                /\ Moved(Target(d2, n2), d, Slot(d, n), d2, r.pos, Copy(d, n, n2))
                /\ \/ r.pos \in Room(Target(d2, n2), d2)
                   \/ Room(Target(d2, n2), d2) = {} /\ r.pos = InSize(d2) + 1
                /\ Room(Target(d2, n2), d2) = {} => ~(d2 = Root /\ FixedRoot)
<1> DEFINE t == Target(d2, n2)
           e == Copy(d, n, n2)
<1>1. PICK r \in AddEntry(t, d2, e, free) :
        /\ slots' = IF r.ok THEN Removed(r.slots, d, Slot(d, n)) ELSE t
        /\ Grow(d2, r.took)
        /\ free' = free \ r.took
  BY DEF Rename, Target, Copy
<1>2. /\ t \in Tables
      /\ \A b \in Dirs : DOMAIN t[b] = DOMAIN slots[b] /\ Len(t[b]) = Len(slots[b])
  BY TargetGives
<1>3. PICK i \in DOMAIN slots[d] : i = Slot(d, n)
  BY CopyGives DEF Rename
<1>4. e \in Entry
  BY CopyGives DEF Rename
<1>5. Root \in Dirs
  BY DEF DirAssumption
<1> HIDE DEF t, e
<1>6. /\ r.took \subseteq free
      /\ r.slots \in Tables
      /\ dirOwn' \subseteq dirOwn \cup r.took
      /\ ~FixedRoot => dirOwn' = dirOwn \cup r.took
      /\ rootSize' \in Nat /\ rootSize <= rootSize'
      /\ FixedRoot \/ Len(r.slots[Root]) - rootSize' = Len(slots[Root]) - rootSize
      /\ \/ r.ok /\ Added(t, d2, e, r)
         \/ ~r.ok /\ r.slots = t /\ (r.took = {} \/ (d2 = Root /\ FixedRoot))
  BY <1>1, <1>2, <1>4, <1>5, GrowGives
<1>7. CASE ~r.ok
  <2>1. slots' = t /\ r.slots = t
    BY <1>1, <1>6, <1>7
  <2> QED BY <1>1, <1>2, <1>6, <1>7, <2>1 DEF t
<1>8. CASE r.ok
  <2>1. Added(t, d2, e, r)
    BY <1>6, <1>8
  <2>2. PICK u \in Tables : u = r.slots
    BY <1>6
  <2>3. i \in DOMAIN u[d]
    BY <1>2, <2>1, <2>2 DEF Added
  <2>4. slots' = Clear(u, d, i)
    BY <1>1, <1>3, <1>8, <2>2 DEF Removed
  <2>5. LET v == Clear(u, d, i)
        IN  /\ v \in Tables
            /\ \A b \in Dirs : DOMAIN v[b] = DOMAIN u[b] /\ Len(v[b]) = Len(u[b])
            /\ \A b \in Dirs : \A j \in Filed(v, b) :
                 <<b, j>> # <<d, i>> /\ j \in Filed(u, b) /\ v[b][j] = u[b][j]
            /\ \A b \in Dirs : \A j \in Filed(u, b) :
                 <<b, j>> # <<d, i>> => j \in Filed(v, b)
    BY <2>3, ClearProps
  <2>6. /\ slots' \in Tables
        /\ \A b \in Dirs : Len(slots'[b]) = Len(u[b])
        /\ \A b \in Dirs : \A j \in Filed(slots', b) :
             <<b, j>> # <<d, i>> /\ j \in Filed(u, b) /\ slots'[b][j] = u[b][j]
        /\ \A b \in Dirs : \A j \in Filed(u, b) :
             <<b, j>> # <<d, i>> => j \in Filed(slots', b)
    BY <2>4, <2>5
  <2>7. /\ r.pos \in Filed(u, d2)
        /\ u[d2][r.pos] = e
        /\ \A b \in Dirs : \A j \in DOMAIN t[b] :
             j \in DOMAIN u[b] /\ (<<b, j>> # <<d2, r.pos>> => u[b][j] = t[b][j])
        /\ ~aged =>
             \A b \in Dirs : \A j \in Filed(u, b) :
               <<b, j>> # <<d2, r.pos>> => j \in Filed(t, b) /\ u[b][j] = t[b][j]
    BY <2>1, <2>2 DEF Added
  <2>8. Moved(t, d, i, d2, r.pos, e)
    <3>1. <<d2, r.pos>> # <<d, i>> => r.pos \in Filed(slots', d2) /\ slots'[d2][r.pos] = e
      BY <2>6, <2>7
    <3>2. \A b \in Dirs : \A j \in Filed(slots', b) :
            /\ <<b, j>> # <<d, i>>
            /\ ~aged /\ <<b, j>> # <<d2, r.pos>> =>
                 j \in Filed(t, b) /\ slots'[b][j] = t[b][j]
      BY <2>6, <2>7
    <3>3. ASSUME NEW b \in Dirs, NEW j \in Filed(t, b),
                 <<b, j>> # <<d, i>>, <<b, j>> # <<d2, r.pos>>
          PROVE  j \in Filed(slots', b) /\ slots'[b][j] = t[b][j]
      <4>1. j \in DOMAIN t[b] /\ IsFile(t[b][j])
        BY DEF Filed
      <4>2. j \in Filed(u, b) /\ u[b][j] = t[b][j]
        BY <2>7, <3>3, <4>1 DEF Filed
      <4> QED BY <2>6, <3>3, <4>2
    <3> QED BY <3>1, <3>2, <3>3 DEF Moved
  <2>9. FixedRoot \/ Len(slots'[Root]) - rootSize' = Len(slots[Root]) - rootSize
    BY <1>5, <1>6, <2>2, <2>6
  <2>10. /\ r.pos \in Room(t, d2) \/ (Room(t, d2) = {} /\ r.pos = InSize(d2) + 1)
         /\ Room(t, d2) = {} => ~(d2 = Root /\ FixedRoot)
    BY <2>1 DEF Added
  <2> QED BY <1>1, <1>3, <1>6, <1>8, <2>6, <2>8, <2>9, <2>10 DEF t, e
<1> QED BY <1>7, <1>8

LEMMA RenameOwns ==
  ASSUME DirAssumption, OwnInv, UNCHANGED aged, NEW d \in Dirs, NEW n \in Names,
         NEW d2 \in Dirs, NEW n2 \in Names, Rename(d, n, d2, n2)
  PROVE  OwnInv'
<1> DEFINE t == Target(d2, n2)
           i == Slot(d, n)
           s == slots[d][i]
           e == Copy(d, n, n2)
<1>1. PICK r :
        /\ r.took \subseteq free
        /\ free' = free \ r.took
        /\ dirOwn' \subseteq dirOwn \cup r.took
        /\ rootSize' \in Nat /\ rootSize <= rootSize'
        /\ slots' \in Tables
        /\ FixedRoot \/ Len(slots'[Root]) - rootSize' = Len(slots[Root]) - rootSize
        /\ ~r.ok => slots' = t
        /\ r.ok => Moved(t, d, i, d2, r.pos, e)
  BY RenameGives DEF OwnInv
<1>2. UNCHANGED <<handles, written>>
  BY DEF Rename
<1>3. i \in Filed(slots, d) /\ s \in Entry /\ e.start = s.start
  BY CopyGives DEF OwnInv, Rename
<1>4. \A b \in Dirs : \A j \in Filed(t, b) :
        j \in Filed(slots, b) /\ t[b][j] = slots[b][j]
  BY TargetGives DEF OwnInv
<1> HIDE DEF t, i, s, e
<1>5. TypeOK'
  <2>1. FixedRoot \/ rootSize' <= Len(slots'[Root])
    <3>1. Len(slots'[Root]) \in Nat /\ Len(slots[Root]) \in Nat
      BY <1>1, TypeGives DEF Tables, DirAssumption, OwnInv
    <3> QED BY <1>1, <3>1, TypeGives DEF OwnInv
  <2>2. slots' \in [Dirs -> Seq(Entry \cup {Empty, Other})]
    BY <1>1 DEF Tables, Special
  <2>3. free' \subseteq Clusters /\ dirOwn' \subseteq Clusters
    BY <1>1 DEF OwnInv, TypeOK
  <2> QED BY <1>1, <1>2, <2>1, <2>2, <2>3 DEF OwnInv, TypeOK
<1>6. ASSUME ~aged, NEW b \in Dirs, NEW j \in Filed(slots, b)'
      PROVE  \/ b = d2 /\ j = r.pos /\ r.ok /\ slots'[b][j].start = s.start
             \/ /\ j \in Filed(slots, b) /\ slots'[b][j] = slots[b][j]
                /\ r.ok => <<b, j>> # <<d, i>>
  <2>1. j \in Filed(slots', b)
    BY DEF Filed
  <2>2. CASE ~r.ok
    BY <1>1, <1>4, <2>1, <2>2
  <2>3. CASE r.ok /\ <<b, j>> # <<d2, r.pos>>
    BY <1>1, <1>4, <1>6, <2>1, <2>3 DEF Moved
  <2>4. CASE r.ok /\ <<b, j>> = <<d2, r.pos>>
    <3>1. <<b, j>> # <<d, i>>
      BY <1>1, <2>1, <2>4 DEF Moved
    <3>2. slots'[b][j] = e
      BY <1>1, <2>4, <3>1 DEF Moved
    <3> QED BY <1>3, <2>4, <3>2
  <2> QED BY <2>2, <2>3, <2>4
<1>7. PerCluster <= rootSize'
  BY <1>1, TypeGives DEF OwnInv, DirAssumption
<1>8. ASSUME ~aged PROVE Owned'
  <2>1. StartsApart /\ StartsTaken /\ free \cap dirOwn = {}
    BY <1>8 DEF OwnInv, Owned
  <2>2. StartsApart'
    BY <1>3, <1>6, <1>8, <2>1 DEF StartsApart, s
  <2>3. free' \cup dirOwn' \subseteq free \cup dirOwn /\ free' \cap dirOwn' = {}
    BY <1>1, <2>1
  <2>4. StartsTaken'
    BY <1>3, <1>6, <1>8, <2>1, <2>3 DEF StartsTaken, s
  <2> QED BY <2>2, <2>3, <2>4 DEF Owned
<1> QED BY <1>5, <1>7, <1>8 DEF OwnInv

LEMMA RemountOwns ==
  ASSUME DirAssumption, OwnInv, UNCHANGED aged, Remount
  PROVE  OwnInv'
<1>1. UNCHANGED <<slots, free, dirOwn, handles, written>> /\ rootSize' = PerCluster
  BY DEF Remount
<1>2. PerCluster \in Nat /\ (FixedRoot \/ PerCluster <= Len(slots[Root]))
  <2>1. Len(slots[Root]) \in Nat
    BY TypeGives DEF Tables, OwnInv, DirAssumption
  <2> QED BY <2>1, TypeGives DEF OwnInv, DirAssumption
<1>3. TypeOK'
  BY <1>1, <1>2 DEF OwnInv, TypeOK
<1> QED BY <1>1, <1>2, <1>3 DEF OwnInv, Owned, StartsApart, StartsTaken, Filed

LEMMA InitOwns ==
  DirAssumption /\ Init => OwnInv /\ \A d \in Dirs : Filed(slots, d) = {}
<1> SUFFICES ASSUME DirAssumption, Init
             PROVE  OwnInv /\ \A d \in Dirs : Filed(slots, d) = {}
  OBVIOUS
<1>1. PICK f : f = [i \in 1 .. PerCluster |-> IF i <= Taken THEN Other ELSE Empty]
  OBVIOUS
<1>2. PerCluster \in Nat
  BY DEF DirAssumption
<1>3. /\ f \in Seq(Entry \cup Special)
      /\ Len(f) = PerCluster
      /\ \A i \in DOMAIN f : ~IsFile(f[i])
  <2>1. f \in [1 .. PerCluster -> {Empty, Other}]
    BY <1>1
  <2>2. f \in Seq(Entry \cup Special) /\ Len(f) = PerCluster
    BY <1>1, <1>2, <2>1 DEF Special
  <2> QED BY <2>1, <2>2, EntriesAreFiles
<1>4. slots \in Tables /\ \A d \in Dirs : slots[d] = f
  BY <1>1, <1>3 DEF Init, Tables
<1>5. \A d \in Dirs : Filed(slots, d) = {}
  BY <1>3, <1>4 DEF Filed
<1>6. TypeOK
  <2>1. slots \in [Dirs -> Seq(Entry \cup {Empty, Other})]
    BY <1>4 DEF Tables, Special
  <2>2. rootSize \in Nat /\ rootSize <= Len(slots[Root])
    BY <1>2, <1>3, <1>4 DEF Init, DirAssumption
  <2>3. /\ free \subseteq Clusters /\ dirOwn \subseteq Clusters
        /\ handles \in [Handles -> Handle \cup {Closed}]
        /\ written \in [Clusters -> 0 .. MaxSize]
    BY DEF Init, DirAssumption
  <2>4. aged \in BOOLEAN
    BY DEF Init
  <2> QED BY <2>1, <2>2, <2>3, <2>4 DEF TypeOK
<1>7. StartsApart /\ StartsTaken
  BY <1>5 DEF StartsApart, StartsTaken
<1>8. PerCluster <= rootSize /\ free \cap dirOwn = {}
  BY <1>2 DEF Init
<1> QED BY <1>5, <1>6, <1>7, <1>8 DEF OwnInv, Owned

\* What is in free clusters at the start is there for good.
LEMMA StepAged == [Next]_vars => UNCHANGED aged
<1>1. ASSUME NEW d \in Dirs, NEW n \in Names, NEW h \in Handles,
             Create(d, n, h) \/ Open(d, n, h)
      PROVE  UNCHANGED aged
  BY <1>1 DEF Create, Open
<1>2. ASSUME NEW d \in Dirs, NEW n \in Names, Unlink(d, n) PROVE UNCHANGED aged
  BY <1>2 DEF Unlink
<1>3. ASSUME NEW d \in Dirs, NEW n \in Names, NEW d2 \in Dirs, NEW n2 \in Names,
             Rename(d, n, d2, n2)
      PROVE  UNCHANGED aged
  BY <1>3 DEF Rename
<1>4. ASSUME NEW h \in Handles, Write(h) \/ Close(h) PROVE UNCHANGED aged
  BY <1>4 DEF Write, Close
<1>5. Remount \/ UNCHANGED vars => UNCHANGED aged
  BY DEF Remount, vars
<1> QED BY <1>1, <1>2, <1>3, <1>4, <1>5 DEF Next

LEMMA StepOwns == DirAssumption /\ OwnInv /\ [Next]_vars => OwnInv'
<1> SUFFICES ASSUME DirAssumption, OwnInv, [Next]_vars PROVE OwnInv'
  OBVIOUS
<1>0. UNCHANGED aged
  BY StepAged
<1>1. ASSUME NEW d \in Dirs, NEW n \in Names, NEW h \in Handles, Create(d, n, h)
      PROVE  OwnInv'
  BY <1>1, <1>0, CreateOwns
<1>2. ASSUME NEW d \in Dirs, NEW n \in Names, NEW h \in Handles, Open(d, n, h)
      PROVE  OwnInv'
  BY <1>2, <1>0, OpenOwns
<1>3. ASSUME NEW d \in Dirs, NEW n \in Names, Unlink(d, n)
      PROVE  OwnInv'
  BY <1>3, <1>0, UnlinkOwns
<1>4. ASSUME NEW d \in Dirs, NEW n \in Names, NEW d2 \in Dirs, NEW n2 \in Names,
             Rename(d, n, d2, n2)
      PROVE  OwnInv'
  BY <1>4, <1>0, RenameOwns
<1>5. ASSUME NEW h \in Handles, Write(h)
      PROVE  OwnInv'
  BY <1>5, <1>0, WriteOwns
<1>6. ASSUME NEW h \in Handles, Close(h)
      PROVE  OwnInv'
  BY <1>6, <1>0, CloseOwns
<1>7. CASE Remount
  BY <1>7, <1>0, RemountOwns
<1>8. CASE UNCHANGED vars
  BY <1>8 DEF vars, OwnInv, Owned, TypeOK, StartsApart, StartsTaken, Filed
<1> QED BY <1>1, <1>2, <1>3, <1>4, <1>5, <1>6, <1>7, <1>8 DEF Next

\* The slots, clusters and handles are what they are said to be, also when
\* the inode of the root directory forgets its size at a mount.
THEOREM TypeCorrect == Spec => []TypeOK
<1>1. OwnInv => TypeOK
  BY DEF OwnInv
<1> QED BY <1>1, InitOwns, StepOwns, DirAssumption, PTL DEF Spec

\* Whatever the callers do, in any number of directories and across mounts:
\* no two files of any directory share a cluster, and none has a cluster that
\* fat_alloc_clusters would give away again or that a directory grew by, as long
\* as no directory grows by a cluster with old bytes in it: these are entries
\* too, and name whatever clusters they do.
THEOREM StartsAlwaysOwned == Spec => []StartsOwned
<1>1. OwnInv => StartsOwned
  BY OwnInvGives DEF OwnInv, Owned, StartsOwned
<1> QED BY <1>1, InitOwns, StepOwns, DirAssumption, PTL DEF Spec

-----------------------------------------------------------------------------
(* A rename keeps the file.                                                *)

\* The copy does not come to the slot that is freed next, and a target that
\* is removed is another file.
LEMMA RenameKeepsFile ==
  ASSUME DirAssumption, TypeOK,
         NEW d \in Dirs, NEW d2 \in Dirs, NEW n \in Names, NEW n2 \in Names,
         Rename(d, n, d2, n2), <<d, n>> # <<d2, n2>>,
         d = d2 /\ ~Exists(d2, n2) => ~GrowsOver(d, Slot(d, n))
  PROVE  \E d3 \in Dirs : \E i \in DOMAIN slots'[d3] :
           /\ IsFile(slots'[d3][i])
           /\ slots'[d3][i].start = slots[d][Slot(d, n)].start
           /\ slots'[d3][i].size = slots[d][Slot(d, n)].size
<1> DEFINE t == Target(d2, n2)
           i == Slot(d, n)
           s == slots[d][i]
           e == Copy(d, n, n2)
<1>1. PICK r :
        /\ ~r.ok => slots' = t
        /\ r.ok =>
             /\ Moved(t, d, i, d2, r.pos, e)
             /\ \/ r.pos \in Room(t, d2)
                \/ Room(t, d2) = {} /\ r.pos = InSize(d2) + 1
  BY RenameGives
<1>2. /\ i \in Filed(slots, d) /\ s.name = n
      /\ e.start = s.start /\ e.size = s.size
  BY CopyGives DEF Rename
<1>3. /\ \A b \in Dirs : \A j \in Filed(t, b) :
           j \in Filed(slots, b) /\ t[b][j] = slots[b][j]
      /\ \A b \in Dirs : \A j \in Filed(slots, b) :
           \/ j \in Filed(t, b)
           \/ Exists(d2, n2) /\ b = d2 /\ slots[b][j].name = n2
      /\ Room(slots, d2) \subseteq Room(t, d2)
      /\ \A j \in Room(t, d2) :
           j \in Room(slots, d2) \/ (Exists(d2, n2) /\ j = Slot(d2, n2))
  BY TargetGives
<1>4. Exists(d2, n2) => slots[d2][Slot(d2, n2)].name = n2 /\ Slot(d2, n2) \in Filed(slots, d2)
  BY SlotFound, TypeGives
<1>5. \A j \in Room(slots, d2) : j \notin Filed(slots, d2)
  BY EntriesAreFiles DEF Room, Filed
<1>6. i \in Filed(t, d) /\ t[d][i] = s
  BY <1>2, <1>3
<1>7. Exists(d2, n2) => Room(t, d2) # {}
  <2>1. CASE Exists(d2, n2)
    <3>1. PICK k \in DOMAIN slots[d2] : k = Slot(d2, n2)
      BY <2>1, SlotFound, TypeGives
    <3>2. Clear(slots, d2, k)[d2][k] = Empty /\ DOMAIN Clear(slots, d2, k)[d2] = DOMAIN slots[d2]
      BY ClearProps, TypeGives
    <3>3. t = Clear(slots, d2, k)
      BY <2>1, <3>1 DEF Target
    <3> QED BY <3>1, <3>2, <3>3 DEF Room
  <2> QED BY <2>1
<1> HIDE DEF t, i, s, e
<1>8. CASE ~r.ok
  <2>1. i \in DOMAIN slots'[d] /\ IsFile(slots'[d][i]) /\ slots'[d][i] = s
    BY <1>1, <1>6, <1>8 DEF Filed
  <2> QED BY <2>1 DEF s, i
<1>9. CASE r.ok
  <2>1. <<d2, r.pos>> # <<d, i>>
    <3> SUFFICES ASSUME d2 = d, r.pos = i PROVE FALSE
      OBVIOUS
    <3>1. CASE i \in Room(t, d)
      <4>1. i \in Room(slots, d) \/ (Exists(d2, n2) /\ i = Slot(d2, n2))
        BY <1>3, <3>1
      <4> QED BY <1>2, <1>4, <1>5, <4>1 DEF s
    <3>2. CASE Room(t, d) = {} /\ i = InSize(d) + 1
      <4>1. Room(slots, d) = {} /\ ~Exists(d2, n2)
        BY <1>3, <1>7, <3>2
      <4> QED BY <3>2, <4>1 DEF GrowsOver, i
    <3> QED BY <1>1, <1>9, <3>1, <3>2
  <2>2. r.pos \in Filed(slots', d2) /\ slots'[d2][r.pos] = e
    BY <1>1, <1>9, <2>1 DEF Moved
  <2>3. r.pos \in DOMAIN slots'[d2] /\ IsFile(slots'[d2][r.pos])
    BY <2>2 DEF Filed
  <2> QED BY <1>2, <2>2, <2>3 DEF s, i
<1> QED BY <1>8, <1>9

\* A rename to another name leaves the file in some directory with its
\* cluster and its size, whether it finds room or not and whatever it
\* replaces; only a full directory whose i_size leads to the file's own slot
\* loses it.
THEOREM RenameAlwaysKeeps == Spec => RenameKeeps
<1>1. ASSUME DirAssumption, TypeOK, [Next]_vars
      PROVE  [\A d, d2 \in Dirs, n, n2 \in Names :
                /\ Rename(d, n, d2, n2)
                /\ <<d, n>> # <<d2, n2>>
                /\ d = d2 /\ ~Exists(d2, n2) => ~GrowsOver(d, Slot(d, n))
                =>
                  \E d3 \in Dirs : \E i \in DOMAIN slots'[d3] :
                    /\ IsFile(slots'[d3][i])
                    /\ slots'[d3][i].start = slots[d][Slot(d, n)].start
                    /\ slots'[d3][i].size = slots[d][Slot(d, n)].size]_vars
  BY <1>1, RenameKeepsFile
<1> QED BY <1>1, TypeCorrect, DirAssumption, PTL DEF Spec, RenameKeeps

-----------------------------------------------------------------------------
(* One directory, used until it is unmounted.                              *)

\* The root directory is the only one, and is not mounted again.
OneDir == Dirs = {Root} /\ "remount" \notin Uses

\* i_size of the root directory is the number of its slots.
RootFresh == FixedRoot \/ rootSize = Len(slots[Root])

LEMMA LenNat ==
  ASSUME DirAssumption, NEW t \in Tables
  PROVE  Len(t[Root]) \in Nat /\ DOMAIN t[Root] = 1 .. Len(t[Root])
BY DEF Tables, DirAssumption

LEMMA StepFresh ==
  ASSUME DirAssumption, OwnInv, RootFresh, OneDir, [Next]_vars
  PROVE  RootFresh'
<1>1. Len(slots[Root]) \in Nat /\ rootSize \in Nat /\ Root \in Dirs
  BY LenNat, TypeGives DEF OwnInv, DirAssumption
<1>2. ASSUME rootSize' \in Nat, slots' \in Tables,
             FixedRoot \/ Len(slots'[Root]) - rootSize' = Len(slots[Root]) - rootSize
      PROVE  RootFresh'
  <2>1. Len(slots'[Root]) \in Nat
    BY <1>2, LenNat
  <2> QED BY <1>1, <1>2, <2>1 DEF RootFresh
<1>3. ASSUME NEW d \in Dirs, NEW n \in Names, NEW h \in Handles, Create(d, n, h)
      PROVE  RootFresh'
  <2>1. /\ rootSize' \in Nat /\ slots' \in Tables
        /\ FixedRoot \/ Len(slots'[Root]) - rootSize' = Len(slots[Root]) - rootSize
    BY <1>3, CreateGives DEF OwnInv
  <2> QED BY <1>2, <2>1
<1>4. ASSUME NEW d \in Dirs, NEW n \in Names, NEW d2 \in Dirs, NEW n2 \in Names,
             Rename(d, n, d2, n2)
      PROVE  RootFresh'
  <2>1. /\ rootSize' \in Nat /\ slots' \in Tables
        /\ FixedRoot \/ Len(slots'[Root]) - rootSize' = Len(slots[Root]) - rootSize
    BY <1>4, RenameGives DEF OwnInv
  <2> QED BY <1>2, <2>1
<1>5. ASSUME NEW d \in Dirs, NEW n \in Names, NEW h \in Handles, Open(d, n, h)
      PROVE  RootFresh'
  BY <1>5 DEF Open, RootFresh
<1>6. ASSUME NEW d \in Dirs, NEW n \in Names, Unlink(d, n)
      PROVE  RootFresh'
  <2>1. Len(slots'[Root]) = Len(slots[Root])
    BY <1>1, <1>6, UnlinkGives DEF OwnInv
  <2> QED BY <1>6, <2>1 DEF Unlink, RootFresh
<1>7. ASSUME NEW h \in Handles, Write(h)
      PROVE  RootFresh'
  BY <1>7 DEF Write, RootFresh
<1>8. ASSUME NEW h \in Handles, Close(h)
      PROVE  RootFresh'
  <2>1. Len(slots'[Root]) = Len(slots[Root])
    BY <1>1, <1>8, CloseGives DEF OwnInv
  <2> QED BY <1>8, <2>1 DEF Close, RootFresh
<1>9. CASE Remount
  BY <1>9 DEF Remount, OneDir
<1>10. CASE UNCHANGED vars
  BY <1>10 DEF vars, RootFresh
<1> QED BY <1>3, <1>4, <1>5, <1>6, <1>7, <1>8, <1>9, <1>10 DEF Next

LEMMA InitFresh == DirAssumption /\ Init => RootFresh
<1> SUFFICES ASSUME DirAssumption, Init PROVE RootFresh
  OBVIOUS
<1>1. PICK f : f = [i \in 1 .. PerCluster |-> IF i <= Taken THEN Other ELSE Empty]
  OBVIOUS
<1>2. Len(f) = PerCluster
  BY <1>1 DEF DirAssumption
<1>3. slots[Root] = f
  BY <1>1 DEF Init, DirAssumption
<1> QED BY <1>2, <1>3 DEF Init, RootFresh

\* An entry comes to a slot that was empty or did not exist.
LEMMA FreshPos ==
  ASSUME DirAssumption, OneDir, RootFresh, rootSize \in Nat,
         NEW t \in Tables, Len(t[Root]) = Len(slots[Root]),
         NEW p, p \in Room(t, Root) \/ (Room(t, Root) = {} /\ p = InSize(Root) + 1),
         Room(t, Root) = {} => ~FixedRoot
  PROVE  \A j \in DOMAIN t[Root] : t[Root][j] # Empty => j # p
<1>1. CASE p \in Room(t, Root)
  BY <1>1 DEF Room
<1>2. CASE Room(t, Root) = {} /\ p = InSize(Root) + 1
  <2>1. p = Len(t[Root]) + 1
    BY <1>2 DEF InSize, RootFresh
  <2> QED BY <2>1, LenNat
<1> QED BY <1>1, <1>2

LEMMA CreateKeepsEntries ==
  ASSUME DirAssumption, OwnInv, OneDir, RootFresh,
         NEW d \in Dirs, NEW n \in Names, NEW h \in Handles, Create(d, n, h),
         NEW b \in Dirs, NEW i \in DOMAIN slots[b], slots[b][i] # Empty
  PROVE  slots'[b][i] = slots[b][i]
<1>1. PICK c \in free : \E r :
        /\ slots' = r.slots
        /\ \/ r.ok /\ Added(slots, d, NewEntry(n, c), r)
           \/ ~r.ok /\ slots' = slots
  BY CreateGives DEF OwnInv
<1>2. PICK r :
        /\ slots' = r.slots
        /\ \/ r.ok /\ Added(slots, d, NewEntry(n, c), r)
           \/ ~r.ok /\ slots' = slots
  BY <1>1
<1>3. CASE slots' = slots
  BY <1>3
<1>4. CASE Added(slots, d, NewEntry(n, c), r)
  <2>1. d = Root /\ b = Root
    BY DEF OneDir
  <2>2. /\ r.pos \in Room(slots, Root) \/ (Room(slots, Root) = {} /\ r.pos = InSize(Root) + 1)
        /\ r.pos \notin Room(slots, Root) => ~FixedRoot
    BY <1>4, <2>1 DEF Added
  <2>3. i # r.pos
    BY <2>1, <2>2, FreshPos, TypeGives DEF OwnInv
  <2> QED BY <1>2, <1>4, <2>1, <2>3 DEF Added
<1> QED BY <1>2, <1>3, <1>4

\* In a root directory that was mounted once, ufs_create leaves every slot
\* alone that is in use, files and other entries: also when the directory has
\* to grow, over old bytes or not, and whatever the callers did before.
THEOREM EntriesAlwaysKept == OneDir /\ Spec => EntriesKept
<1> SUFFICES ASSUME OneDir PROVE Spec => EntriesKept
  OBVIOUS
<1>1. Init => OwnInv /\ RootFresh
  BY InitOwns, InitFresh, DirAssumption
<1>2. OwnInv /\ RootFresh /\ [Next]_vars => OwnInv' /\ RootFresh'
  BY StepOwns, StepFresh, DirAssumption
<1>3. OwnInv /\ RootFresh /\ [Next]_vars =>
        [(\E d \in Dirs, n \in Names, h \in Handles : Create(d, n, h)) =>
           \A d \in Dirs : \A i \in DOMAIN slots[d] :
             slots[d][i] # Empty => slots'[d][i] = slots[d][i]]_vars
  BY CreateKeepsEntries, DirAssumption
<1> QED BY <1>1, <1>2, <1>3, PTL DEF Spec, EntriesKept

-----------------------------------------------------------------------------
(* Files of the one directory.                                             *)

\* A new file comes to a slot where none was.
LEMMA CreateInRoot ==
  ASSUME DirAssumption, OwnInv, OneDir, RootFresh,
         NEW d \in Dirs, NEW n \in Names, NEW h \in Handles, Create(d, n, h)
  PROVE  \E c \in free : \E r :
           /\ c \in Clusters
           /\ r.took \subseteq free \ {c}
           /\ ~FixedRoot => dirOwn' = dirOwn \cup r.took
           /\ written' = [written EXCEPT ![c] = 0]
           /\ \A j \in Filed(slots, Root) :
                j \in Filed(slots', Root) /\ slots'[Root][j] = slots[Root][j]
           /\ r.ok =>
                /\ free' = (free \ {c}) \ r.took
                /\ handles' = [handles EXCEPT ![h] =
                     [dir |-> Root, pos |-> r.pos, start |-> c, size |-> 0]]
                /\ r.pos \in Filed(slots', Root)
                /\ slots'[Root][r.pos] = NewEntry(n, c)
                /\ r.pos \notin Filed(slots, Root)
                /\ ~aged =>
                     \A j \in Filed(slots', Root) : j # r.pos => j \in Filed(slots, Root)
           /\ ~r.ok =>
                /\ free' = free \ r.took
                /\ handles' = handles
                /\ slots' = slots
                /\ ~FixedRoot => r.took = {}
<1>1. d = Root
  BY DEF OneDir
<1>2. PICK c \in free : \E r :
        /\ c \in Clusters
        /\ r.took \subseteq free \ {c}
        /\ free' = IF r.ok THEN (free \ {c}) \ r.took ELSE free \ r.took
        /\ ~FixedRoot => dirOwn' = dirOwn \cup r.took
        /\ handles' = [handles EXCEPT ![h] =
             IF r.ok THEN [dir |-> d, pos |-> r.pos, start |-> c, size |-> 0]
                     ELSE Closed]
        /\ written' = [written EXCEPT ![c] = 0]
        /\ slots' = r.slots
        /\ \/ r.ok /\ Added(slots, d, NewEntry(n, c), r)
           \/ ~r.ok /\ slots' = slots /\ (r.took = {} \/ (d = Root /\ FixedRoot))
  BY CreateGives DEF OwnInv
<1>3. PICK r :
        /\ c \in Clusters
        /\ r.took \subseteq free \ {c}
        /\ free' = IF r.ok THEN (free \ {c}) \ r.took ELSE free \ r.took
        /\ ~FixedRoot => dirOwn' = dirOwn \cup r.took
        /\ handles' = [handles EXCEPT ![h] =
             IF r.ok THEN [dir |-> d, pos |-> r.pos, start |-> c, size |-> 0]
                     ELSE Closed]
        /\ written' = [written EXCEPT ![c] = 0]
        /\ slots' = r.slots
        /\ \/ r.ok /\ Added(slots, d, NewEntry(n, c), r)
           \/ ~r.ok /\ slots' = slots /\ (r.took = {} \/ (d = Root /\ FixedRoot))
  BY <1>2
<1>4. CASE ~r.ok
  <2>1. handles' = handles
    <3>1. handles[h] = Closed /\ handles \in [Handles -> Handle \cup {Closed}]
      BY DEF Create, OwnInv, TypeOK
    <3>2. handles' = [handles EXCEPT ![h] = Closed]
      BY <1>3, <1>4
    <3> QED BY <3>1, <3>2
  <2>2. slots' = slots /\ free' = free \ r.took /\ (~FixedRoot => r.took = {})
    BY <1>3, <1>4
  <2> QED BY <1>3, <1>4, <2>1, <2>2
<1>5. CASE r.ok
  <2>1. Added(slots, Root, NewEntry(n, c), r)
    BY <1>1, <1>3, <1>5
  <2>2. /\ r.pos \in Filed(slots', Root)
        /\ slots'[Root][r.pos] = NewEntry(n, c)
        /\ \A j \in DOMAIN slots[Root] :
             j \in DOMAIN slots'[Root] /\ (j # r.pos => slots'[Root][j] = slots[Root][j])
        /\ ~aged =>
             \A j \in Filed(slots', Root) : j # r.pos => j \in Filed(slots, Root)
        /\ r.pos \in Room(slots, Root) \/ (Room(slots, Root) = {} /\ r.pos = InSize(Root) + 1)
        /\ Room(slots, Root) = {} => ~FixedRoot
    BY <1>3, <2>1 DEF Added, DirAssumption
  <2>3. \A j \in DOMAIN slots[Root] : slots[Root][j] # Empty => j # r.pos
    BY <2>2, FreshPos, TypeGives DEF OwnInv
  <2>4. r.pos \notin Filed(slots, Root)
    BY <2>3, EntriesAreFiles DEF Filed
  <2>5. \A j \in Filed(slots, Root) :
          j \in Filed(slots', Root) /\ slots'[Root][j] = slots[Root][j]
    BY <2>2, <2>4 DEF Filed
  <2>6. /\ free' = (free \ {c}) \ r.took
        /\ handles' = [handles EXCEPT ![h] =
             [dir |-> Root, pos |-> r.pos, start |-> c, size |-> 0]]
    BY <1>1, <1>3, <1>5
  <2> QED BY <1>3, <1>5, <2>2, <2>4, <2>5, <2>6
<1> QED BY <1>4, <1>5

\* A rename that replaces no other file moves one entry to a slot where no
\* other file was.
LEMMA RenameInRoot ==
  ASSUME DirAssumption, OwnInv, OneDir, RootFresh, "overwrite" \notin Uses,
         NEW d \in Dirs, NEW n \in Names, NEW d2 \in Dirs, NEW n2 \in Names,
         Rename(d, n, d2, n2)
  PROVE  \E r :
           /\ r.took \subseteq free
           /\ free' = free \ r.took
           /\ ~FixedRoot => dirOwn' = dirOwn \cup r.took
           /\ \A j \in Filed(slots, Root) :
                j # Slot(Root, n) =>
                  j \in Filed(slots', Root) /\ slots'[Root][j] = slots[Root][j]
           /\ ~aged =>
                \A j \in Filed(slots', Root) :
                  \/ j \in Filed(slots, Root) /\ slots'[Root][j] = slots[Root][j]
                  \/ r.ok /\ j = r.pos /\ slots'[Root][j] = Copy(Root, n, n2)
           /\ r.ok =>
                /\ \A j \in Filed(slots', Root) : j # Slot(Root, n)
                /\ r.pos \in Filed(slots, Root) => r.pos = Slot(Root, n)
                /\ n # n2 => /\ r.pos \in Filed(slots', Root)
                             /\ slots'[Root][r.pos] = Copy(Root, n, n2)
           /\ ~r.ok => /\ n # n2 => slots' = slots
                       /\ ~FixedRoot => r.took = {}
<1> DEFINE t == Target(Root, n2)
           i == Slot(Root, n)
           e == Copy(Root, n, n2)
<1>1. d = Root /\ d2 = Root /\ Root \in Dirs
  BY DEF OneDir
<1>2. PICK r :
        /\ r.took \subseteq free
        /\ free' = free \ r.took
        /\ ~FixedRoot => dirOwn' = dirOwn \cup r.took
        /\ ~r.ok => slots' = t /\ (r.took = {} \/ FixedRoot)
        /\ r.ok =>
             /\ Moved(t, Root, i, Root, r.pos, e)
             /\ \/ r.pos \in Room(t, Root)
                \/ Room(t, Root) = {} /\ r.pos = InSize(Root) + 1
             /\ Room(t, Root) = {} => ~FixedRoot
  BY <1>1, RenameGives DEF OwnInv
<1>3. i \in Filed(slots, Root) /\ slots[Root][i].name = n
  BY <1>1, CopyGives DEF OwnInv, Rename
<1>4. Exists(Root, n2) => n = n2
  BY <1>1 DEF Rename
<1>5. n # n2 => t = slots
  BY <1>4 DEF Target
<1>6. /\ t \in Tables
      /\ Len(t[Root]) = Len(slots[Root])
      /\ DOMAIN t[Root] = DOMAIN slots[Root]
      /\ \A j \in Filed(t, Root) : j \in Filed(slots, Root) /\ t[Root][j] = slots[Root][j]
      /\ \A j \in Filed(slots, Root) :
           j \in Filed(t, Root) \/ (Exists(Root, n2) /\ j = Slot(Root, n2))
  BY <1>1, TargetGives DEF OwnInv
<1>7. \A j \in Filed(slots, Root) : j # i => j \in Filed(t, Root) /\ t[Root][j] = slots[Root][j]
  BY <1>4, <1>6
<1> HIDE DEF t, i, e
<1>8. r.ok => r.pos \notin Filed(t, Root)
  <2> SUFFICES ASSUME r.ok PROVE r.pos \notin Filed(t, Root)
    OBVIOUS
  <2>1. \A j \in DOMAIN t[Root] : t[Root][j] # Empty => j # r.pos
    BY <1>2, <1>6, FreshPos, TypeGives DEF OwnInv
  <2> QED BY <2>1, EntriesAreFiles DEF Filed
<1>9. CASE ~r.ok
  <2>1. slots' = t
    BY <1>2, <1>9
  <2> QED BY <1>2, <1>5, <1>6, <1>7, <1>9, <2>1 DEF i
<1>10. CASE r.ok
  <2>1. Moved(t, Root, i, Root, r.pos, e)
    BY <1>2, <1>10
  <2>2. /\ r.pos # i => r.pos \in Filed(slots', Root) /\ slots'[Root][r.pos] = e
        /\ \A j \in Filed(slots', Root) :
             /\ j # i
             /\ ~aged /\ j # r.pos =>
                  j \in Filed(t, Root) /\ slots'[Root][j] = t[Root][j]
        /\ \A j \in Filed(t, Root) : j # i /\ j # r.pos =>
             j \in Filed(slots', Root) /\ slots'[Root][j] = t[Root][j]
    BY <1>1, <2>1 DEF Moved
  <2>3. \A j \in Filed(slots, Root) :
          j # i => j \in Filed(slots', Root) /\ slots'[Root][j] = slots[Root][j]
    <3> SUFFICES ASSUME NEW j \in Filed(slots, Root), j # i
                 PROVE  j \in Filed(slots', Root) /\ slots'[Root][j] = slots[Root][j]
      OBVIOUS
    <3>1. j \in Filed(t, Root) /\ t[Root][j] = slots[Root][j] /\ j # r.pos
      BY <1>7, <1>8, <1>10
    <3> QED BY <2>2, <3>1
  <2>4. ~aged =>
          \A j \in Filed(slots', Root) :
            \/ j \in Filed(slots, Root) /\ slots'[Root][j] = slots[Root][j]
            \/ j = r.pos /\ slots'[Root][j] = e
    BY <1>6, <2>2
  <2>5. r.pos \in Filed(slots, Root) => r.pos = i
    BY <1>7, <1>8, <1>10
  <2>6. n # n2 => r.pos # i
    BY <1>3, <1>5, <1>8, <1>10
  <2> QED BY <1>2, <1>10, <2>2, <2>3, <2>4, <2>5, <2>6 DEF i, e
<1> QED BY <1>9, <1>10

-----------------------------------------------------------------------------
(* No cluster gets lost.                                                   *)

\* A cluster that is neither free nor the directory's is a file's.
Placed ==
  \A c \in Clusters :
    \/ c \in free \cup dirOwn
    \/ \E j \in Filed(slots, Root) : slots[Root][j].start = c

LEMMA StepPlaces ==
  ASSUME DirAssumption, OwnInv, OneDir, RootFresh, Placed,
         ~FixedRoot, {"overwrite", "self"} \cap Uses = {}, [Next]_vars
  PROVE  Placed'
<1>1. ASSUME NEW d \in Dirs, NEW n \in Names, NEW h \in Handles, Create(d, n, h)
      PROVE  Placed'
  <2>1. PICK c \in free : \E r :
           /\ r.took \subseteq free \ {c}
           /\ dirOwn' = dirOwn \cup r.took
           /\ \A j \in Filed(slots, Root) :
                j \in Filed(slots', Root) /\ slots'[Root][j] = slots[Root][j]
           /\ r.ok =>
                /\ free' = (free \ {c}) \ r.took
                /\ r.pos \in Filed(slots', Root)
                /\ slots'[Root][r.pos] = NewEntry(n, c)
           /\ ~r.ok => free' = free \ r.took
    BY <1>1, CreateInRoot
  <2>2. PICK r :
           /\ r.took \subseteq free \ {c}
           /\ dirOwn' = dirOwn \cup r.took
           /\ \A j \in Filed(slots, Root) :
                j \in Filed(slots', Root) /\ slots'[Root][j] = slots[Root][j]
           /\ r.ok =>
                /\ free' = (free \ {c}) \ r.took
                /\ r.pos \in Filed(slots', Root)
                /\ slots'[Root][r.pos] = NewEntry(n, c)
           /\ ~r.ok => free' = free \ r.took
    BY <2>1
  <2>3. NewEntry(n, c).start = c
    BY DEF NewEntry
  <2>4. ASSUME NEW k \in Clusters
        PROVE  k \in free' \cup dirOwn' \/ \E j \in Filed(slots', Root) : slots'[Root][j].start = k
    BY <2>2, <2>3 DEF Placed
  <2> QED BY <2>4 DEF Placed, Filed
<1>2. ASSUME NEW d \in Dirs, NEW n \in Names, NEW d2 \in Dirs, NEW n2 \in Names,
             Rename(d, n, d2, n2)
      PROVE  Placed'
  <2>1. n # n2
    BY <1>2 DEF Rename, OneDir
  <2>2. PICK r :
           /\ free' = free \ r.took
           /\ dirOwn' = dirOwn \cup r.took
           /\ \A j \in Filed(slots, Root) :
                j # Slot(Root, n) =>
                  j \in Filed(slots', Root) /\ slots'[Root][j] = slots[Root][j]
           /\ r.ok => /\ r.pos \in Filed(slots', Root)
                      /\ slots'[Root][r.pos] = Copy(Root, n, n2)
           /\ ~r.ok => slots' = slots
    BY <1>2, <2>1, RenameInRoot
  <2>3. Copy(Root, n, n2).start = slots[Root][Slot(Root, n)].start
    BY <1>2, CopyGives DEF OwnInv, Rename, OneDir
  <2>4. ASSUME NEW k \in Clusters
        PROVE  k \in free' \cup dirOwn' \/ \E j \in Filed(slots', Root) : slots'[Root][j].start = k
    <3>1. CASE k \in free \cup dirOwn
      BY <2>2, <3>1
    <3>2. CASE \E j \in Filed(slots, Root) : slots[Root][j].start = k
      <4>1. PICK j \in Filed(slots, Root) : slots[Root][j].start = k
        BY <3>2
      <4>2. CASE r.ok /\ j = Slot(Root, n)
        BY <2>2, <2>3, <4>1, <4>2
      <4>3. CASE r.ok /\ j # Slot(Root, n)
        BY <2>2, <4>1, <4>3
      <4>4. CASE ~r.ok
        BY <2>2, <4>1, <4>4
      <4> QED BY <4>2, <4>3, <4>4
    <3> QED BY <3>1, <3>2 DEF Placed
  <2> QED BY <2>4 DEF Placed, Filed
<1>3. ASSUME NEW d \in Dirs, NEW n \in Names, NEW h \in Handles, Open(d, n, h)
      PROVE  Placed'
  BY <1>3 DEF Open, Placed, Filed
<1>4. ASSUME NEW d \in Dirs, NEW n \in Names, Unlink(d, n)
      PROVE  Placed'
  <2>1. /\ \A j \in Filed(slots, Root)' :
             j \in Filed(slots, Root) /\ slots'[Root][j] = slots[Root][j]
        /\ \A j \in Filed(slots, Root) :
             j # Slot(Root, n) => j \in Filed(slots, Root)'
    BY <1>4, UnlinkGives DEF OwnInv, OneDir
  <2>2. free' = free \cup {slots[Root][Slot(Root, n)].start} /\ dirOwn' = dirOwn
    BY <1>4 DEF Unlink, OneDir
  <2> QED BY <2>1, <2>2 DEF Placed
<1>5. ASSUME NEW h \in Handles, Write(h)
      PROVE  Placed'
  BY <1>5 DEF Write, Placed, Filed
<1>6. ASSUME NEW h \in Handles, Close(h)
      PROVE  Placed'
  <2>1. /\ Filed(slots, Root)' = Filed(slots, Root)
        /\ \A j \in Filed(slots, Root) : slots'[Root][j].start = slots[Root][j].start
    BY <1>6, CloseGives DEF OwnInv, OneDir
  <2> QED BY <1>6, <2>1, ZenonT(60) DEF Close, Placed
<1>7. CASE Remount
  BY <1>7 DEF Remount, OneDir
<1>8. CASE UNCHANGED vars
  BY <1>8 DEF vars, Placed, Filed
<1> QED BY <1>1, <1>2, <1>3, <1>4, <1>5, <1>6, <1>7, <1>8 DEF Next

\* In a FAT32 root directory that was mounted once, every cluster is free, a
\* file's or the directory's, though creates and renames run out of clusters,
\* as long as no rename replaces a file or leads to its own name: then
\* vfat_rename2 leaves the clusters of a target without an owner.  Old bytes that
\* come to be entries do not change that: they may name clusters that have an owner
\* already, and take none from it.
THEOREM NeverLeaks ==
  OneDir /\ ~FixedRoot /\ {"overwrite", "self"} \cap Uses = {} /\ Spec => []NoLeaks
<1> SUFFICES ASSUME OneDir, ~FixedRoot, {"overwrite", "self"} \cap Uses = {}
             PROVE  Spec => []NoLeaks
  OBVIOUS
<1> DEFINE Inv == OwnInv /\ RootFresh /\ Placed
<1>1. Init => Inv
  BY InitOwns, InitFresh, DirAssumption DEF Init, Placed
<1>2. Inv /\ [Next]_vars => Inv'
  BY StepOwns, StepFresh, StepPlaces, DirAssumption
<1>3. Inv => NoLeaks
  <2> SUFFICES ASSUME Inv PROVE NoLeaks
    OBVIOUS
  <2>1. Root \in Dirs
    BY DirAssumption DEF DirAssumption
  <2>2. ASSUME NEW c \in Clusters
        PROVE  c \in free \cup dirOwn \cup {EntryAt(s).start : s \in FileSlots}
    <3>1. CASE c \in free \cup dirOwn
      BY <3>1
    <3>2. CASE \E j \in Filed(slots, Root) : slots[Root][j].start = c
      <4>1. PICK j \in Filed(slots, Root) : slots[Root][j].start = c
        BY <3>2
      <4>2. <<Root, j>> \in FileSlots /\ EntryAt(<<Root, j>>).start = c
        BY <2>1, <4>1 DEF FileSlots, Filed, EntryAt
      <4> QED BY <4>2
    <3> QED BY <3>1, <3>2 DEF Placed
  <2>3. ASSUME NEW s \in FileSlots PROVE EntryAt(s).start \in Clusters
    <3>1. PICK d \in Dirs : \E i \in Filed(slots, d) : EntryAt(s) = slots[d][i]
      BY DEF FileSlots, Filed, EntryAt
    <3> QED BY <3>1, FiledEntry, TypeGives, DirAssumption DEF OwnInv
  <2>4. free \cup dirOwn \subseteq Clusters
    BY DEF OwnInv, TypeOK
  <2> QED BY <2>2, <2>3, <2>4 DEF NoLeaks
<1> QED BY <1>1, <1>2, <1>3, PTL DEF Spec

-----------------------------------------------------------------------------
(* The sizes of files reach their entries.                                 *)

\* A file is open once.
HandlesApart ==
  \A h, g \in Handles :
    /\ handles[h] # Closed
    /\ handles[g] # Closed
    /\ handles[h].start = handles[g].start
    => h = g

\* Slot i has the entry of the file that is open at hd, with a size that is
\* not ahead; where the inode knows its slot, it is this one.
FoundAt(hd, i) ==
  /\ i \in Filed(slots, Root)
  /\ slots[Root][i].start = hd.start
  /\ slots[Root][i].size <= hd.size
  /\ hd.pos # 0 => hd.dir = Root /\ hd.pos = i

HandlesFound ==
  \A h \in Handles : handles[h] # Closed =>
    /\ handles[h].size = written[handles[h].start]
    /\ \E i \in Filed(slots, Root) : FoundAt(handles[h], i)

\* SizeRecorded for the one directory.
SizesKept ==
  \A i \in Filed(slots, Root) :
    ~InUse(slots[Root][i].start) => slots[Root][i].size = written[slots[Root][i].start]

SizeInv == HandlesApart /\ HandlesFound /\ SizesKept

\* The callers leave open files alone and replace none.
Careful == {"overwrite", "stale"} \cap Uses = {}

LEMMA SizesKeptGives == OneDir /\ SizesKept => SizeRecorded
<1> SUFFICES ASSUME OneDir, SizesKept, NEW s \in FileSlots
             PROVE  ~InUse(EntryAt(s).start) => EntryAt(s).size = written[EntryAt(s).start]
  BY DEF SizeRecorded
<1>1. \E i \in Filed(slots, Root) : EntryAt(s) = slots[Root][i]
  BY DEF FileSlots, Filed, EntryAt, OneDir
<1> QED BY <1>1 DEF SizesKept

\* Two files of the directory differ in their clusters.
LEMMA RootApart ==
  ASSUME DirAssumption, OwnInv, ~aged
  PROVE  /\ \A i, j \in Filed(slots, Root) :
              slots[Root][i].start = slots[Root][j].start => i = j
         /\ \A i \in Filed(slots, Root) :
              /\ slots[Root][i].start \in Clusters
              /\ slots[Root][i].start \notin free
              /\ slots[Root][i].size \in 0 .. MaxSize
<1>1. Root \in Dirs
  BY DEF DirAssumption
<1>2. \A i \in Filed(slots, Root) :
        slots[Root][i].start \in Clusters /\ slots[Root][i].size \in 0 .. MaxSize
  BY <1>1, FiledEntry, TypeGives DEF OwnInv
<1> QED BY <1>1, <1>2 DEF OwnInv, Owned, StartsApart, StartsTaken

\* Handles that are open.
LEMMA OpenHandle ==
  ASSUME DirAssumption, TypeOK, NEW h \in Handles, handles[h] # Closed
  PROVE  /\ handles[h] \in Handle
         /\ handles[h].start \in Clusters
         /\ handles[h].size \in 0 .. MaxSize
BY DEF TypeOK, Handle

LEMMA CreateSizes ==
  ASSUME DirAssumption, OwnInv, OneDir, RootFresh, SizeInv, ~aged,
         NEW d \in Dirs, NEW n \in Names, NEW h \in Handles, Create(d, n, h)
  PROVE  SizeInv'
<1>1. PICK c \in free : \E r :
        /\ c \in Clusters
        /\ written' = [written EXCEPT ![c] = 0]
        /\ \A j \in Filed(slots, Root) :
             j \in Filed(slots', Root) /\ slots'[Root][j] = slots[Root][j]
        /\ r.ok =>
             /\ handles' = [handles EXCEPT ![h] =
                  [dir |-> Root, pos |-> r.pos, start |-> c, size |-> 0]]
             /\ r.pos \in Filed(slots', Root)
             /\ slots'[Root][r.pos] = NewEntry(n, c)
             /\ \A j \in Filed(slots', Root) : j # r.pos => j \in Filed(slots, Root)
        /\ ~r.ok =>
             /\ handles' = handles
             /\ slots' = slots
  BY CreateInRoot
<1>2. PICK r :
        /\ c \in Clusters
        /\ written' = [written EXCEPT ![c] = 0]
        /\ \A j \in Filed(slots, Root) :
             j \in Filed(slots', Root) /\ slots'[Root][j] = slots[Root][j]
        /\ r.ok =>
             /\ handles' = [handles EXCEPT ![h] =
                  [dir |-> Root, pos |-> r.pos, start |-> c, size |-> 0]]
             /\ r.pos \in Filed(slots', Root)
             /\ slots'[Root][r.pos] = NewEntry(n, c)
             /\ \A j \in Filed(slots', Root) : j # r.pos => j \in Filed(slots, Root)
        /\ ~r.ok =>
             /\ handles' = handles
             /\ slots' = slots
  BY <1>1
<1>3. \A j \in Filed(slots, Root) : slots[Root][j].start # c /\ slots[Root][j].start \in Clusters
  BY RootApart
<1>4. /\ written'[c] = 0
      /\ \A k \in Clusters : k # c => written'[k] = written[k]
  BY <1>2 DEF OwnInv, TypeOK
<1>5. \A g \in Handles : handles[g] # Closed =>
        handles[g].start # c /\ handles[g].start \in Clusters
  BY <1>3 DEF SizeInv, HandlesFound, FoundAt
<1>6. \A g \in Handles : handles[g] # Closed =>
        handles[g].size = written'[handles[g].start]
  BY <1>4, <1>5 DEF SizeInv, HandlesFound
<1>7. CASE ~r.ok
  <2>1. slots' = slots /\ handles' = handles
    BY <1>2, <1>7
  <2> QED BY <1>3, <1>4, <1>5, <2>1 DEF SizeInv, HandlesApart, HandlesFound, SizesKept, FoundAt, Filed, InUse
<1>8. CASE r.ok
  <2>1. PICK new : new = [dir |-> Root, pos |-> r.pos, start |-> c, size |-> 0]
    OBVIOUS
  <2>2. /\ handles[h] = Closed
        /\ handles'[h] = new
        /\ \A g \in Handles : g # h => handles'[g] = handles[g]
    BY <1>2, <1>8, <2>1 DEF Create, OwnInv, TypeOK
  <2>3. new # Closed
    <3>1. r.pos \in Nat
      <4>1. slots' \in Tables
        BY CreateGives DEF OwnInv
      <4> QED BY <1>2, <1>8, <4>1, LenNat DEF Filed
    <3>2. new \in Handle
      BY <1>2, <2>1, <3>1 DEF Handle, DirAssumption
    <3> QED BY <3>2 DEF DirAssumption
  <2>4. new.dir = Root /\ new.pos = r.pos /\ new.start = c /\ new.size = 0
    BY <2>1
  <2>5. HandlesApart'
    BY <1>5, <2>2, <2>4 DEF SizeInv, HandlesApart
  <2>6. HandlesFound'
    <3> SUFFICES ASSUME NEW g \in Handles, handles'[g] # Closed
                 PROVE  /\ handles'[g].size = written'[handles'[g].start]
                        /\ \E i \in Filed(slots, Root)' : FoundAt(handles[g], i)'
      BY DEF HandlesFound
    <3>1. CASE g = h
      <4>1. NewEntry(n, c).start = c /\ NewEntry(n, c).size = 0
        BY DEF NewEntry
      <4>2. r.pos \in Filed(slots, Root)' /\ FoundAt(handles[g], r.pos)'
        BY <1>2, <1>8, <2>2, <2>4, <3>1, <4>1 DEF FoundAt, Filed
      <4> QED BY <1>4, <2>2, <2>4, <3>1, <4>2
    <3>2. CASE g # h
      <4>1. handles'[g] = handles[g] /\ handles[g] # Closed
        BY <2>2, <3>2
      <4>2. PICK i \in Filed(slots, Root) : FoundAt(handles[g], i)
        BY <4>1 DEF SizeInv, HandlesFound
      <4>3. i \in Filed(slots, Root)' /\ slots'[Root][i] = slots[Root][i]
        BY <1>2 DEF Filed
      <4>4. FoundAt(handles[g], i)'
        BY <4>1, <4>2, <4>3 DEF FoundAt
      <4> QED BY <1>6, <4>1, <4>3, <4>4
    <3> QED BY <3>1, <3>2
  <2>7. SizesKept'
    <3> SUFFICES ASSUME NEW i \in Filed(slots, Root)', ~InUse(slots[Root][i].start)'
                 PROVE  slots'[Root][i].size = written'[slots'[Root][i].start]
      BY DEF SizesKept
    <3>1. i \in Filed(slots', Root)
      BY DEF Filed
    <3>2. i # r.pos
      <4>1. NewEntry(n, c).start = c
        BY DEF NewEntry
      <4> QED BY <1>2, <1>8, <2>2, <2>3, <2>4, <4>1 DEF InUse
    <3>3. i \in Filed(slots, Root) /\ slots'[Root][i] = slots[Root][i]
      BY <1>2, <1>8, <3>1, <3>2
    <3>4. ~InUse(slots[Root][i].start)
      BY <2>2, <3>3 DEF InUse
    <3> QED BY <1>3, <1>4, <3>3, <3>4 DEF SizeInv, SizesKept
  <2> QED BY <2>5, <2>6, <2>7 DEF SizeInv
<1> QED BY <1>7, <1>8

LEMMA OpenSizes ==
  ASSUME DirAssumption, OwnInv, OneDir, SizeInv, Careful, ~aged,
         NEW d \in Dirs, NEW n \in Names, NEW h \in Handles, Open(d, n, h)
  PROVE  SizeInv'
<1>1. PICK i : i = Slot(Root, n)
  OBVIOUS
<1>2. /\ i \in Filed(slots, Root)
      /\ ~InUse(slots[Root][i].start)
      /\ handles[h] = Closed
  BY <1>1, SlotFound, TypeGives DEF OwnInv, Open, OneDir, Quiet, Careful
<1>3. /\ UNCHANGED <<slots, rootSize, free, dirOwn, written>>
      /\ handles' = [handles EXCEPT ![h] =
           [dir |-> Root, pos |-> 0, start |-> slots[Root][i].start,
            size |-> slots[Root][i].size]]
  BY <1>1 DEF Open, OneDir
<1>4. PICK new : new = [dir |-> Root, pos |-> 0, start |-> slots[Root][i].start,
                        size |-> slots[Root][i].size]
  OBVIOUS
<1>5. /\ new.dir = Root /\ new.pos = 0 /\ new.start = slots[Root][i].start
      /\ new.size = slots[Root][i].size
  BY <1>4
<1>6. handles'[h] = new /\ \A g \in Handles : g # h => handles'[g] = handles[g]
  BY <1>3, <1>4 DEF OwnInv, TypeOK
<1>7. slots[Root][i].size = written[slots[Root][i].start] /\ slots[Root][i].size \in Nat
  BY <1>2, RootApart DEF SizeInv, SizesKept, DirAssumption, Careful
<1>8. HandlesApart'
  BY <1>2, <1>5, <1>6 DEF SizeInv, HandlesApart, InUse
<1>9. HandlesFound'
  <2> SUFFICES ASSUME NEW g \in Handles, handles'[g] # Closed
               PROVE  /\ handles'[g].size = written[handles'[g].start]
                      /\ \E j \in Filed(slots, Root) : FoundAt(handles'[g], j)
    BY <1>3 DEF HandlesFound, FoundAt, Filed
  <2>1. CASE g = h
    <3>1. FoundAt(handles'[g], i)
      BY <1>2, <1>5, <1>6, <1>7, <2>1 DEF FoundAt
    <3> QED BY <1>2, <1>5, <1>6, <1>7, <2>1, <3>1
  <2>2. CASE g # h
    BY <1>6, <2>2 DEF SizeInv, HandlesFound
  <2> QED BY <2>1, <2>2
<1>10. SizesKept'
  <2>1. \A c : InUse(c) => InUse(c)'
    BY <1>2, <1>6 DEF InUse
  <2> QED BY <1>3, <2>1 DEF SizeInv, SizesKept, Filed
<1> QED BY <1>8, <1>9, <1>10 DEF SizeInv

LEMMA WriteSizes ==
  ASSUME DirAssumption, OwnInv, SizeInv, ~aged,
         NEW h \in Handles, Write(h)
  PROVE  SizeInv'
<1>1. /\ handles[h] \in Handle
      /\ handles[h].start \in Clusters
      /\ handles'[h] \in Handle
      /\ handles'[h].dir = handles[h].dir
      /\ handles'[h].pos = handles[h].pos
      /\ handles'[h].start = handles[h].start
      /\ handles'[h].size = handles[h].size + 1
      /\ \A g \in Handles : g # h => handles'[g] = handles[g]
      /\ written'[handles[h].start] = handles[h].size + 1
      /\ \A c \in Clusters : c # handles[h].start => written'[c] = written[c]
  BY WriteGives DEF OwnInv
<1>2. slots' = slots /\ handles[h] # Closed
  BY DEF Write
<1>3. handles'[h] # Closed
  BY <1>1 DEF DirAssumption
<1>4. \A g \in Handles : handles'[g] # Closed =>
        handles[g] # Closed /\ handles'[g].start = handles[g].start
  BY <1>1, <1>2
<1>5. HandlesApart'
  BY <1>4 DEF SizeInv, HandlesApart
<1>6. HandlesFound'
  <2> SUFFICES ASSUME NEW g \in Handles, handles'[g] # Closed
               PROVE  /\ handles'[g].size = written'[handles'[g].start]
                      /\ \E j \in Filed(slots, Root) : FoundAt(handles'[g], j)
    BY <1>2 DEF HandlesFound, FoundAt, Filed
  <2>1. PICK j \in Filed(slots, Root) : FoundAt(handles[g], j)
    BY <1>4 DEF SizeInv, HandlesFound
  <2>2. CASE g = h
    <3>1. handles[h].size \in Nat /\ slots[Root][j].size \in Nat
      BY <1>1, <1>2, OpenHandle, RootApart DEF OwnInv, DirAssumption
    <3>2. FoundAt(handles'[g], j)
      BY <1>1, <2>1, <2>2, <3>1 DEF FoundAt
    <3> QED BY <1>1, <2>2, <3>2
  <2>3. CASE g # h
    <3>1. handles'[g] = handles[g] /\ handles[g].start # handles[h].start
      BY <1>1, <1>2, <1>4, <2>3 DEF SizeInv, HandlesApart
    <3>2. handles[g].start \in Clusters
      BY <1>4, OpenHandle DEF OwnInv
    <3> QED BY <1>1, <1>4, <2>1, <3>1, <3>2 DEF SizeInv, HandlesFound
  <2> QED BY <2>2, <2>3
<1>7. SizesKept'
  <2>1. \A c : InUse(c) => InUse(c)'
    BY <1>1, <1>3 DEF InUse
  <2>2. InUse(handles[h].start)
    BY <1>2 DEF InUse
  <2>3. \A j \in Filed(slots, Root) : ~InUse(slots[Root][j].start)' =>
          written'[slots[Root][j].start] = written[slots[Root][j].start]
    <3> SUFFICES ASSUME NEW j \in Filed(slots, Root), ~InUse(slots[Root][j].start)'
                 PROVE  written'[slots[Root][j].start] = written[slots[Root][j].start]
      OBVIOUS
    <3>1. slots[Root][j].start # handles[h].start
      BY <1>2, <2>1, <2>2
    <3> QED BY <1>1, <3>1, RootApart
  <2> QED BY <1>2, <2>1, <2>3 DEF SizeInv, SizesKept, Filed
<1> QED BY <1>5, <1>6, <1>7 DEF SizeInv

\* The size goes to the entry of the file.
LEMMA SizeToOwn ==
  ASSUME DirAssumption, OwnInv, ~aged, NEW hd, NEW i, FoundAt(hd, i)
  PROVE  SizeTo(hd) = {<<Root, i>>}
<1>1. CASE hd.pos # 0
  BY <1>1 DEF SizeTo, FoundAt
<1>2. CASE hd.pos = 0
  <2>1. RootSlot(hd.start) = {i}
    BY RootApart DEF RootSlot, FoundAt, Filed
  <2>2. i \in Nat
    BY LenNat, TypeGives DEF OwnInv, FoundAt, Filed
  <2>3. Min({i}) = i
    BY <2>2, MinIn
  <2> QED BY <1>2, <2>1, <2>3 DEF SizeTo
<1> QED BY <1>1, <1>2

LEMMA CloseSizes ==
  ASSUME DirAssumption, OwnInv, OneDir, SizeInv, ~aged,
         NEW h \in Handles, Close(h)
  PROVE  SizeInv'
<1>1. /\ Filed(slots, Root)' = Filed(slots, Root)
      /\ \A j \in Filed(slots, Root) :
           /\ slots'[Root][j].start = slots[Root][j].start
           /\ slots'[Root][j].size = IF <<Root, j>> \in SizeTo(handles[h])
                                       THEN handles[h].size ELSE slots[Root][j].size
  BY CloseGives DEF OwnInv, OneDir
<1>2. /\ handles[h] # Closed
      /\ handles' = [handles EXCEPT ![h] = Closed]
      /\ written' = written
  BY DEF Close
<1>3. handles'[h] = Closed /\ \A g \in Handles : g # h => handles'[g] = handles[g]
  BY <1>2 DEF OwnInv, TypeOK
<1>4. PICK i \in Filed(slots, Root) : FoundAt(handles[h], i)
  BY <1>2 DEF SizeInv, HandlesFound
<1>5. SizeTo(handles[h]) = {<<Root, i>>}
  BY <1>4, SizeToOwn
<1>6. /\ slots'[Root][i].size = handles[h].size
      /\ \A j \in Filed(slots, Root) : j # i => slots'[Root][j].size = slots[Root][j].size
  BY <1>1, <1>5
<1>7. slots[Root][i].start = handles[h].start
  BY <1>4 DEF FoundAt
<1>8. HandlesApart'
  BY <1>3 DEF SizeInv, HandlesApart
<1>9. HandlesFound'
  <2> SUFFICES ASSUME NEW g \in Handles, handles'[g] # Closed
               PROVE  /\ handles'[g].size = written'[handles'[g].start]
                      /\ \E j \in Filed(slots, Root)' : FoundAt(handles[g], j)'
    BY DEF HandlesFound
  <2>1. g # h /\ handles'[g] = handles[g] /\ handles[g].start # handles[h].start
    BY <1>2, <1>3 DEF SizeInv, HandlesApart
  <2>2. PICK j \in Filed(slots, Root) : FoundAt(handles[g], j)
    BY <2>1 DEF SizeInv, HandlesFound
  <2>3. j # i
    BY <1>7, <2>1, <2>2 DEF FoundAt
  <2>4. FoundAt(handles[g], j)'
    BY <1>1, <1>6, <2>1, <2>2, <2>3 DEF FoundAt
  <2> QED BY <1>1, <1>2, <2>1, <2>4 DEF SizeInv, HandlesFound
<1>10. SizesKept'
  <2> SUFFICES ASSUME NEW j \in Filed(slots, Root), ~InUse(slots[Root][j].start)'
               PROVE  slots'[Root][j].size = written'[slots'[Root][j].start]
    BY <1>1 DEF SizesKept
  <2>1. CASE j = i
    BY <1>1, <1>2, <1>6, <1>7, <2>1 DEF SizeInv, HandlesFound
  <2>2. CASE j # i
    <3>1. slots[Root][j].start # handles[h].start
      BY <1>7, <2>2, RootApart
    <3>2. ~InUse(slots[Root][j].start)
      BY <1>1, <1>3, <3>1 DEF InUse
    <3> QED BY <1>1, <1>2, <1>6, <2>2, <3>2 DEF SizeInv, SizesKept
  <2> QED BY <2>1, <2>2
<1> QED BY <1>8, <1>9, <1>10 DEF SizeInv

\* A file that nobody has open may go or move: those that are open stay.
LEMMA MovingSizes ==
  ASSUME SizeInv, UNCHANGED <<handles, written>>,
         NEW c, ~InUse(c),
         \A j \in Filed(slots, Root) :
           slots[Root][j].start # c =>
             j \in Filed(slots', Root) /\ slots'[Root][j] = slots[Root][j],
         \A j \in Filed(slots', Root) :
           \/ j \in Filed(slots, Root) /\ slots'[Root][j] = slots[Root][j]
           \/ /\ slots'[Root][j].start = c
              /\ slots'[Root][j].size = written[c]
  PROVE  SizeInv'
<1>1. HandlesApart'
  BY DEF SizeInv, HandlesApart
<1>2. HandlesFound'
  <2> SUFFICES ASSUME NEW g \in Handles, handles[g] # Closed
               PROVE  /\ handles[g].size = written[handles[g].start]
                      /\ \E j \in Filed(slots, Root)' : FoundAt(handles[g], j)'
    BY DEF HandlesFound
  <2>1. PICK j \in Filed(slots, Root) : FoundAt(handles[g], j)
    BY DEF SizeInv, HandlesFound
  <2>2. slots[Root][j].start # c
    BY <2>1 DEF FoundAt, InUse
  <2>3. j \in Filed(slots', Root) /\ slots'[Root][j] = slots[Root][j]
    BY <2>2
  <2>4. j \in Filed(slots, Root)' /\ FoundAt(handles[g], j)'
    BY <2>1, <2>3 DEF FoundAt, Filed
  <2> QED BY <2>4 DEF SizeInv, HandlesFound
<1>3. SizesKept'
  <2> SUFFICES ASSUME NEW j \in Filed(slots', Root), ~InUse(slots'[Root][j].start)
               PROVE  slots'[Root][j].size = written[slots'[Root][j].start]
    BY DEF SizesKept, Filed, InUse
  <2> QED BY DEF SizeInv, SizesKept
<1> QED BY <1>1, <1>2, <1>3 DEF SizeInv

LEMMA UnlinkSizes ==
  ASSUME DirAssumption, OwnInv, OneDir, SizeInv, Careful, ~aged,
         NEW d \in Dirs, NEW n \in Names, Unlink(d, n)
  PROVE  SizeInv'
<1>1. d = Root
  BY DEF OneDir
<1> DEFINE c == slots[Root][Slot(Root, n)].start
<1>2. /\ Slot(Root, n) \in Filed(slots, Root)
      /\ \A j \in Filed(slots, Root)' :
           j \in Filed(slots, Root) /\ slots'[Root][j] = slots[Root][j]
      /\ \A j \in Filed(slots, Root) :
           j # Slot(Root, n) => j \in Filed(slots, Root)'
  BY <1>1, UnlinkGives DEF OwnInv
<1>3. Filed(slots, Root)' = Filed(slots', Root)
  BY DEF Filed
<1>4. ~InUse(c) /\ UNCHANGED <<handles, written>>
  BY <1>1 DEF Unlink, Quiet, Careful
<1>5. \A j \in Filed(slots, Root) :
        slots[Root][j].start # c =>
          j \in Filed(slots', Root) /\ slots'[Root][j] = slots[Root][j]
  BY <1>2, <1>3
<1> HIDE DEF c
<1> QED BY <1>2, <1>3, <1>4, <1>5, MovingSizes

LEMMA RenameSizes ==
  ASSUME DirAssumption, OwnInv, OneDir, RootFresh, SizeInv, Careful, ~aged,
         NEW d \in Dirs, NEW n \in Names, NEW d2 \in Dirs, NEW n2 \in Names,
         Rename(d, n, d2, n2)
  PROVE  SizeInv'
<1>1. d = Root /\ Root \in Dirs
  BY DEF OneDir
<1> DEFINE i == Slot(Root, n)
           c == slots[Root][i].start
<1>2. PICK r :
        /\ \A j \in Filed(slots, Root) :
             j # i => j \in Filed(slots', Root) /\ slots'[Root][j] = slots[Root][j]
        /\ \A j \in Filed(slots', Root) :
             \/ j \in Filed(slots, Root) /\ slots'[Root][j] = slots[Root][j]
             \/ r.ok /\ j = r.pos /\ slots'[Root][j] = Copy(Root, n, n2)
  BY RenameInRoot DEF Careful
<1>3. /\ i \in Filed(slots, Root)
      /\ Copy(Root, n, n2).start = c
      /\ Copy(Root, n, n2).size = slots[Root][i].size
  BY <1>1, CopyGives DEF OwnInv, Rename
<1>4. ~InUse(c) /\ UNCHANGED <<handles, written>>
  BY <1>1 DEF Rename, Quiet, Careful
<1>5. slots[Root][i].size = written[c]
  BY <1>3, <1>4 DEF SizeInv, SizesKept
<1>6. /\ \A j \in Filed(slots, Root) :
           slots[Root][j].start # c =>
             j \in Filed(slots', Root) /\ slots'[Root][j] = slots[Root][j]
      /\ \A j \in Filed(slots', Root) :
           \/ j \in Filed(slots, Root) /\ slots'[Root][j] = slots[Root][j]
           \/ slots'[Root][j].start = c /\ slots'[Root][j].size = written[c]
  BY <1>2, <1>3, <1>5
<1> HIDE DEF c
<1> QED BY <1>4, <1>6, MovingSizes

LEMMA StepSizes ==
  ASSUME DirAssumption, OwnInv, OneDir, RootFresh, SizeInv, Careful, ~aged, [Next]_vars
  PROVE  SizeInv'
<1>1. ASSUME NEW d \in Dirs, NEW n \in Names, NEW h \in Handles, Create(d, n, h)
      PROVE  SizeInv'
  BY <1>1, CreateSizes DEF Careful
<1>2. ASSUME NEW d \in Dirs, NEW n \in Names, NEW h \in Handles, Open(d, n, h)
      PROVE  SizeInv'
  BY <1>2, OpenSizes
<1>3. ASSUME NEW d \in Dirs, NEW n \in Names, Unlink(d, n)
      PROVE  SizeInv'
  BY <1>3, UnlinkSizes
<1>4. ASSUME NEW d \in Dirs, NEW n \in Names, NEW d2 \in Dirs, NEW n2 \in Names,
             Rename(d, n, d2, n2)
      PROVE  SizeInv'
  BY <1>4, RenameSizes
<1>5. ASSUME NEW h \in Handles, Write(h)
      PROVE  SizeInv'
  BY <1>5, WriteSizes DEF Careful
<1>6. ASSUME NEW h \in Handles, Close(h)
      PROVE  SizeInv'
  BY <1>6, CloseSizes DEF Careful
<1>7. CASE Remount
  BY <1>7 DEF Remount, OneDir
<1>8. CASE UNCHANGED vars
  BY <1>8 DEF vars, SizeInv, HandlesApart, HandlesFound, SizesKept, FoundAt, Filed, InUse
<1> QED BY <1>1, <1>2, <1>3, <1>4, <1>5, <1>6, <1>7, <1>8 DEF Next

LEMMA InitSizes == DirAssumption /\ Init => SizeInv
<1> SUFFICES ASSUME DirAssumption, Init PROVE SizeInv
  OBVIOUS
<1>1. \A j \in Filed(slots, Root) : FALSE
  BY InitOwns DEF DirAssumption
<1> QED BY <1>1 DEF Init, SizeInv, HandlesApart, HandlesFound, SizesKept

\* In the root directory, until it is unmounted, the size that ufs_write has
\* brought a file to is in its entry when the file is closed, and stays there:
\* fat_write_inode finds the right entry among any number of others, provided
\* that open files are left alone, a rename replaces none and the directory does not
\* grow by old bytes: fat_scan_logstart may find one of these instead.
THEOREM SizeAlwaysRecorded ==
  OneDir /\ {"overwrite", "stale"} \cap Uses = {} /\ Spec => []SizeRecorded
<1> SUFFICES ASSUME OneDir, {"overwrite", "stale"} \cap Uses = {}
             PROVE  Spec => []SizeRecorded
  OBVIOUS
<1> DEFINE Inv == OwnInv /\ RootFresh /\ (~aged => SizeInv)
<1>1. Init => Inv
  BY InitOwns, InitFresh, InitSizes, DirAssumption
<1>2. Inv /\ [Next]_vars => Inv'
  BY StepOwns, StepFresh, StepSizes, StepAged, DirAssumption DEF Careful
<1>3. Inv => SizeRecorded
  BY SizesKeptGives DEF SizeInv, SizeRecorded
<1> QED BY <1>1, <1>2, <1>3, PTL DEF Spec

-----------------------------------------------------------------------------
(* The root directory is a map from names to sizes.                        *)

\* A name is in one slot.
NamesOnce(t) ==
  \A i, j \in Filed(t, Root) : t[Root][i].name = t[Root][j].name => i = j

\* Sizes, of any table of slots.
SizesOf(t) ==
  [n \in Names |-> IF Named(t, Root, n) # {}
                     THEN t[Root][Min(Named(t, Root, n))].size ELSE Absent]

\* The size of a name is that of the one entry with the name.
LEMMA SizesOfGives ==
  ASSUME DirAssumption, NEW t \in Tables, NamesOnce(t)
  PROVE  /\ \A i \in Filed(t, Root) :
              t[Root][i].name \in Names /\ SizesOf(t)[t[Root][i].name] = t[Root][i].size
         /\ \A n \in Names :
              (\A i \in Filed(t, Root) : t[Root][i].name # n) => SizesOf(t)[n] = Absent
<1>1. Root \in Dirs
  BY DEF DirAssumption
<1>2. \A n : Named(t, Root, n) = {i \in Filed(t, Root) : t[Root][i].name = n}
  BY DEF Named, Filed
<1>3. ASSUME NEW i \in Filed(t, Root)
      PROVE  t[Root][i].name \in Names /\ SizesOf(t)[t[Root][i].name] = t[Root][i].size
  <2>1. t[Root][i].name \in Names
    BY <1>1, FiledEntry
  <2>2. PICK n \in Names : n = t[Root][i].name
    BY <2>1
  <2>3. Named(t, Root, n) = {i}
    BY <1>2, <2>2 DEF NamesOnce
  <2>4. Min({i}) = i
    <3>1. i \in Nat
      BY LenNat DEF Filed
    <3> QED BY <3>1, MinIn
  <2>5. SizesOf(t)[n] = t[Root][i].size
    BY <2>3, <2>4 DEF SizesOf
  <2> QED BY <2>1, <2>2, <2>5
<1>4. ASSUME NEW n \in Names, \A i \in Filed(t, Root) : t[Root][i].name # n
      PROVE  SizesOf(t)[n] = Absent
  BY <1>2, <1>4 DEF SizesOf
<1> QED BY <1>3, <1>4

\* A name that no slot has is the name of no file.
LEMMA NotThere ==
  ASSUME NEW t, NEW n, Named(t, Root, n) = {}
  PROVE  \A i \in Filed(t, Root) : t[Root][i].name # n
BY DEF Named, Filed

LEMMA SameName ==
  ASSUME DirAssumption, NEW t \in Tables, NEW u \in Tables,
         NamesOnce(t), NamesOnce(u), NEW m \in Names,
         \A i \in Filed(t, Root) : t[Root][i].name = m =>
           /\ i \in Filed(u, Root)
           /\ u[Root][i].name = m
           /\ u[Root][i].size = t[Root][i].size,
         \A j \in Filed(u, Root) : u[Root][j].name = m =>
           j \in Filed(t, Root) /\ t[Root][j].name = m
  PROVE  SizesOf(u)[m] = SizesOf(t)[m]
<1>1. CASE \E i \in Filed(t, Root) : t[Root][i].name = m
  <2>1. PICK i \in Filed(t, Root) : t[Root][i].name = m
    BY <1>1
  <2>2. SizesOf(t)[m] = t[Root][i].size
    BY <2>1, SizesOfGives
  <2>3. i \in Filed(u, Root) /\ u[Root][i].name = m /\ u[Root][i].size = t[Root][i].size
    BY <2>1
  <2>4. SizesOf(u)[m] = u[Root][i].size
    BY <2>3, SizesOfGives
  <2> QED BY <2>2, <2>3, <2>4
<1>2. CASE \A i \in Filed(t, Root) : t[Root][i].name # m
  <2>1. SizesOf(t)[m] = Absent
    BY <1>2, SizesOfGives
  <2>2. \A i \in Filed(u, Root) : u[Root][i].name # m
    BY <1>2
  <2>3. SizesOf(u)[m] = Absent
    BY <2>2, SizesOfGives
  <2> QED BY <2>1, <2>3
<1> QED BY <1>1, <1>2

LEMMA SizesIsOf == Sizes = SizesOf(slots) /\ Sizes' = SizesOf(slots')
BY DEF Sizes, SizesOf, Exists, Slot, Named

\* Two maps from names are one if they agree.
LEMMA SizesEqual ==
  ASSUME NEW t, NEW f \in [Names -> Int \cup {Absent}],
         \A m \in Names : SizesOf(t)[m] = f[m]
  PROVE  SizesOf(t) = f
<1>1. SizesOf(t) = [m \in Names |-> SizesOf(t)[m]]
  BY DEF SizesOf
<1> QED BY <1>1

NameInv == OwnInv /\ RootFresh /\ ~aged /\ SizeInv /\ NamesOnce(slots)

LEMMA SizesType ==
  ASSUME DirAssumption, NameInv
  PROVE  SizesOf(slots) \in [Names -> Int \cup {Absent}]
<1>1. ASSUME NEW m \in Names PROVE SizesOf(slots)[m] \in Int \cup {Absent}
  <2>1. CASE \E i \in Filed(slots, Root) : slots[Root][i].name = m
    <3>1. PICK i \in Filed(slots, Root) : slots[Root][i].name = m
      BY <2>1
    <3>2. SizesOf(slots)[m] = slots[Root][i].size
      BY <3>1, SizesOfGives, TypeGives DEF NameInv, OwnInv
    <3>3. slots[Root][i].size \in Int
      BY FiledEntry, TypeGives DEF NameInv, OwnInv, DirAssumption
    <3> QED BY <3>2, <3>3
  <2>2. CASE \A i \in Filed(slots, Root) : slots[Root][i].name # m
    BY <2>2, SizesOfGives, TypeGives DEF NameInv, OwnInv
  <2> QED BY <2>1, <2>2
<1> QED BY <1>1 DEF SizesOf

LEMMA CreateNames ==
  ASSUME DirAssumption, NameInv, OneDir, Uses = {},
         NEW d \in Dirs, NEW n \in Names, NEW h \in Handles, Create(d, n, h)
  PROVE  NamesOnce(slots') /\ (RootNames!Create(n) \/ slots' = slots)
<1>1. PICK c \in free : \E r :
        /\ \A j \in Filed(slots, Root) :
             j \in Filed(slots', Root) /\ slots'[Root][j] = slots[Root][j]
        /\ r.ok =>
             /\ r.pos \in Filed(slots', Root)
             /\ slots'[Root][r.pos] = NewEntry(n, c)
             /\ \A j \in Filed(slots', Root) : j # r.pos => j \in Filed(slots, Root)
        /\ ~r.ok => slots' = slots
  BY CreateInRoot DEF NameInv
<1>2. PICK r :
        /\ \A j \in Filed(slots, Root) :
             j \in Filed(slots', Root) /\ slots'[Root][j] = slots[Root][j]
        /\ r.ok =>
             /\ r.pos \in Filed(slots', Root)
             /\ slots'[Root][r.pos] = NewEntry(n, c)
             /\ \A j \in Filed(slots', Root) : j # r.pos => j \in Filed(slots, Root)
        /\ ~r.ok => slots' = slots
  BY <1>1
<1>3. CASE ~r.ok
  BY <1>2, <1>3 DEF NameInv
<1>4. CASE r.ok
  <2>1. \A i \in Filed(slots, Root) : slots[Root][i].name # n
    BY NotThere DEF Create, OneDir, Exists
  <2>2. NewEntry(n, c).name = n /\ NewEntry(n, c).size = 0
    BY DEF NewEntry
  <2>3. slots \in Tables /\ slots' \in Tables
    BY CreateGives, TypeGives DEF NameInv, OwnInv
  <2>4. NamesOnce(slots')
    <3> SUFFICES ASSUME NEW i \in Filed(slots', Root), NEW j \in Filed(slots', Root),
                        slots'[Root][i].name = slots'[Root][j].name
                 PROVE  i = j
      BY DEF NamesOnce
    <3> QED BY <1>2, <1>4, <2>1, <2>2 DEF NameInv, NamesOnce
  <2>5. SizesOf(slots)[n] = Absent
    BY <2>1, <2>3, SizesOfGives DEF NameInv
  <2>6. SizesOf(slots')[n] = 0
    BY <1>2, <1>4, <2>2, <2>3, <2>4, SizesOfGives
  <2>7. \A m \in Names : m # n => SizesOf(slots')[m] = SizesOf(slots)[m]
    <3> SUFFICES ASSUME NEW m \in Names, m # n
                 PROVE  SizesOf(slots')[m] = SizesOf(slots)[m]
      OBVIOUS
    <3>1. \A i \in Filed(slots, Root) : slots[Root][i].name = m =>
            /\ i \in Filed(slots', Root)
            /\ slots'[Root][i].name = m
            /\ slots'[Root][i].size = slots[Root][i].size
      BY <1>2
    <3>2. \A j \in Filed(slots', Root) : slots'[Root][j].name = m =>
            j \in Filed(slots, Root) /\ slots[Root][j].name = m
      BY <1>2, <1>4, <2>2
    <3> QED BY <2>3, <2>4, <3>1, <3>2, SameName DEF NameInv
  <2>8. SizesOf(slots') = [SizesOf(slots) EXCEPT ![n] = 0]
    <3>1. PICK f : f = [SizesOf(slots) EXCEPT ![n] = 0]
      OBVIOUS
    <3>2. f \in [Names -> Int \cup {Absent}] /\ \A m \in Names : SizesOf(slots')[m] = f[m]
      BY <2>6, <2>7, <3>1, SizesType
    <3> QED BY <3>1, <3>2, SizesEqual
  <2> QED BY <2>4, <2>5, <2>8, SizesIsOf DEF RootNames!Create
<1> QED BY <1>3, <1>4

LEMMA UnlinkNames ==
  ASSUME DirAssumption, NameInv, OneDir,
         NEW d \in Dirs, NEW n \in Names, Unlink(d, n)
  PROVE  NamesOnce(slots') /\ RootNames!Remove(n)
<1>1. d = Root /\ Root \in Dirs /\ Filed(slots, Root)' = Filed(slots', Root)
  BY DEF OneDir, Filed
<1>2. PICK i : i = Slot(Root, n)
  OBVIOUS
<1>3. /\ i \in Filed(slots, Root)
      /\ slots[Root][i].name = n
      /\ slots' \in Tables
      /\ \A j \in Filed(slots', Root) :
           j # i /\ j \in Filed(slots, Root) /\ slots'[Root][j] = slots[Root][j]
      /\ \A j \in Filed(slots, Root) : j # i => j \in Filed(slots', Root)
  BY <1>1, <1>2, UnlinkGives DEF NameInv, OwnInv
<1>4. NamesOnce(slots')
  BY <1>3 DEF NameInv, NamesOnce
<1>5. slots \in Tables
  BY TypeGives DEF NameInv, OwnInv
<1>6. SizesOf(slots')[n] = Absent
  <2>1. \A j \in Filed(slots', Root) : slots'[Root][j].name # n
    BY <1>3 DEF NameInv, NamesOnce
  <2> QED BY <1>3, <1>4, <2>1, SizesOfGives
<1>7. \A m \in Names : m # n => SizesOf(slots')[m] = SizesOf(slots)[m]
  <2> SUFFICES ASSUME NEW m \in Names, m # n
               PROVE  SizesOf(slots')[m] = SizesOf(slots)[m]
    OBVIOUS
  <2>1. \A j \in Filed(slots, Root) : slots[Root][j].name = m =>
          /\ j \in Filed(slots', Root)
          /\ slots'[Root][j].name = m
          /\ slots'[Root][j].size = slots[Root][j].size
    BY <1>3
  <2>2. \A j \in Filed(slots', Root) : slots'[Root][j].name = m =>
          j \in Filed(slots, Root) /\ slots[Root][j].name = m
    BY <1>3
  <2> QED BY <1>3, <1>4, <1>5, <2>1, <2>2, SameName DEF NameInv
<1>8. SizesOf(slots') = [SizesOf(slots) EXCEPT ![n] = Absent]
  <2>1. PICK f : f = [SizesOf(slots) EXCEPT ![n] = Absent]
    OBVIOUS
  <2>2. f \in [Names -> Int \cup {Absent}] /\ \A m \in Names : SizesOf(slots')[m] = f[m]
    BY <1>6, <1>7, <2>1, SizesType
  <2> QED BY <2>1, <2>2, SizesEqual
<1> QED BY <1>4, <1>8, SizesIsOf DEF RootNames!Remove

LEMMA RenameNames ==
  ASSUME DirAssumption, NameInv, OneDir, Uses = {},
         NEW d \in Dirs, NEW n \in Names, NEW d2 \in Dirs, NEW n2 \in Names,
         Rename(d, n, d2, n2)
  PROVE  NamesOnce(slots') /\ (RootNames!Move(n, n2) \/ slots' = slots)
<1>1. d = Root /\ d2 = Root /\ Root \in Dirs
  BY DEF OneDir
<1>2. n # n2 /\ ~Exists(Root, n2)
  BY <1>1 DEF Rename
<1>3. PICK i : i = Slot(Root, n)
  OBVIOUS
<1>4. PICK e : e = Copy(Root, n, n2)
  OBVIOUS
<1>5. PICK r :
        /\ \A j \in Filed(slots, Root) :
             j # i => j \in Filed(slots', Root) /\ slots'[Root][j] = slots[Root][j]
        /\ \A j \in Filed(slots', Root) :
             \/ j \in Filed(slots, Root) /\ slots'[Root][j] = slots[Root][j]
             \/ r.ok /\ j = r.pos /\ slots'[Root][j] = e
        /\ r.ok =>
             /\ \A j \in Filed(slots', Root) : j # i
             /\ r.pos \in Filed(slots', Root) /\ slots'[Root][r.pos] = e
        /\ ~r.ok => slots' = slots
  BY <1>2, <1>3, <1>4, RenameInRoot DEF NameInv
<1>6. CASE ~r.ok
  BY <1>5, <1>6 DEF NameInv
<1>7. CASE r.ok
  <2>1. \A j \in Filed(slots, Root) : slots[Root][j].name # n2
    BY <1>2, NotThere DEF Exists
  <2>2. /\ i \in Filed(slots, Root) /\ slots[Root][i].name = n
        /\ e.name = n2 /\ e.size = slots[Root][i].size
    BY <1>1, <1>3, <1>4, CopyGives DEF NameInv, OwnInv, Rename
  <2>3. slots \in Tables /\ slots' \in Tables
    BY RenameGives, TypeGives DEF NameInv, OwnInv
  <2>4. NamesOnce(slots')
    <3> SUFFICES ASSUME NEW j \in Filed(slots', Root), NEW k \in Filed(slots', Root),
                        slots'[Root][j].name = slots'[Root][k].name
                 PROVE  j = k
      BY DEF NamesOnce
    <3> QED BY <1>5, <2>1, <2>2 DEF NameInv, NamesOnce
  <2>5. SizesOf(slots)[n] = slots[Root][i].size
    BY <2>2, <2>3, SizesOfGives DEF NameInv
  <2>6. SizesOf(slots)[n2] = Absent
    BY <2>1, <2>3, SizesOfGives DEF NameInv
  <2>7. SizesOf(slots')[n2] = slots[Root][i].size
    BY <1>5, <1>7, <2>2, <2>3, <2>4, SizesOfGives
  <2>8. SizesOf(slots')[n] = Absent
    <3>1. \A j \in Filed(slots', Root) : slots'[Root][j].name # n
      BY <1>2, <1>5, <1>7, <2>2 DEF NameInv, NamesOnce
    <3> QED BY <2>3, <2>4, <3>1, SizesOfGives
  <2>9. \A m \in Names : m \notin {n, n2} => SizesOf(slots')[m] = SizesOf(slots)[m]
    <3> SUFFICES ASSUME NEW m \in Names, m \notin {n, n2}
                 PROVE  SizesOf(slots')[m] = SizesOf(slots)[m]
      OBVIOUS
    <3>1. \A j \in Filed(slots, Root) : slots[Root][j].name = m =>
            /\ j \in Filed(slots', Root)
            /\ slots'[Root][j].name = m
            /\ slots'[Root][j].size = slots[Root][j].size
      BY <1>5, <2>2
    <3>2. \A j \in Filed(slots', Root) : slots'[Root][j].name = m =>
            j \in Filed(slots, Root) /\ slots[Root][j].name = m
      BY <1>5, <2>2
    <3> QED BY <2>3, <2>4, <3>1, <3>2, SameName DEF NameInv
  <2>10. SizesOf(slots)[n] # Absent
    BY <2>2, <2>5, RootApart DEF NameInv, DirAssumption
  <2>11. SizesOf(slots') =
           [SizesOf(slots) EXCEPT ![n] = Absent, ![n2] = SizesOf(slots)[n]]
    <3>1. PICK f : f = [SizesOf(slots) EXCEPT ![n] = Absent, ![n2] = SizesOf(slots)[n]]
      OBVIOUS
    <3>2. f \in [Names -> Int \cup {Absent}] /\ \A m \in Names : SizesOf(slots')[m] = f[m]
      BY <1>2, <2>5, <2>7, <2>8, <2>9, <3>1, SizesType
    <3> QED BY <3>1, <3>2, SizesEqual
  <2> QED BY <2>4, <2>6, <2>10, <2>11, SizesIsOf DEF RootNames!Move
<1> QED BY <1>6, <1>7

LEMMA CloseNames ==
  ASSUME DirAssumption, NameInv, OneDir, Uses = {}, NEW h \in Handles, Close(h)
  PROVE  /\ NamesOnce(slots')
         /\ \E n \in Names : \E s \in 0 .. MaxSize : RootNames!Record(n, s)
<1>1. handles[h] # Closed /\ Root \in Dirs
  BY DEF Close, DirAssumption
<1>2. PICK i \in Filed(slots, Root) : FoundAt(handles[h], i)
  BY <1>1 DEF NameInv, SizeInv, HandlesFound
<1>3. SizeTo(handles[h]) = {<<Root, i>>}
  BY <1>2, SizeToOwn DEF NameInv
<1>4. /\ slots' \in Tables
      /\ Filed(slots', Root) = Filed(slots, Root)
      /\ \A j \in Filed(slots, Root) :
           /\ slots'[Root][j].name = slots[Root][j].name
           /\ slots'[Root][j].size = IF <<Root, j>> \in SizeTo(handles[h])
                                       THEN handles[h].size ELSE slots[Root][j].size
  <2>1. Filed(slots, Root)' = Filed(slots', Root)
    BY DEF Filed
  <2> QED BY <1>1, <2>1, CloseGives DEF NameInv, OwnInv
<1>5. /\ slots'[Root][i].size = handles[h].size
      /\ \A j \in Filed(slots, Root) : j # i => slots'[Root][j].size = slots[Root][j].size
  BY <1>3, <1>4
<1>6. NamesOnce(slots')
  BY <1>4 DEF NameInv, NamesOnce
<1>7. slots \in Tables
  BY TypeGives DEF NameInv, OwnInv
<1>8. PICK n : n = slots[Root][i].name
  OBVIOUS
<1>9. PICK s : s = handles[h].size
  OBVIOUS
<1>10. n \in Names /\ SizesOf(slots)[n] = slots[Root][i].size
  BY <1>7, <1>8, SizesOfGives DEF NameInv
<1>11. SizesOf(slots')[n] = s
  <2>1. i \in Filed(slots', Root) /\ slots'[Root][i].name = n /\ slots'[Root][i].size = s
    BY <1>4, <1>5, <1>8, <1>9
  <2>2. \A j \in Filed(slots', Root) :
          SizesOf(slots')[slots'[Root][j].name] = slots'[Root][j].size
    BY <1>4, <1>6, SizesOfGives
  <2> QED BY <2>1, <2>2
<1>12. s \in 0 .. MaxSize /\ s >= SizesOf(slots)[n] /\ SizesOf(slots)[n] # Absent
  <2>1. s \in 0 .. MaxSize
    BY <1>1, <1>9, OpenHandle DEF NameInv, OwnInv
  <2>2. slots[Root][i].size \in 0 .. MaxSize /\ slots[Root][i].size <= s
    BY <1>2, <1>9, RootApart DEF NameInv, FoundAt
  <2> QED BY <1>10, <2>1, <2>2 DEF DirAssumption
<1>13. \A m \in Names : m # n => SizesOf(slots')[m] = SizesOf(slots)[m]
  <2> SUFFICES ASSUME NEW m \in Names, m # n
               PROVE  SizesOf(slots')[m] = SizesOf(slots)[m]
    OBVIOUS
  <2>1. \A j \in Filed(slots, Root) : slots[Root][j].name = m =>
          /\ j \in Filed(slots', Root)
          /\ slots'[Root][j].name = m
          /\ slots'[Root][j].size = slots[Root][j].size
    BY <1>4, <1>5, <1>8
  <2>2. \A j \in Filed(slots', Root) : slots'[Root][j].name = m =>
          j \in Filed(slots, Root) /\ slots[Root][j].name = m
    BY <1>4
  <2> QED BY <1>4, <1>6, <1>7, <2>1, <2>2, SameName DEF NameInv
<1>14. SizesOf(slots') = [SizesOf(slots) EXCEPT ![n] = s]
  <2>1. PICK f : f = [SizesOf(slots) EXCEPT ![n] = s]
    OBVIOUS
  <2>2. f \in [Names -> Int \cup {Absent}] /\ \A m \in Names : SizesOf(slots')[m] = f[m]
    <3>1. s \in Int
      BY <1>12 DEF DirAssumption
    <3> QED BY <1>10, <1>11, <1>13, <2>1, <3>1, SizesType
  <2> QED BY <2>1, <2>2, SizesEqual
<1>15. RootNames!Record(n, s)
  BY <1>12, <1>14, SizesIsOf DEF RootNames!Record
<1> QED BY <1>6, <1>10, <1>12, <1>15

LEMMA StepNames ==
  ASSUME DirAssumption, NameInv, OneDir, Uses = {}, [Next]_vars
  PROVE  NamesOnce(slots') /\ [RootNames!Next]_Sizes
<1>1. slots' = slots => NamesOnce(slots') /\ UNCHANGED Sizes
  BY SizesIsOf DEF NameInv
<1>2. ASSUME NEW d \in Dirs, NEW n \in Names, NEW h \in Handles, Create(d, n, h)
      PROVE  NamesOnce(slots') /\ [RootNames!Next]_Sizes
  BY <1>1, <1>2, CreateNames DEF RootNames!Next
<1>3. ASSUME NEW d \in Dirs, NEW n \in Names, NEW h \in Handles, Open(d, n, h)
      PROVE  NamesOnce(slots') /\ [RootNames!Next]_Sizes
  BY <1>1, <1>3 DEF Open
<1>4. ASSUME NEW d \in Dirs, NEW n \in Names, Unlink(d, n)
      PROVE  NamesOnce(slots') /\ [RootNames!Next]_Sizes
  BY <1>4, UnlinkNames DEF RootNames!Next
<1>5. ASSUME NEW d \in Dirs, NEW n \in Names, NEW d2 \in Dirs, NEW n2 \in Names,
             Rename(d, n, d2, n2)
      PROVE  NamesOnce(slots') /\ [RootNames!Next]_Sizes
  BY <1>1, <1>5, RenameNames DEF RootNames!Next
<1>6. ASSUME NEW h \in Handles, Write(h)
      PROVE  NamesOnce(slots') /\ [RootNames!Next]_Sizes
  BY <1>1, <1>6 DEF Write
<1>7. ASSUME NEW h \in Handles, Close(h)
      PROVE  NamesOnce(slots') /\ [RootNames!Next]_Sizes
  BY <1>7, CloseNames DEF RootNames!Next
<1>8. CASE Remount
  BY <1>8 DEF Remount
<1>9. CASE UNCHANGED vars
  BY <1>1, <1>9 DEF vars
<1> QED BY <1>2, <1>3, <1>4, <1>5, <1>6, <1>7, <1>8, <1>9 DEF Next

\* To callers that use it with care the root directory is a map from names to
\* sizes: every call is an operation on that map or leaves it as it is, with
\* any number of files, clusters and handles, and though the directory grows,
\* as long as it grows by no cluster whose old bytes read as entries.
THEOREM RootIsNameSpace == Dirs = {Root} /\ Uses = {} /\ Spec => ImplementsNameSpace
<1> SUFFICES ASSUME OneDir, Uses = {} PROVE Spec => ImplementsNameSpace
  BY DEF OneDir
<1>1. Init => NameInv /\ RootNames!Init
  <2> SUFFICES ASSUME Init PROVE NameInv /\ RootNames!Init
    OBVIOUS
  <2>1. OwnInv /\ RootFresh /\ ~aged /\ SizeInv
    BY InitOwns, InitFresh, InitSizes, DirAssumption DEF Init
  <2>2. \A j \in Filed(slots, Root) : FALSE
    BY <2>1, RootApart, DirAssumption, ZenonT(60) DEF Init
  <2>3. NamesOnce(slots)
    BY <2>2 DEF NamesOnce
  <2>4. \A m \in Names : SizesOf(slots)[m] = Absent
    BY <2>1, <2>2, <2>3, SizesOfGives, TypeGives, DirAssumption DEF OwnInv
  <2>5. PICK f : f = [m \in Names |-> Absent]
    OBVIOUS
  <2>6. SizesOf(slots) = f
    BY <2>4, <2>5, SizesEqual
  <2> QED BY <2>1, <2>3, <2>5, <2>6, SizesIsOf DEF NameInv, RootNames!Init
<1>2. NameInv /\ [Next]_vars => NameInv' /\ [RootNames!Next]_Sizes
  <2> SUFFICES ASSUME NameInv, [Next]_vars PROVE NameInv' /\ [RootNames!Next]_Sizes
    OBVIOUS
  <2>1. OwnInv' /\ RootFresh' /\ SizeInv'
    BY StepOwns, StepFresh, StepSizes, DirAssumption DEF NameInv, Careful
  <2>2. ~aged'
    BY StepAged DEF NameInv
  <2>3. NamesOnce(slots') /\ [RootNames!Next]_Sizes
    BY StepNames, DirAssumption
  <2> QED BY <2>1, <2>2, <2>3 DEF NameInv, NamesOnce, Filed
<1> QED BY <1>1, <1>2, PTL DEF Spec, ImplementsNameSpace, RootNames!Spec
=============================================================================
