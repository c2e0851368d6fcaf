---------------------------- MODULE FatTreeProofs ----------------------------
(***************************************************************************)
(* Proofs about FatTree: to a careful caller the volume is a tree, also in *)
(* the middle of a call and after a loss of power, and paths lead to what  *)
(* they mean.  All of it is about volumes on which no bytes of files or of *)
(* an earlier volume look like entries: NoOldEntries.                      *)
(*                                                                         *)
(* The arguments are about the entries that count, wherever they are; that *)
(* a path leads to each of them is part of the invariant.  What paths lead *)
(* to is the smallest set closed under a step, so that whatever set is     *)
(* shown to be closed bounds it, and no induction is needed.               *)
(***************************************************************************)
EXTENDS FatTree, WellFoundedInduction, TLAPS

Homes == Clusters \cup {Root}

-----------------------------------------------------------------------------
(* Directories reached by steps, for any function that gives the steps.    *)

Onward(step, S) == \A e \in S : step[e] \subseteq S

Reach(step, d) ==
  {e \in Homes : \A S \in SUBSET Homes : d \in S /\ Onward(step, S) => e \in S}

Steps == [Homes -> SUBSET Homes]

\* What is reached is closed, and is in every closed set.
LEMMA ReachProps ==
  ASSUME NEW step \in Steps, NEW d \in Homes
  PROVE  /\ d \in Reach(step, d)
         /\ Reach(step, d) \in SUBSET Homes
         /\ Onward(step, Reach(step, d))
         /\ \A S \in SUBSET Homes : d \in S /\ Onward(step, S) => Reach(step, d) \subseteq S
<1>1. Reach(step, d) \in SUBSET Homes
  BY DEF Reach
<1>2. ASSUME NEW S \in SUBSET Homes, d \in S, Onward(step, S)
      PROVE  Reach(step, d) \subseteq S
  BY <1>2 DEF Reach
<1>3. d \in Reach(step, d)
  BY DEF Reach
<1>4. ASSUME NEW e \in Reach(step, d), NEW x \in step[e]
      PROVE  x \in Reach(step, d)
  <2>1. e \in Homes /\ x \in Homes
    BY <1>1 DEF Steps
  <2>2. ASSUME NEW S \in SUBSET Homes, d \in S, Onward(step, S) PROVE x \in S
    <3>1. e \in S
      BY <1>2, <2>2
    <3> QED BY <2>2, <3>1 DEF Onward
  <2> QED BY <2>1, <2>2 DEF Reach
<1> QED BY <1>1, <1>2, <1>3, <1>4 DEF Onward

\* What is reached is the start or the end of a step.
LEMMA ReachedByStep ==
  ASSUME NEW step \in Steps, NEW d \in Homes, NEW e \in Reach(step, d), e # d
  PROVE  \E a \in Reach(step, d) : e \in step[a]
<1> DEFINE S == {d} \cup {x \in Homes : \E a \in Reach(step, d) : x \in step[a]}
<1>1. S \in SUBSET Homes /\ d \in S
  OBVIOUS
<1>2. S \subseteq Reach(step, d)
  BY ReachProps DEF Onward
<1>3. Onward(step, S)
  BY <1>2 DEF Onward, Steps
<1>4. e \in S
  BY <1>1, <1>3, ReachProps
<1> QED BY <1>4

\* More steps reach more.
LEMMA ReachGrows ==
  ASSUME NEW step \in Steps, NEW more \in Steps, NEW d \in Homes,
         \A e \in Homes : step[e] \subseteq more[e]
  PROVE  Reach(step, d) \subseteq Reach(more, d)
<1>1. /\ d \in Reach(more, d)
      /\ Reach(more, d) \in SUBSET Homes
      /\ Onward(more, Reach(more, d))
  BY ReachProps
<1>2. Onward(step, Reach(more, d))
  BY <1>1 DEF Onward
<1> QED BY <1>1, <1>2, ReachProps

\* Without the steps to a dead end all but the dead end is reached.
LEMMA ReachWithoutLeaf ==
  ASSUME NEW step \in Steps, NEW less \in Steps, NEW d \in Homes, NEW s \in Homes,
         \A e \in Homes : step[e] \subseteq less[e] \cup {s},
         step[s] = {}
  PROVE  Reach(step, d) \subseteq Reach(less, d) \cup {s}
<1> DEFINE S == Reach(less, d) \cup {s}
<1>1. /\ d \in Reach(less, d)
      /\ Reach(less, d) \in SUBSET Homes
      /\ Onward(less, Reach(less, d))
  BY ReachProps
<1>2. Onward(step, S)
  BY <1>1 DEF Onward
<1>3. S \in SUBSET Homes /\ d \in S
  BY <1>1
<1> QED BY <1>2, <1>3, ReachProps

\* When steps to s are given up for one from a, and a is reached and is not
\* below s, nothing gets out of reach.
LEMMA ReachMoved ==
  ASSUME NEW step \in Steps, NEW other \in Steps, NEW d \in Homes, NEW s \in Homes,
         \A e \in Homes : step[e] \subseteq other[e] \cup {s},
         NEW a \in Reach(step, d), a \notin Reach(step, s), s \in other[a]
  PROVE  Reach(step, d) \subseteq Reach(other, d)
<1> DEFINE R == Reach(other, d)
           S == R \cup Reach(step, s)
<1>1. d \in R /\ R \in SUBSET Homes /\ Onward(other, R)
  BY ReachProps
<1>2. /\ s \in Reach(step, s)
      /\ Reach(step, s) \in SUBSET Homes
      /\ Onward(step, Reach(step, s))
  BY ReachProps
<1> HIDE DEF R
<1>3. Onward(step, S)
  BY <1>1, <1>2 DEF Onward
<1>4. a \in S
  BY <1>1, <1>2, <1>3, ReachProps
<1>5. s \in R
  BY <1>1, <1>4 DEF Onward
<1>6. Onward(step, R)
  BY <1>1, <1>5 DEF Onward
<1>7. Reach(step, d) \subseteq R
  BY <1>1, <1>6, ReachProps
<1> QED BY <1>7 DEF R

-----------------------------------------------------------------------------
(* The inductive invariant.                                                *)

Counted(d) == {i \in Below(d) : ~ Hidden(d, i)}

Step == [d \in Homes |->
           {content[d][i].start : i \in {j \in Counted(d) : content[d][j].dir}}]

\* The directories that entries that count lead to.
Live == Reach(Step, Root)

HasEntry(c) == \E d \in Homes : \E i \in Counted(d) : content[d][i].start = c

\* Entries are named as callers may name them, or are dots, and the root has
\* no dots; what is named is a cluster.
EntriesSound ==
  \A d \in Homes : \A i \in 1 .. Slots :
    IsEntry(content[d][i]) =>
      \/ content[d][i].name \in Names /\ content[d][i].start \in Clusters
      \/ d # Root /\ content[d][i].name \in {".", ".."}

\* No two entries that count name one cluster.
NamedOnce ==
  \A d, e \in Homes : \A i \in Counted(d), j \in Counted(e) :
    content[d][i].start = content[e][j].start => d = e /\ i = j

\* A path leads to every entry; where it is not from the root, nothing is
\* found, whatever an old directory or a file has left in the cluster.
AllLive == \A d \in Homes : Below(d) # {} => d \in Live

\* Two entries of a directory that count differ in name.
NamesDiffer ==
  "recreate" \notin Uses =>
    \A d \in Homes : \A i, j \in Counted(d) :
      content[d][i].name = content[d][j].name => i = j

\* What a call knows, and has in its hand.
AddSound ==
  call.op = "add" =>
    /\ call.to \in Live
    /\ call.entry.name \in Names
    /\ call.entry.start \in Clusters
    /\ ~ HasEntry(call.entry.start)
    /\ "recreate" \notin Uses => ~ Exists(call.to, call.entry.name)

RenameSound ==
  call.op = "rename" =>
    /\ call.to \in Live
    /\ call.entry.name \in Names
    /\ ~ Exists(call.to, call.entry.name)
    /\ call.slot \in Below(call.dir)
    /\ call.entry.start = content[call.dir][call.slot].start
    /\ call.entry.dir = content[call.dir][call.slot].dir
    /\ call.entry.dir => call.to \notin Reach(Step, call.entry.start)

RemoveSound ==
  call.op = "remove" =>
    /\ call.slot \in Below(call.dir)
    /\ Below(content[call.dir][call.slot].start) = {}

MovedSound ==
  call.op = "moved" =>
    /\ call.slot \in Below(call.dir)
    /\ HasEntry(content[call.dir][call.slot].start)

\* The entry in the hand of a call that removes.
Dropped(c) == call.op = "remove" /\ content[call.dir][call.slot].start = c

\* The FAT in the cache has in use what has an entry, but for the cluster in
\* hand.
Accounts ==
  Up => \A c \in Clusters :
          c \in used <=> \/ HasEntry(c) /\ ~ Dropped(c)
                         \/ call.op = "add" /\ call.entry.start = c

\* What is synced has an entry that no call is about to remove.
SyncedSound ==
  \A c \in synced : c \in disk /\ HasEntry(c) /\ ~ Dropped(c)

IInv ==
  /\ TypeOK
  /\ EntriesSound /\ NamedOnce /\ AllLive /\ NamesDiffer
  /\ AddSound /\ RenameSound /\ RemoveSound /\ MovedSound
  /\ Accounts /\ SyncedSound

-----------------------------------------------------------------------------
(* What the invariant says of entries and directories.                     *)

AllSteps == [d \in Homes |-> Subdirs(d)]

\* An entry that a path may go through names a cluster.
LEMMA BelowSound ==
  ASSUME TreeAssumption, EntriesSound, NEW d \in Homes, NEW i \in Below(d)
  PROVE  /\ i \in 1 .. Slots
         /\ IsEntry(content[d][i])
         /\ content[d][i].name \in Names
         /\ content[d][i].start \in Clusters
BY DEF EntriesSound, Below, TreeAssumption

\* The steps are from directories to clusters, now and after a step.
LEMMA StepsTyped ==
  ASSUME TreeAssumption, EntriesSound
  PROVE  /\ Step \in Steps /\ AllSteps \in Steps
         /\ \A d \in Homes : Step[d] \subseteq Clusters /\ AllSteps[d] \subseteq Clusters
         /\ \A d \in Homes : Step[d] \subseteq AllSteps[d]
<1>1. ASSUME NEW d \in Homes
      PROVE  /\ {content[d][i].start : i \in {j \in Counted(d) : content[d][j].dir}}
                  \subseteq Subdirs(d)
             /\ Subdirs(d) \subseteq Clusters
  BY BelowSound DEF Counted, Subdirs
<1> QED BY <1>1 DEF Step, AllSteps, Steps, Homes

LEMMA NextStepsTyped ==
  ASSUME TreeAssumption, EntriesSound'
  PROVE  Step' \in Steps
<1>1. ASSUME NEW d \in Homes, NEW i \in Counted(d)'
      PROVE  content'[d][i].start \in Clusters
  BY <1>1 DEF EntriesSound, Counted, Below, TreeAssumption
<1> QED BY <1>1 DEF Step, Steps, Homes

\* The directories below d are those reached from it.
LEMMA DescendantsReached ==
  ASSUME TreeAssumption, EntriesSound, NEW d \in Homes
  PROVE  Descendants(d) = Reach(AllSteps, d)
<1> DEFINE M == {s \in Homes : \A S \in SUBSET Homes : Closed(d, S) => s \in S}
           Least(S) == Closed(d, S) /\ \A T \in SUBSET S : Closed(d, T) => T = S
           X == CHOOSE S \in SUBSET Homes : Least(S)
<1>0. \A e \in Homes : Subdirs(e) \subseteq Homes
  BY StepsTyped DEF AllSteps, Homes
<1>1. \A S \in SUBSET Homes : Closed(d, S) => M \subseteq S
  OBVIOUS
<1>2. Closed(d, M)
  <2>1. ASSUME NEW e \in M \cup {d}, NEW x \in Subdirs(e),
               NEW S \in SUBSET Homes, Closed(d, S)
        PROVE  x \in S
    BY <2>1 DEF Closed
  <2>2. ASSUME NEW e \in M \cup {d}, NEW x \in Subdirs(e)
        PROVE  x \in M
    <3>1. x \in Homes
      BY <1>0
    <3>2. \A S \in SUBSET Homes : Closed(d, S) => x \in S
      BY <2>1
    <3> QED BY <3>1, <3>2
  <2> QED BY <2>2 DEF Closed
<1>3. M \in SUBSET Homes
  OBVIOUS
<1> HIDE DEF M
<1>4. Least(M)
  <2>1. ASSUME NEW T \in SUBSET M, Closed(d, T) PROVE T = M
    BY <1>1, <1>3, <2>1
  <2> QED BY <1>2, <2>1
<1>5. X \in SUBSET Homes /\ Least(X)
  <2>1. \E S \in SUBSET Homes : Least(S)
    BY <1>3, <1>4
  <2> HIDE DEF Least
  <2> QED BY <2>1
<1>6. X = M
  BY <1>1, <1>2, <1>5
<1>7. Descendants(d) = {d} \cup M
  BY <1>6 DEF Descendants, Homes
<1>8. ASSUME NEW S \in SUBSET Homes, d \in S, Onward(AllSteps, S)
      PROVE  {d} \cup M \subseteq S
  <2>1. Closed(d, S)
    BY <1>8 DEF Onward, AllSteps, Closed
  <2> QED BY <1>1, <1>8, <2>1
<1>9. {d} \cup M \subseteq Reach(AllSteps, d)
  BY <1>3, <1>8 DEF Reach
<1>10. Reach(AllSteps, d) \subseteq {d} \cup M
  <2>1. Onward(AllSteps, {d} \cup M)
    BY <1>2, <1>3 DEF Onward, AllSteps, Closed
  <2>2. {d} \cup M \in SUBSET Homes
    BY <1>3
  <2> QED BY <2>1, <2>2, StepsTyped, ReachProps
<1> QED BY <1>7, <1>9, <1>10

\* Between the two entries of a rename a path may go through both; otherwise
\* the entries that count are those that paths go through.
LEMMA LiveAndDirs ==
  ASSUME TreeAssumption, EntriesSound
  PROVE  /\ Live \subseteq Dirs /\ Dirs \subseteq Homes
         /\ Root \in Live
         /\ call.op # "moved" =>
              /\ Step = AllSteps /\ Live = Dirs
              /\ \A d \in Homes : Counted(d) = Below(d)
<1>1. Root \in Homes
  BY DEF Homes
<1>2. Dirs = Reach(AllSteps, Root)
  BY <1>1, DescendantsReached DEF Dirs
<1>3. /\ Reach(Step, Root) \subseteq Reach(AllSteps, Root)
      /\ Reach(AllSteps, Root) \subseteq Homes
      /\ Root \in Reach(Step, Root)
  BY <1>1, StepsTyped, ReachGrows, ReachProps
<1>4. ASSUME call.op # "moved"
      PROVE  /\ Step = AllSteps
             /\ \A d \in Homes : Counted(d) = Below(d)
  <2>1. \A d \in Homes : Counted(d) = Below(d)
    BY <1>4 DEF Counted, Hidden, Below
  <2> QED BY <2>1 DEF Step, AllSteps, Subdirs
<1> QED BY <1>2, <1>3, <1>4 DEF Live

\* A live directory is the root or has an entry that counts.
LEMMA LiveHasEntry ==
  ASSUME TreeAssumption, EntriesSound, NEW c \in Live, c # Root
  PROVE  \E d \in Live : \E i \in Counted(d) :
           content[d][i].start = c /\ content[d][i].dir
<1>1. PICK d \in Reach(Step, Root) : c \in Step[d]
  BY StepsTyped, ReachedByStep DEF Live, Homes
<1>2. d \in Homes
  BY DEF Reach
<1> QED BY <1>1, <1>2 DEF Step, Live

\* What counts, counts in a live directory.
LEMMA CountedLive ==
  ASSUME AllLive, NEW d \in Homes, NEW i \in Counted(d)
  PROVE  d \in Live /\ i \in Below(d)
BY DEF AllLive, Counted

-----------------------------------------------------------------------------
(* What changes of slots do to it.                                         *)

\* The entries that count stay as they are.
LEMMA SameEntriesKeep ==
  ASSUME NamedOnce, NamesDiffer, AllLive,
         \A d \in Homes : /\ Counted(d)' = Counted(d)
                          /\ Below(d)' \subseteq Below(d)
                          /\ \A i \in Counted(d) : content'[d][i] = content[d][i]
  PROVE  /\ Step' = Step /\ Live' = Live
         /\ NamedOnce' /\ NamesDiffer' /\ AllLive'
         /\ \A c : HasEntry(c)' <=> HasEntry(c)
<1>1. Step' = Step
  <2>1. ASSUME NEW d \in Homes
        PROVE  {content[d][i].start : i \in {j \in Counted(d) : content[d][j].dir}}'
                 = {content[d][i].start : i \in {j \in Counted(d) : content[d][j].dir}}
    OBVIOUS
  <2> QED BY <2>1 DEF Step
<1>2. Live' = Live
  BY <1>1 DEF Live, Reach, Onward
<1>3. NamedOnce'
  BY DEF NamedOnce
<1>4. NamesDiffer'
  BY DEF NamesDiffer
<1>5. AllLive'
  BY <1>2 DEF AllLive
<1>6. \A c : HasEntry(c)' <=> HasEntry(c)
  BY DEF HasEntry
<1> QED BY <1>1, <1>2, <1>3, <1>4, <1>5, <1>6

\* An entry e is put into slot j of a live directory, and takes the place of
\* the one that named the same cluster, if there was one.
LEMMA NewEntryKeeps ==
  ASSUME TreeAssumption, EntriesSound, EntriesSound', NamedOnce, NamesDiffer, AllLive,
         NEW to \in Live, NEW j \in 1 .. Slots, NEW e, e.start \in Clusters,
         content'[to][j] = e, j \notin Counted(to),
         "recreate" \notin Uses => ~ Exists(to, e.name),
         \A d \in Homes :
           /\ d # to => Below(d)' \subseteq Below(d)
           /\ \A i \in Counted(d) : content'[d][i] = content[d][i]
           /\ \A i : i \in Counted(d)' <=>
                       \/ i \in Counted(d) /\ content[d][i].start # e.start
                       \/ d = to /\ i = j,
         (\E d \in Homes : e.start \in Step[d]) =>
           e.dir /\ to \notin Reach(Step, e.start)
  PROVE  /\ Live \subseteq Live'
         /\ NamedOnce' /\ NamesDiffer' /\ AllLive'
         /\ \A c : HasEntry(c)' <=> HasEntry(c) \/ c = e.start
<1>0. to \in Homes /\ Root \in Homes /\ e.start \in Homes
  BY DEF Live, Reach, Homes
<1>1. Live \subseteq Live'
  <2>1. Step \in Steps /\ Step' \in Steps
    BY StepsTyped, NextStepsTyped
  <2>2. ASSUME NEW d \in Homes PROVE Step[d] \subseteq Step'[d] \cup {e.start}
    <3>1. ASSUME NEW i \in Counted(d), content[d][i].dir, content[d][i].start # e.start
          PROVE  content[d][i].start \in Step'[d]
      <4>1. i \in Counted(d)' /\ content'[d][i] = content[d][i]
        BY <3>1
      <4> QED BY <3>1, <4>1 DEF Step
    <3> QED BY <3>1 DEF Step
  <2>3. CASE \E d \in Homes : e.start \in Step[d]
    <3>1. e.dir /\ to \notin Reach(Step, e.start)
      BY <2>3
    <3>2. e.start \in Step'[to]
      <4>1. j \in Counted(to)'
        BY <1>0
      <4> QED BY <1>0, <3>1, <4>1 DEF Step
    <3>3. to \in Reach(Step, Root)
      BY DEF Live
    <3>4. Reach(Step, Root) \subseteq Reach(Step', Root)
      BY <1>0, <2>1, <2>2, <3>1, <3>2, <3>3, ReachMoved
    <3> QED BY <3>4 DEF Live, Reach, Onward
  <2>4. CASE ~ \E d \in Homes : e.start \in Step[d]
    <3>1. \A d \in Homes : Step[d] \subseteq Step'[d]
      BY <2>2, <2>4
    <3>2. Reach(Step, Root) \subseteq Reach(Step', Root)
      BY <1>0, <2>1, <3>1, ReachGrows
    <3> QED BY <3>2 DEF Live, Reach, Onward
  <2> QED BY <2>3, <2>4
<1>2. NamedOnce'
  BY <1>0 DEF NamedOnce
<1>3. NamesDiffer'
  <2>1. ASSUME "recreate" \notin Uses, NEW d \in Homes,
               NEW i \in Counted(d)', NEW k \in Counted(d)',
               content'[d][i].name = content'[d][k].name
        PROVE  i = k
    <3>1. ASSUME NEW l \in Counted(to) PROVE content[to][l].name # e.name
      BY <1>0, <2>1 DEF Exists, Named, Counted, Below
    <3>2. CASE d = to
      BY <2>1, <3>1, <3>2 DEF NamesDiffer
    <3>3. CASE d # to
      BY <2>1, <3>3 DEF NamesDiffer
    <3> QED BY <3>2, <3>3
  <2> QED BY <2>1 DEF NamesDiffer
<1>4. AllLive'
  BY <1>0, <1>1 DEF AllLive
<1>5. ASSUME NEW c PROVE HasEntry(c)' <=> HasEntry(c) \/ c = e.start
  <2>1. HasEntry(c)' => HasEntry(c) \/ c = e.start
    BY <1>0 DEF HasEntry
  <2>2. c = e.start => HasEntry(c)'
    BY <1>0 DEF HasEntry
  <2>3. HasEntry(c) /\ c # e.start => HasEntry(c)'
    BY DEF HasEntry
  <2> QED BY <2>1, <2>2, <2>3
<1> QED BY <1>1, <1>2, <1>3, <1>4, <1>5

\* The entry in slot j of directory d goes, and nothing is below it.
LEMMA LeafGoes ==
  ASSUME TreeAssumption, EntriesSound, EntriesSound', NamedOnce, NamesDiffer, AllLive,
         NEW d \in Homes, NEW j \in Counted(d), NEW s, s = content[d][j].start,
         Below(s) = {},
         \A e \in Homes :
           /\ Below(e)' \subseteq Below(e)
           /\ \A i : i \in Counted(e)' <=> i \in Counted(e) /\ <<e, i>> # <<d, j>>
           /\ \A i \in Counted(e)' : content'[e][i] = content[e][i]
  PROVE  /\ NamedOnce' /\ NamesDiffer' /\ AllLive'
         /\ \A c : HasEntry(c)' <=> HasEntry(c) /\ c # s
<1>0. s \in Homes /\ Root \in Homes
  BY BelowSound DEF Counted, Homes
<1>1. Live \subseteq Live' \cup {s}
  <2>1. Step \in Steps /\ Step' \in Steps
    BY StepsTyped, NextStepsTyped
  <2>2. ASSUME NEW e \in Homes PROVE Step[e] \subseteq Step'[e] \cup {s}
    <3>1. ASSUME NEW i \in Counted(e), content[e][i].dir, content[e][i].start # s
          PROVE  content[e][i].start \in Step'[e]
      <4>1. i \in Counted(e)' /\ content'[e][i] = content[e][i]
        BY <3>1
      <4> QED BY <3>1, <4>1 DEF Step
    <3> QED BY <3>1 DEF Step
  <2>3. Step[s] = {}
    BY <1>0 DEF Step, Counted
  <2>4. Reach(Step, Root) \subseteq Reach(Step', Root) \cup {s}
    BY <1>0, <2>1, <2>2, <2>3, ReachWithoutLeaf
  <2> QED BY <2>4 DEF Live, Reach, Onward
<1>2. NamedOnce'
  BY DEF NamedOnce
<1>3. NamesDiffer'
  BY DEF NamesDiffer
<1>4. AllLive'
  <2>1. ASSUME NEW e \in Homes, Below(e)' # {} PROVE e \in Live'
    <3>1. e \in Live /\ e # s
      BY <2>1 DEF AllLive
    <3> QED BY <1>1, <3>1
  <2> QED BY <2>1 DEF AllLive
<1>5. ASSUME NEW c PROVE HasEntry(c)' <=> HasEntry(c) /\ c # s
  <2>1. HasEntry(c)' => HasEntry(c) /\ c # s
    BY DEF HasEntry, NamedOnce
  <2>2. HasEntry(c) /\ c # s => HasEntry(c)'
    BY DEF HasEntry
  <2> QED BY <2>1, <2>2
<1> QED BY <1>2, <1>3, <1>4, <1>5

-----------------------------------------------------------------------------
(* Slots.                                                                  *)

Held == Entry \cup {Empty, Other}

\* A set of numbers has a smallest element.
LEMMA MinLeast ==
  ASSUME NEW S \in SUBSET Nat, S # {}
  PROVE  Min(S) \in S /\ \A y \in S : Min(S) <= y
<1> DEFINE R == {p \in Nat \X Nat : p[1] < p[2]}
<1>1. IsWellFoundedOn(R, Nat)
  BY NatLessThanWellFounded DEF OpToRel
<1> HIDE DEF R
<1>2. PICK x \in S : \A y \in S : ~ (<<y, x>> \in R)
  BY <1>1, WFMin
<1>3. ASSUME NEW y \in S PROVE x <= y
  <2>1. x \in Nat /\ y \in Nat /\ ~ (<<y, x>> \in R)
    BY <1>2
  <2>2. ~ (y < x)
    BY <2>1 DEF R
  <2> QED BY <2>1, <2>2
<1> QED BY <1>3 DEF Min

LEMMA MinIn ==
  ASSUME NEW S \in SUBSET Nat, S # {}
  PROVE  Min(S) \in S
BY MinLeast

\* A search that finds something finds a slot with that name.
LEMMA SlotFound ==
  ASSUME TreeAssumption, NEW d, NEW n, Exists(d, n)
  PROVE  /\ Slot(d, n) \in 1 .. Slots
         /\ IsEntry(content[d][Slot(d, n)])
         /\ content[d][Slot(d, n)].name = n
         /\ n \in Names => Slot(d, n) \in Below(d)
<1>1. Named(d, n) \in SUBSET Nat /\ Named(d, n) # {}
  BY DEF Named, Exists, TreeAssumption
<1>2. Min(Named(d, n)) \in Named(d, n)
  BY <1>1, MinIn
<1> QED BY <1>2 DEF Slot, Named, Below

LEMMA RoomFound ==
  ASSUME NEW d, Room(d) # {}
  PROVE  Min(Room(d)) \in 1 .. Slots /\ content[d][Min(Room(d))] = Empty
<1>1. Room(d) \in SUBSET Nat
  BY DEF Room
<1>2. Min(Room(d)) \in Room(d)
  BY <1>1, MinIn
<1> QED BY <1>2 DEF Room

\* Steps that leave the slots alone, and begin or end no rename's last part.
LEMMA SameContentKeeps ==
  ASSUME IInv, content' = content,
         call' = call \/ (call.op # "moved" /\ call'.op # "moved")
  PROVE  /\ EntriesSound' /\ NamedOnce' /\ NamesDiffer' /\ AllLive'
         /\ Step' = Step /\ Live' = Live
         /\ \A c : HasEntry(c)' <=> HasEntry(c)
         /\ \A d : Below(d)' = Below(d)
         /\ \A d, n : Exists(d, n)' <=> Exists(d, n)
<1>1. \A d : Below(d)' = Below(d)
  BY DEF Below
<1>2. \A d, i : Hidden(d, i)' <=> Hidden(d, i)
  BY DEF Hidden
<1>3. \A d : Counted(d)' = Counted(d)
  BY <1>1, <1>2 DEF Counted
<1>4. EntriesSound'
  BY DEF EntriesSound, IInv
<1>5. \A d, n : Exists(d, n)' <=> Exists(d, n)
  BY DEF Exists, Named
<1> QED BY <1>1, <1>3, <1>4, <1>5, SameEntriesKeep DEF IInv

-----------------------------------------------------------------------------
(* The actions, of a careful caller and without old entries.               *)

Careful == Uses \subseteq {"recreate"} /\ NoOldEntries

\* What bytes are as slots then.
LEMMA BytesProps ==
  ASSUME Careful, NEW bytes \in Bytes
  PROVE  /\ bytes \in [1 .. Slots -> Held]
         /\ \A i \in 1 .. Slots : ~ IsEntry(bytes[i])
BY BytesAssumption DEF Careful, NoOldEntries, Held

\* A cluster that no entry names, and every file's, has nothing below it.
LEMMA NothingBelow ==
  ASSUME TreeAssumption, EntriesSound, AllLive, NEW c \in Clusters,
         ~ \E d \in Homes : \E i \in Counted(d) :
             content[d][i].start = c /\ content[d][i].dir
  PROVE  c \notin Live /\ Below(c) = {}
<1>1. c # Root /\ c \in Homes
  BY DEF TreeAssumption, Homes
<1>2. c \notin Live
  BY <1>1, LiveHasEntry DEF Live, Reach
<1> QED BY <1>1, <1>2 DEF AllLive

\* The entries that count stay.
SameEntries ==
  \A d \in Homes : /\ Counted(d)' = Counted(d)
                   /\ \A i \in Counted(d) : content'[d][i] = content[d][i]

\* A cluster that is not reached gets contents without entries below it.
LEMMA NewContentKeeps ==
  ASSUME IInv, TreeAssumption, NEW c \in Clusters, c \notin Live, Below(c) = {},
         call.op # "moved", call'.op # "moved",
         NEW new \in [1 .. Slots -> Held],
         \A i \in 1 .. Slots : IsEntry(new[i]) => new[i].name \in {".", ".."},
         content' = [content EXCEPT ![c] = new]
  PROVE  /\ content' \in [Homes -> [1 .. Slots -> Held]]
         /\ EntriesSound' /\ NamedOnce' /\ NamesDiffer' /\ AllLive'
         /\ Step' = Step /\ Live' = Live
         /\ \A b : HasEntry(b)' <=> HasEntry(b)
         /\ \A d \in Live : \A n : Exists(d, n)' <=> Exists(d, n)
         /\ SameEntries
<1>1. content \in [Homes -> [1 .. Slots -> Held]] /\ c \in Homes
  BY DEF IInv, TypeOK, Homes, Held
<1>2. /\ content' \in [Homes -> [1 .. Slots -> Held]]
      /\ content'[c] = new
      /\ \A d \in Homes : d # c => content'[d] = content[d]
  BY <1>1
<1>3. ASSUME NEW d \in Homes
      PROVE  /\ Below(d)' = Below(d)
             /\ Counted(d) = Below(d) /\ Counted(d)' = Counted(d)
             /\ \A i \in Counted(d) : content'[d][i] = content[d][i]
  <2>1. Below(d)' = Below(d)
    <3>1. CASE d = c
      BY <1>2, <3>1 DEF Below, TreeAssumption
    <3>2. CASE d # c
      BY <1>2, <3>2 DEF Below
    <3> QED BY <3>1, <3>2
  <2>2. Counted(d) = Below(d) /\ Counted(d)' = Below(d)'
    BY DEF Counted, Hidden, Below
  <2> QED BY <1>2, <2>1, <2>2
<1>4. EntriesSound'
  <2>1. ASSUME NEW d \in Homes, NEW i \in 1 .. Slots, IsEntry(content'[d][i])
        PROVE  \/ content'[d][i].name \in Names /\ content'[d][i].start \in Clusters
               \/ d # Root /\ content'[d][i].name \in {".", ".."}
    <3>1. CASE d = c
      BY <1>2, <2>1, <3>1 DEF TreeAssumption
    <3>2. CASE d # c
      BY <1>2, <2>1, <3>2 DEF IInv, EntriesSound
    <3> QED BY <3>1, <3>2
  <2> QED BY <2>1 DEF EntriesSound, IsEntry
<1>5. \A d \in Live : \A n : Exists(d, n)' <=> Exists(d, n)
  <2>1. \A d \in Live : content'[d] = content[d]
    BY <1>2 DEF Live, Reach
  <2> QED BY <2>1 DEF Exists, Named
<1> QED BY <1>2, <1>3, <1>4, <1>5, SameEntriesKeep DEF IInv, SameEntries

\* What a new directory has in it.
LEMMA NewDirProps ==
  ASSUME TreeAssumption, TagAssumption, IInv, NEW c \in Clusters, NEW d \in Homes,
         Below(c) = {}, NEW new \in NewDir(c, d)
  PROVE  /\ new \in [1 .. Slots -> Held]
         /\ \A i \in 1 .. Slots : IsEntry(new[i]) => new[i].name \in {".", ".."}
<1>1. content[c] \in [1 .. Slots -> Held] /\ c \in Homes /\ c # Root
  BY DEF IInv, TypeOK, Homes, Held, TreeAssumption
<1>2. \A i \in 1 .. Slots : IsEntry(content[c][i]) => content[c][i].name \in {".", ".."}
  BY <1>1 DEF IInv, EntriesSound, Below
<1>3. CASE new = content[c]
  BY <1>1, <1>2, <1>3
<1>4. CASE new # content[c]
  <2> DEFINE dot == [name |-> ".", start |-> c, dir |-> TRUE]
             up == [name |-> "..", dir |-> TRUE,
                    start |-> IF d = Root /\ FixedRoot THEN NoCluster ELSE d]
  <2>1. dot \in Entry /\ up \in Entry
    BY DEF Entry, Homes
  <2>2. dot.name = "." /\ up.name = ".."
    OBVIOUS
  <2> HIDE DEF dot, up
  <2>3. new = [i \in 1 .. Slots |->
                 IF i = 1 THEN dot ELSE IF i = 2 THEN up
                 ELSE IF i <= PerBlock THEN Empty ELSE content[c][i]]
    BY <1>4 DEF NewDir, dot, up
  <2>4. \A i \in 1 .. Slots : \/ new[i] = dot \/ new[i] = up
                              \/ new[i] = Empty \/ new[i] = content[c][i]
    BY <2>3
  <2>5. ~ IsEntry(Empty)
    BY DEF IsEntry
  <2>6. new \in [1 .. Slots -> Held]
    <3>1. \A i \in 1 .. Slots : content[c][i] \in Held
      BY <1>1
    <3>2. dot \in Held /\ up \in Held /\ Empty \in Held
      BY <2>1 DEF Held
    <3> QED BY <2>3, <3>1, <3>2
  <2> QED BY <1>2, <2>2, <2>4, <2>5, <2>6
<1> QED BY <1>3, <1>4

\* Making a file or directory: its cluster is in hand and not named.
LEMMA MakeKeeps ==
  ASSUME TreeAssumption, TagAssumption, IInv, NEW d \in Dirs, NEW n \in Names,
         NEW dir \in BOOLEAN, Make(d, n, dir)
  PROVE  IInv' /\ SameEntries
<1> DEFINE e(c) == [name |-> Sfn[n], start |-> c, dir |-> dir]
<1>1. PICK c \in Free :
        /\ used' = used \cup {c}
        /\ call' = [op |-> "add", to |-> d, entry |-> e(c)]
        /\ \E new \in IF dir THEN NewDir(c, d) ELSE {content[c]} :
             content' = [content EXCEPT ![c] = new]
  BY DEF Make
<1>2. /\ Up /\ call = Idle /\ MayTake(d, n)
      /\ UNCHANGED <<disk, power, bad, synced>>
  BY DEF Make
<1>3. /\ EntriesSound /\ AllLive /\ TypeOK /\ Accounts /\ SyncedSound
  BY DEF IInv
<1>4. /\ call.op = "none" /\ call'.op = "add" /\ call'.to = d
      /\ call'.entry = e(c)
  BY <1>1, <1>2 DEF Idle
<1>5. c \in Clusters /\ c \notin used
  BY <1>1 DEF Free
<1>6. Live = Dirs /\ d \in Live /\ d \in Homes
  BY <1>3, <1>4, LiveAndDirs
<1>7. ~ HasEntry(c)
  BY <1>2, <1>3, <1>4, <1>5 DEF Accounts, Dropped
<1>8. c \notin Live /\ Below(c) = {}
  BY <1>3, <1>5, <1>7, NothingBelow DEF HasEntry
<1>9. PICK new : /\ new \in IF dir THEN NewDir(c, d) ELSE {content[c]}
                 /\ content' = [content EXCEPT ![c] = new]
  BY <1>1
<1>10. /\ new \in [1 .. Slots -> Held]
       /\ \A i \in 1 .. Slots : IsEntry(new[i]) => new[i].name \in {".", ".."}
  <2>1. CASE dir
    BY <1>5, <1>6, <1>8, <1>9, <2>1, NewDirProps
  <2>2. CASE ~ dir
    <3>1. new = content[c]
      BY <1>9, <2>2
    <3>2. content[c] \in [1 .. Slots -> Held] /\ c \in Homes /\ c # Root
      BY <1>3, <1>5 DEF TypeOK, Homes, Held, TreeAssumption
    <3> QED BY <1>3, <1>8, <3>1, <3>2 DEF EntriesSound, Below
  <2> QED BY <2>1, <2>2
<1>11. /\ content' \in [Homes -> [1 .. Slots -> Held]]
       /\ EntriesSound' /\ NamedOnce' /\ NamesDiffer' /\ AllLive'
       /\ Step' = Step /\ Live' = Live
       /\ \A b : HasEntry(b)' <=> HasEntry(b)
       /\ \A a \in Live : \A m : Exists(a, m)' <=> Exists(a, m)
       /\ SameEntries
  <2>1. call.op # "moved" /\ call'.op # "moved"
    BY <1>4
  <2> QED BY <1>5, <1>8, <1>9, <1>10, <2>1, NewContentKeeps
<1>12. Sfn[n] \in Names /\ Sfn[n] \in Range(Sfn)
  BY DEF TreeAssumption, Range
<1>13. TypeOK'
  <2>1. e(c) \in Entry
    BY <1>5, <1>12 DEF Entry
  <2>2. call' \in Calls
    BY <1>1, <1>6, <2>1 DEF Calls, Homes
  <2> QED BY <1>1, <1>2, <1>3, <1>5, <1>11, <2>2 DEF TypeOK, Homes, Held
<1>14. AddSound'
  <2>1. "recreate" \notin Uses => ~ Exists(d, Sfn[n])'
    BY <1>2, <1>6, <1>11 DEF MayTake
  <2> QED BY <1>4, <1>5, <1>6, <1>7, <1>11, <1>12, <2>1 DEF AddSound, Exists, Named
<1>15. RenameSound' /\ RemoveSound' /\ MovedSound'
  BY <1>4 DEF RenameSound, RemoveSound, MovedSound
<1>16. Accounts'
  <2>1. \A b \in Clusters : b \in used <=> HasEntry(b)
    BY <1>2, <1>3, <1>4 DEF Accounts, Dropped
  <2> QED BY <1>1, <1>2, <1>4, <1>7, <1>11, <2>1 DEF Accounts, Dropped, Up
<1>17. SyncedSound'
  BY <1>2, <1>3, <1>4, <1>11 DEF SyncedSound, Dropped
<1> QED BY <1>11, <1>13, <1>14, <1>15, <1>16, <1>17 DEF IInv

\* Writing: a file is not a directory, by any name.
LEMMA WriteKeeps ==
  ASSUME TreeAssumption, TagAssumption, Careful, IInv, NEW c \in Clusters, Write(c)
  PROVE  IInv' /\ SameEntries
<1>1. PICK d \in Dirs : \E i \in Below(d) :
        content[d][i].start = c /\ ~ content[d][i].dir
  BY DEF Write
<1>2. PICK i \in Below(d) : content[d][i].start = c /\ ~ content[d][i].dir
  BY <1>1
<1>3. /\ Up /\ call = Idle
      /\ \E bytes \in Bytes : content' = [content EXCEPT ![c] = bytes]
      /\ UNCHANGED <<used, disk, call, power, bad, synced>>
  BY DEF Write
<1>4. call.op = "none" /\ call'.op = "none"
  BY <1>3 DEF Idle
<1>5. /\ EntriesSound /\ AllLive /\ TypeOK /\ Accounts /\ SyncedSound /\ NamedOnce
  BY DEF IInv
<1>6. d \in Homes /\ \A a \in Homes : Counted(a) = Below(a)
  BY <1>4, <1>5, LiveAndDirs
<1>7. c \notin Live /\ Below(c) = {}
  <2>1. ~ \E a \in Homes : \E j \in Counted(a) :
            content[a][j].start = c /\ content[a][j].dir
    BY <1>2, <1>5, <1>6 DEF NamedOnce
  <2> QED BY <1>5, <2>1, NothingBelow
<1>8. /\ content' \in [Homes -> [1 .. Slots -> Held]]
      /\ EntriesSound' /\ NamedOnce' /\ NamesDiffer' /\ AllLive'
      /\ \A b : HasEntry(b)' <=> HasEntry(b)
      /\ SameEntries
  <2>2. PICK new \in Bytes : content' = [content EXCEPT ![c] = new]
    BY <1>3
  <2>1. /\ new \in [1 .. Slots -> Held]
        /\ \A k \in 1 .. Slots : IsEntry(new[k]) => new[k].name \in {".", ".."}
    BY BytesProps
  <2>3. call.op # "moved" /\ call'.op # "moved"
    BY <1>4
  <2> QED BY <1>7, <2>1, <2>2, <2>3, NewContentKeeps
<1>9. TypeOK'
  BY <1>3, <1>5, <1>8 DEF TypeOK, Homes, Held
<1>10. AddSound' /\ RenameSound' /\ RemoveSound' /\ MovedSound'
  BY <1>4 DEF AddSound, RenameSound, RemoveSound, MovedSound
<1>11. Accounts' /\ SyncedSound'
  BY <1>3, <1>4, <1>5, <1>8 DEF Accounts, SyncedSound, Dropped, Up
<1> QED BY <1>8, <1>9, <1>10, <1>11 DEF IInv

\* No room: the cluster in hand goes back.
LEMMA UndoKeeps ==
  ASSUME IInv, Undo
  PROVE  IInv'
<1>1. /\ Up /\ call.op = "add" /\ call' = Idle
      /\ used' = used \ {call.entry.start}
      /\ UNCHANGED <<content, disk, power, bad, synced>>
  BY DEF Undo
<1>2. call'.op = "none"
  BY <1>1 DEF Idle
<1>3. /\ EntriesSound' /\ NamedOnce' /\ NamesDiffer' /\ AllLive'
      /\ \A c : HasEntry(c)' <=> HasEntry(c)
  BY <1>1, <1>2, SameContentKeeps
<1>4. TypeOK'
  BY <1>1 DEF IInv, TypeOK
<1>5. AddSound' /\ RenameSound' /\ RemoveSound' /\ MovedSound'
  BY <1>2 DEF AddSound, RenameSound, RemoveSound, MovedSound
<1>6. Accounts' /\ SyncedSound'
  BY <1>1, <1>2, <1>3 DEF IInv, AddSound, Accounts, SyncedSound, Dropped, Up
<1> QED BY <1>3, <1>4, <1>5, <1>6 DEF IInv

\* Freeing a cluster that has nothing below it.
LEMMA DropKeeps ==
  ASSUME TreeAssumption, IInv, call = Idle, Up, NEW d \in Dirs, NEW i \in Below(d),
         Below(content[d][i].start) = {}, Drop(d, i)
  PROVE  IInv'
<1> DEFINE s == content[d][i].start
<1>1. /\ used' = used \ {s} /\ synced' = synced \ {s}
      /\ call' = [op |-> "remove", dir |-> d, slot |-> i]
      /\ UNCHANGED <<content, disk, power, bad>>
  BY DEF Drop
<1>2. /\ call.op = "none" /\ call'.op = "remove" /\ call'.dir = d /\ call'.slot = i
  BY <1>1 DEF Idle
<1>3. /\ EntriesSound' /\ NamedOnce' /\ NamesDiffer' /\ AllLive'
      /\ \A c : HasEntry(c)' <=> HasEntry(c)
      /\ \A a : Below(a)' = Below(a)
  BY <1>1, <1>2, SameContentKeeps
<1>4. d \in Homes /\ i \in 1 .. Slots
  BY LiveAndDirs DEF IInv, Below
<1>5. TypeOK'
  <2>1. call' \in Calls
    BY <1>1, <1>4 DEF Calls, Homes
  <2> QED BY <1>1, <2>1 DEF IInv, TypeOK
<1>6. AddSound' /\ RenameSound' /\ MovedSound'
  BY <1>2 DEF AddSound, RenameSound, MovedSound
<1>7. RemoveSound'
  BY <1>1, <1>2, <1>3 DEF RemoveSound
<1>8. \A c : Dropped(c)' <=> c = s
  BY <1>1, <1>2 DEF Dropped
<1>9. Accounts'
  BY <1>1, <1>2, <1>3, <1>8 DEF IInv, Accounts, Dropped, Up
<1>10. SyncedSound'
  BY <1>1, <1>2, <1>3, <1>8 DEF IInv, SyncedSound
<1> QED BY <1>3, <1>5, <1>6, <1>7, <1>9, <1>10 DEF IInv

\* A careful caller removes files, and directories with nothing in them.
LEMMA UnlinkKeeps ==
  ASSUME TreeAssumption, IInv, Careful, NEW d \in Dirs, NEW n \in Names, Unlink(d, n)
  PROVE  IInv' /\ Drop(d, Slot(d, n)) /\ Slot(d, n) \in Below(d)
<1> DEFINE i == Slot(d, n)
<1>1. /\ Up /\ call = Idle /\ Exists(d, n) /\ ~ content[d][i].dir /\ Drop(d, i)
  BY DEF Unlink, Careful
<1>2. i \in Below(d)
  BY <1>1, SlotFound
<1>3. EntriesSound /\ AllLive /\ NamedOnce /\ call.op # "moved"
  BY <1>1 DEF IInv, Idle
<1>4. d \in Homes /\ \A a \in Homes : Counted(a) = Below(a)
  BY <1>3, LiveAndDirs
<1>5. content[d][i].start \in Clusters
  BY <1>2, <1>3, <1>4, BelowSound
<1> HIDE DEF i
<1>6. Below(content[d][i].start) = {}
  <2>1. ~ \E a \in Homes : \E j \in Counted(a) :
            content[a][j].start = content[d][i].start /\ content[a][j].dir
    BY <1>1, <1>2, <1>3, <1>4 DEF NamedOnce
  <2> QED BY <1>3, <1>5, <2>1, NothingBelow
<1>7. IInv'
  BY <1>1, <1>2, <1>6, DropKeeps
<1> QED BY <1>1, <1>2, <1>7 DEF i

LEMMA RmdirKeeps ==
  ASSUME TreeAssumption, IInv, Careful, NEW d \in Dirs, NEW n \in Names, Rmdir(d, n)
  PROVE  IInv' /\ Drop(d, Slot(d, n)) /\ Slot(d, n) \in Below(d)
<1> DEFINE i == Slot(d, n)
<1>1. /\ Up /\ call = Idle /\ Exists(d, n) /\ Drop(d, i)
      /\ SeenEmpty(content[d][i].start)
  BY DEF Rmdir, Careful
<1>2. i \in Below(d)
  BY <1>1, SlotFound
<1> HIDE DEF i
<1>3. Below(content[d][i].start) = {}
  BY <1>1 DEF SeenEmpty, Below, TreeAssumption
<1>4. IInv'
  BY <1>1, <1>2, <1>3, DropKeeps
<1> QED BY <1>1, <1>2, <1>4 DEF i

\* Where fat_add_entries puts an entry.
NewSlot == Min(Room(call.to))

\* The entry of a new file or directory.
LEMMA AddEntryKeeps ==
  ASSUME TreeAssumption, TagAssumption, IInv, AddEntry
  PROVE  /\ IInv'
         /\ content'[call.to][NewSlot] = call.entry
         /\ \A d \in Homes :
              /\ \A i : i \in Counted(d)' <=>
                          i \in Counted(d) \/ (d = call.to /\ i = NewSlot)
              /\ \A i \in Counted(d) : content'[d][i] = content[d][i]
<1> DEFINE to == call.to
           e == call.entry
           j == NewSlot
<1>1. /\ Up /\ call.op = "add" /\ Room(to) # {} /\ call' = Idle
      /\ content' = [content EXCEPT ![to][j] = e]
      /\ UNCHANGED <<used, disk, power, bad, synced>>
  BY DEF AddEntry, Added, NewSlot
<1>2. call'.op = "none"
  BY <1>1 DEF Idle
<1>3. /\ EntriesSound /\ NamedOnce /\ NamesDiffer /\ AllLive /\ TypeOK
      /\ Accounts /\ SyncedSound
  BY DEF IInv
<1>4. /\ to \in Live /\ e.name \in Names /\ e.start \in Clusters
      /\ ~ HasEntry(e.start)
      /\ "recreate" \notin Uses => ~ Exists(to, e.name)
  BY <1>1 DEF IInv, AddSound
<1>5. to \in Homes /\ e \in Entry
  <2>1. call \in Calls
    BY <1>1, <1>3 DEF TypeOK, Idle
  <2> QED BY <1>1, <2>1 DEF Calls, Homes
<1>6. j \in 1 .. Slots /\ content[to][j] = Empty
  BY <1>1, RoomFound DEF NewSlot
<1> HIDE DEF to, e, j
<1>7. /\ content' \in [Homes -> [1 .. Slots -> Held]]
      /\ \A d \in Homes : \A i \in 1 .. Slots :
           content'[d][i] = IF d = to /\ i = j THEN e ELSE content[d][i]
  <2>1. e \in Held
    BY <1>5 DEF Held
  <2>2. content' = [content EXCEPT ![to][j] = e]
    BY <1>1
  <2>3. content \in [Homes -> [1 .. Slots -> Held]]
    BY <1>3 DEF TypeOK, Homes, Held
  <2> QED BY <1>5, <1>6, <2>1, <2>2, <2>3
<1>8. IsEntry(e) /\ ~ IsEntry(Empty)
  BY <1>5 DEF IsEntry, TagAssumption
<1>9. EntriesSound'
  <2>1. ASSUME NEW d \in Homes, NEW i \in 1 .. Slots, IsEntry(content'[d][i])
        PROVE  \/ content'[d][i].name \in Names /\ content'[d][i].start \in Clusters
               \/ d # Root /\ content'[d][i].name \in {".", ".."}
    BY <1>3, <1>4, <1>7, <2>1 DEF EntriesSound
  <2> QED BY <2>1 DEF EntriesSound, IsEntry
<1>10. ASSUME NEW d \in Homes
       PROVE  /\ \A i : i \in Below(d)' <=> i \in Below(d) \/ (d = to /\ i = j)
              /\ Counted(d) = Below(d) /\ Counted(d)' = Below(d)'
  <2>1. \A i : i \in Below(d)' <=> i \in Below(d) \/ (d = to /\ i = j)
    BY <1>4, <1>6, <1>7, <1>8 DEF Below, IsEntry
  <2>2. Counted(d) = Below(d) /\ Counted(d)' = Below(d)'
    BY <1>1, <1>2 DEF Counted, Hidden, Below
  <2> QED BY <2>1, <2>2
<1>11. /\ NamedOnce' /\ NamesDiffer' /\ AllLive'
       /\ \A c : HasEntry(c)' <=> HasEntry(c) \/ c = e.start
       /\ content'[to][j] = e
       /\ \A d \in Homes :
            /\ \A i : i \in Counted(d)' <=> i \in Counted(d) \/ (d = to /\ i = j)
            /\ \A i \in Counted(d) : content'[d][i] = content[d][i]
  <2>1. content'[to][j] = e /\ j \notin Counted(to)
    BY <1>5, <1>6, <1>7, <1>8, <1>10 DEF Below
  <2>2. ASSUME NEW d \in Homes
        PROVE  /\ d # to => Below(d)' \subseteq Below(d)
               /\ \A i \in Counted(d) : content'[d][i] = content[d][i]
               /\ \A i : i \in Counted(d)' <=>
                           \/ i \in Counted(d) /\ content[d][i].start # e.start
                           \/ d = to /\ i = j
    <3>1. d # to => Below(d)' \subseteq Below(d)
      BY <1>10
    <3>2. \A i \in Counted(d) : content[d][i].start # e.start
      BY <1>4 DEF HasEntry
    <3>3. \A i \in Counted(d) : content'[d][i] = content[d][i]
      BY <1>7, <1>10, <2>1 DEF Below
    <3> QED BY <1>10, <3>1, <3>2, <3>3
  <2>3. ~ \E d \in Homes : e.start \in Step[d]
    BY <1>4 DEF Step, HasEntry
  <2>4. /\ NamedOnce' /\ NamesDiffer' /\ AllLive'
        /\ \A c : HasEntry(c)' <=> HasEntry(c) \/ c = e.start
    BY <1>3, <1>4, <1>6, <1>9, <2>1, <2>2, <2>3, NewEntryKeeps
  <2> QED BY <1>10, <2>1, <2>2, <2>4
<1>12. TypeOK'
  BY <1>1, <1>3, <1>7 DEF TypeOK, Homes, Held
<1>13. AddSound' /\ RenameSound' /\ RemoveSound' /\ MovedSound'
  BY <1>2 DEF AddSound, RenameSound, RemoveSound, MovedSound
<1>14. Accounts' /\ SyncedSound'
  BY <1>1, <1>2, <1>3, <1>11 DEF Accounts, SyncedSound, Dropped, Up, e
<1>15. IInv'
  BY <1>9, <1>11, <1>12, <1>13, <1>14 DEF IInv
<1> QED BY <1>11, <1>15 DEF to, e, j

\* A careful rename replaces nothing.
LEMMA RenameBeginKeeps ==
  ASSUME TreeAssumption, TagAssumption, IInv, Careful, NEW d \in Dirs, NEW n \in Names,
         NEW t \in Targets, RenameBegin(d, n, t[1], t[2])
  PROVE  /\ IInv'
         /\ UNCHANGED <<content, used, disk, power, bad, synced>>
         /\ call.op = "none" /\ call'.op = "rename"
<1> DEFINE i == Slot(d, n)
           d2 == t[1]
           n2 == t[2]
           e == [content[d][i] EXCEPT !.name = ShortName(n2)]
<1>1. d2 \in Dirs /\ n2 \in Names
  BY DEF Targets, Careful
<1>2. /\ Up /\ call = Idle /\ Exists(d, n) /\ MayRename(d, i, d2, n2)
      /\ call' = [op |-> "rename", to |-> d2, dir |-> d, slot |-> i, entry |-> e]
      /\ UNCHANGED <<used, disk, power, bad>>
  BY DEF RenameBegin
<1>3. call.op = "none" /\ call'.op = "rename" /\ call'.to = d2 /\ call'.dir = d
      /\ call'.slot = i /\ call'.entry = e
  BY <1>2 DEF Idle
<1>4. EntriesSound /\ TypeOK /\ AllLive
  BY DEF IInv
<1>5. /\ Live = Dirs /\ d \in Homes /\ d2 \in Homes /\ d2 \in Live
      /\ Step = AllSteps
  BY <1>1, <1>3, <1>4, LiveAndDirs
<1>6. i \in Below(d)
  BY <1>2, SlotFound
<1>7. ShortName(n2) = Sfn[n2] /\ Sfn[n2] \in Names /\ Sfn[n2] \in Range(Sfn)
  BY <1>1 DEF ShortName, TreeAssumption, Range
<1>8. ~ Exists(d2, Sfn[n2])
  <2>1. "self" \notin Uses /\ "overwrite" \notin Uses
    BY DEF Careful
  <2> QED BY <1>2, <1>7, <2>1 DEF MayRename
<1>9. ~ Exists(d2, n2)
  <2>1. ASSUME Exists(d2, n2) PROVE FALSE
    <3>1. /\ Slot(d2, n2) \in 1 .. Slots
          /\ IsEntry(content[d2][Slot(d2, n2)])
          /\ content[d2][Slot(d2, n2)].name = n2
      BY <2>1, SlotFound
    <3>2. content[d2][Slot(d2, n2)] \in Entry
      BY <1>4, <1>5, <3>1 DEF TypeOK, Homes, IsEntry
    <3>3. n2 \in Range(Sfn)
      BY <1>1, <3>1, <3>2 DEF Entry, TreeAssumption
    <3>4. PICK m \in Names : n2 = Sfn[m]
      BY <3>3 DEF Range, TreeAssumption
    <3>5. Sfn[n2] = n2
      BY <3>4 DEF TreeAssumption
    <3> QED BY <1>8, <2>1, <3>5
  <2> QED BY <2>1
<1>10. UNCHANGED <<content, synced>>
  BY <1>9 DEF RenameBegin
<1> HIDE DEF d2, n2, i
<1>11. content[d][i] \in Entry
  BY <1>4, <1>5, <1>6 DEF TypeOK, Homes, IsEntry, Below
<1>12. /\ e \in Entry /\ e.name = Sfn[n2]
       /\ e.start = content[d][i].start /\ e.dir = content[d][i].dir
  BY <1>7, <1>11 DEF Entry
<1> HIDE DEF e
<1>13. e.dir => d2 \notin Reach(Step, e.start)
  <2>1. e.start \in Homes
    BY <1>4, <1>5, <1>6, <1>12, BelowSound DEF Homes
  <2>2. Descendants(e.start) = Reach(AllSteps, e.start)
    BY <1>4, <2>1, DescendantsReached
  <2>3. "inside" \notin Uses
    BY DEF Careful
  <2> QED BY <1>2, <1>5, <1>12, <2>2, <2>3 DEF MayRename, Inside
<1>14. /\ EntriesSound' /\ NamedOnce' /\ NamesDiffer' /\ AllLive'
       /\ Step' = Step /\ Live' = Live
       /\ \A c : HasEntry(c)' <=> HasEntry(c)
       /\ \A a : Below(a)' = Below(a)
       /\ \A a, m : Exists(a, m)' <=> Exists(a, m)
  BY <1>3, <1>10, SameContentKeeps
<1>15. TypeOK'
  <2>1. call' \in Calls
    BY <1>2, <1>5, <1>6, <1>12 DEF Calls, Homes, Below
  <2> QED BY <1>2, <1>4, <1>10, <2>1 DEF TypeOK
<1>16. AddSound' /\ RemoveSound' /\ MovedSound'
  BY <1>3 DEF AddSound, RemoveSound, MovedSound
<1>17. RenameSound'
  <2>1. d2 \in Live' /\ ~ Exists(d2, Sfn[n2])' /\ i \in Below(d)'
    BY <1>5, <1>6, <1>8, <1>14
  <2>2. e.dir => d2 \notin Reach(Step', e.start)
    BY <1>13, <1>14
  <2>3. /\ call'.to \in Live'
        /\ call'.entry.name \in Names
        /\ call'.slot \in Below(d)'
    BY <1>3, <1>7, <1>12, <2>1
  <2>4. ~ Exists(call.to, call.entry.name)'
    BY <1>3, <1>12, <2>1 DEF Exists, Named
  <2>5. (call.slot \in Below(call.dir))'
    BY <1>3, <2>1 DEF Below
  <2>6. (call.entry.dir => call.to \notin Reach(Step, call.entry.start))'
    BY <1>3, <2>2 DEF Reach, Onward
  <2>7. /\ call'.entry.start = content'[call'.dir][call'.slot].start
        /\ call'.entry.dir = content'[call'.dir][call'.slot].dir
    BY <1>3, <1>10, <1>12
  <2> QED BY <2>3, <2>4, <2>5, <2>6, <2>7 DEF RenameSound
<1>18. Accounts' /\ SyncedSound'
  BY <1>2, <1>3, <1>10, <1>14 DEF IInv, Accounts, SyncedSound, Dropped, Up
<1> QED BY <1>2, <1>3, <1>10, <1>14, <1>15, <1>16, <1>17, <1>18 DEF IInv

\* The copy of a renamed entry counts, and the old one no longer does.
LEMMA RenameAddKeeps ==
  ASSUME TreeAssumption, TagAssumption, IInv, RenameAdd, Room(call.to) # {}
  PROVE  /\ IInv'
         /\ content'[call.to][NewSlot] = call.entry
         /\ call.slot \in Counted(call.dir)
         /\ \A d \in Homes :
              /\ \A i : i \in Counted(d)' <=>
                          \/ i \in Counted(d) /\ <<d, i>> # <<call.dir, call.slot>>
                          \/ d = call.to /\ i = NewSlot
              /\ \A i \in Counted(d) : content'[d][i] = content[d][i]
<1> DEFINE to == call.to
           e == call.entry
           j == NewSlot
           dir == call.dir
           slot == call.slot
<1>1. /\ Up /\ call.op = "rename"
      /\ call' = [op |-> "moved", dir |-> dir, slot |-> slot]
      /\ content' = [content EXCEPT ![to][j] = e]
      /\ UNCHANGED <<used, disk, power, bad, synced>>
  BY DEF RenameAdd, Added, NewSlot
<1>2. call'.op = "moved" /\ call'.dir = dir /\ call'.slot = slot
  BY <1>1
<1>3. /\ EntriesSound /\ NamedOnce /\ NamesDiffer /\ AllLive /\ TypeOK
      /\ Accounts /\ SyncedSound
  BY DEF IInv
<1>4. /\ to \in Live /\ e.name \in Names /\ ~ Exists(to, e.name)
      /\ slot \in Below(dir)
      /\ e.start = content[dir][slot].start /\ e.dir = content[dir][slot].dir
      /\ e.dir => to \notin Reach(Step, e.start)
  BY <1>1 DEF IInv, RenameSound
<1>5. to \in Homes /\ dir \in Homes /\ e \in Entry
  <2>1. call \in Calls
    BY <1>1, <1>3 DEF TypeOK, Idle
  <2> QED BY <1>1, <2>1 DEF Calls, Homes
<1>6. j \in 1 .. Slots /\ content[to][j] = Empty
  BY RoomFound DEF NewSlot
<1> HIDE DEF to, e, j, dir, slot
<1>7. /\ content' \in [Homes -> [1 .. Slots -> Held]]
      /\ \A d \in Homes : \A i \in 1 .. Slots :
           content'[d][i] = IF d = to /\ i = j THEN e ELSE content[d][i]
  <2>1. e \in Held
    BY <1>5 DEF Held
  <2>2. content' = [content EXCEPT ![to][j] = e]
    BY <1>1
  <2>3. content \in [Homes -> [1 .. Slots -> Held]]
    BY <1>3 DEF TypeOK, Homes, Held
  <2> QED BY <1>5, <1>6, <2>1, <2>2, <2>3
<1>8. IsEntry(e) /\ ~ IsEntry(Empty)
  BY <1>5 DEF IsEntry, TagAssumption
<1>9. e.start \in Clusters
  BY <1>3, <1>4, <1>5, BelowSound
<1>10. EntriesSound'
  <2>1. ASSUME NEW d \in Homes, NEW i \in 1 .. Slots, IsEntry(content'[d][i])
        PROVE  \/ content'[d][i].name \in Names /\ content'[d][i].start \in Clusters
               \/ d # Root /\ content'[d][i].name \in {".", ".."}
    BY <1>3, <1>4, <1>7, <1>9, <2>1 DEF EntriesSound
  <2> QED BY <2>1 DEF EntriesSound, IsEntry
<1>11. ASSUME NEW d \in Homes
       PROVE  /\ \A i : i \in Below(d)' <=> i \in Below(d) \/ (d = to /\ i = j)
              /\ Counted(d) = Below(d)
              /\ \A i : i \in Counted(d)' <=>
                          i \in Below(d)' /\ <<d, i>> # <<dir, slot>>
  <2>1. \A i : i \in Below(d)' <=> i \in Below(d) \/ (d = to /\ i = j)
    BY <1>4, <1>6, <1>7, <1>8 DEF Below, IsEntry
  <2>2. Counted(d) = Below(d)
    BY <1>1 DEF Counted, Hidden, Below
  <2>3. \A i : i \in Counted(d)' <=> i \in Below(d)' /\ <<d, i>> # <<dir, slot>>
    BY <1>2 DEF Counted, Hidden
  <2> QED BY <2>1, <2>2, <2>3
<1>12. j \notin Below(to) /\ <<to, j>> # <<dir, slot>>
  BY <1>4, <1>6, <1>8 DEF Below
<1>13. ASSUME NEW d \in Homes
       PROVE  /\ \A i : i \in Counted(d)' <=>
                          \/ i \in Counted(d) /\ <<d, i>> # <<dir, slot>>
                          \/ d = to /\ i = j
              /\ \A i \in Counted(d) : content'[d][i] = content[d][i]
  <2>1. \A i \in Counted(d) : content'[d][i] = content[d][i]
    BY <1>7, <1>11, <1>12 DEF Below
  <2> QED BY <1>11, <1>12, <2>1
<1>14. /\ NamedOnce' /\ NamesDiffer' /\ AllLive'
       /\ \A c : HasEntry(c)' <=> HasEntry(c) \/ c = e.start
       /\ content'[to][j] = e
  <2>1. content'[to][j] = e /\ j \notin Counted(to)
    BY <1>5, <1>6, <1>7, <1>11, <1>12
  <2>2. ASSUME NEW d \in Homes
        PROVE  /\ d # to => Below(d)' \subseteq Below(d)
               /\ \A i \in Counted(d) : content'[d][i] = content[d][i]
               /\ \A i : i \in Counted(d)' <=>
                           \/ i \in Counted(d) /\ content[d][i].start # e.start
                           \/ d = to /\ i = j
    <3>1. d # to => Below(d)' \subseteq Below(d)
      BY <1>11
    <3>2. \A i \in Counted(d) :
            content[d][i].start = e.start <=> <<d, i>> = <<dir, slot>>
      BY <1>3, <1>4, <1>5, <1>11 DEF NamedOnce
    <3> QED BY <1>13, <3>1, <3>2
  <2>3. (\E d \in Homes : e.start \in Step[d]) =>
          e.dir /\ to \notin Reach(Step, e.start)
    <3>1. ASSUME NEW d \in Homes, e.start \in Step[d] PROVE e.dir
      <4>1. PICK i \in Counted(d) : content[d][i].dir /\ content[d][i].start = e.start
        BY <3>1 DEF Step
      <4>2. d = dir /\ i = slot
        BY <1>3, <1>4, <1>5, <1>11, <4>1 DEF NamedOnce
      <4> QED BY <1>4, <4>1, <4>2
    <3> QED BY <1>4, <3>1
  <2>4. /\ NamedOnce' /\ NamesDiffer' /\ AllLive'
        /\ \A c : HasEntry(c)' <=> HasEntry(c) \/ c = e.start
    BY <1>3, <1>4, <1>6, <1>9, <1>10, <2>1, <2>2, <2>3, NewEntryKeeps
  <2> QED BY <2>1, <2>4
<1>15. HasEntry(e.start)
  BY <1>4, <1>5, <1>11 DEF HasEntry
<1>16. TypeOK'
  <2>1. call' \in Calls
    BY <1>1, <1>4, <1>5 DEF Calls, Homes, Below
  <2> QED BY <1>1, <1>3, <1>7, <2>1 DEF TypeOK, Homes, Held
<1>17. AddSound' /\ RenameSound' /\ RemoveSound'
  BY <1>2 DEF AddSound, RenameSound, RemoveSound
<1>18. MovedSound'
  <2>1. (call.slot \in Below(call.dir))'
    BY <1>2, <1>4, <1>5, <1>11 DEF Below
  <2>2. content'[dir][slot].start = e.start
    BY <1>4, <1>5, <1>11, <1>13
  <2>3. \E d \in Homes : \E i \in Counted(d)' : content'[d][i].start = e.start
    BY <1>5, <1>13, <1>14
  <2> QED BY <1>2, <2>1, <2>2, <2>3 DEF MovedSound, HasEntry
<1>19. Accounts' /\ SyncedSound'
  <2>1. \A c : HasEntry(c)' <=> HasEntry(c)
    BY <1>14, <1>15
  <2>2. \A c : ~ Dropped(c) /\ ~ Dropped(c)'
    BY <1>1, <1>2 DEF Dropped
  <2> QED BY <1>1, <1>2, <1>3, <2>1, <2>2 DEF Accounts, SyncedSound, Up
<1>20. IInv'
  BY <1>10, <1>14, <1>16, <1>17, <1>18, <1>19 DEF IInv
<1> QED BY <1>4, <1>5, <1>11, <1>13, <1>14, <1>20 DEF to, e, j, dir, slot

\* A rename for whose copy there is no room changes nothing.
LEMMA RenameFailsKeeps ==
  ASSUME IInv, RenameAdd, Room(call.to) = {}
  PROVE  /\ IInv'
         /\ UNCHANGED content /\ call.op = "rename" /\ call'.op = "none"
<1>1. /\ Up /\ call.op = "rename" /\ call' = Idle
      /\ UNCHANGED <<content, used, disk, power, bad, synced>>
  BY DEF RenameAdd
<1>2. call'.op = "none"
  BY <1>1 DEF Idle
<1>3. /\ EntriesSound' /\ NamedOnce' /\ NamesDiffer' /\ AllLive'
      /\ \A c : HasEntry(c)' <=> HasEntry(c)
  BY <1>1, <1>2, SameContentKeeps
<1>4. TypeOK'
  BY <1>1 DEF IInv, TypeOK
<1>5. AddSound' /\ RenameSound' /\ RemoveSound' /\ MovedSound'
  BY <1>2 DEF AddSound, RenameSound, RemoveSound, MovedSound
<1>6. Accounts' /\ SyncedSound'
  BY <1>1, <1>2, <1>3 DEF IInv, Accounts, SyncedSound, Dropped, Up
<1> QED BY <1>1, <1>2, <1>3, <1>4, <1>5, <1>6 DEF IInv

\* An entry goes: that of what was removed, or the old one of a rename.
LEMMA RemoveEntryKeeps ==
  ASSUME TreeAssumption, TagAssumption, IInv, RemoveEntry
  PROVE  /\ IInv'
         /\ call.slot \in Below(call.dir)
         /\ \A d \in Homes :
              /\ \A i : i \in Counted(d)' <=>
                          i \in Counted(d) /\ <<d, i>> # <<call.dir, call.slot>>
              /\ \A i \in Counted(d)' : content'[d][i] = content[d][i]
<1> DEFINE dir == call.dir
           slot == call.slot
<1>1. /\ Up /\ call.op \in {"remove", "moved"} /\ call' = Idle
      /\ content' = [content EXCEPT ![dir][slot] = Empty]
      /\ UNCHANGED <<used, disk, power, bad, synced>>
  BY DEF RemoveEntry
<1>2. call'.op = "none"
  BY <1>1 DEF Idle
<1>3. /\ EntriesSound /\ NamedOnce /\ NamesDiffer /\ AllLive /\ TypeOK
      /\ Accounts /\ SyncedSound
  BY DEF IInv
<1>4. slot \in Below(dir)
  BY <1>1 DEF IInv, RemoveSound, MovedSound
<1>5. dir \in Homes /\ slot \in 1 .. Slots
  <2>1. call \in Calls
    BY <1>1, <1>3 DEF TypeOK, Idle
  <2> QED BY <1>1, <2>1 DEF Calls, Homes
<1> HIDE DEF dir, slot
<1>6. /\ content' \in [Homes -> [1 .. Slots -> Held]]
      /\ \A d \in Homes : \A i \in 1 .. Slots :
           content'[d][i] = IF d = dir /\ i = slot THEN Empty ELSE content[d][i]
  <2>1. Empty \in Held
    BY DEF Held
  <2>2. content \in [Homes -> [1 .. Slots -> Held]]
    BY <1>3 DEF TypeOK, Homes, Held
  <2> QED BY <1>1, <1>5, <2>1, <2>2
<1>7. ~ IsEntry(Empty)
  BY DEF IsEntry
<1>8. EntriesSound'
  <2>1. ASSUME NEW d \in Homes, NEW i \in 1 .. Slots, IsEntry(content'[d][i])
        PROVE  \/ content'[d][i].name \in Names /\ content'[d][i].start \in Clusters
               \/ d # Root /\ content'[d][i].name \in {".", ".."}
    BY <1>3, <1>6, <1>7, <2>1 DEF EntriesSound
  <2> QED BY <2>1 DEF EntriesSound, IsEntry
<1>9. ASSUME NEW d \in Homes
      PROVE  /\ \A i : i \in Below(d)' <=> i \in Below(d) /\ <<d, i>> # <<dir, slot>>
             /\ \A i : i \in Counted(d)' <=> i \in Counted(d) /\ <<d, i>> # <<dir, slot>>
             /\ \A i \in Counted(d)' : content'[d][i] = content[d][i]
  <2>1. \A i : i \in Below(d)' <=> i \in Below(d) /\ <<d, i>> # <<dir, slot>>
    BY <1>6, <1>7 DEF Below, IsEntry
  <2>2. Counted(d)' = Below(d)'
    BY <1>2 DEF Counted, Hidden, Below
  <2>3. \A i : <<d, i>> # <<dir, slot>> => (i \in Counted(d) <=> i \in Below(d))
    BY DEF Counted, Hidden, dir, slot
  <2>4. \A i \in Counted(d)' : content'[d][i] = content[d][i]
    BY <1>6, <2>1, <2>2 DEF Below
  <2> QED BY <2>1, <2>2, <2>3, <2>4
<1>10. /\ NamedOnce' /\ NamesDiffer' /\ AllLive'
       /\ \A c : HasEntry(c)' <=> HasEntry(c) /\ ~ Dropped(c)
  <2>1. CASE call.op = "remove"
    <3> DEFINE s == content[dir][slot].start
    <3>1. Below(s) = {}
      BY <2>1 DEF IInv, RemoveSound, dir, slot
    <3>2. slot \in Counted(dir)
      BY <1>4, <2>1 DEF Counted, Hidden
    <3>3. \A c : Dropped(c) <=> c = s
      BY <2>1 DEF Dropped, dir, slot
    <3> HIDE DEF s
    <3>4. /\ NamedOnce' /\ NamesDiffer' /\ AllLive'
          /\ \A c : HasEntry(c)' <=> HasEntry(c) /\ c # s
      <4>1. \A d \in Homes : Below(d)' \subseteq Below(d)
        BY <1>9
      <4>2. s = content[dir][slot].start
        BY DEF s
      <4> QED BY <1>3, <1>5, <1>8, <1>9, <3>1, <3>2, <4>1, <4>2, LeafGoes
    <3> QED BY <3>3, <3>4
  <2>2. CASE call.op = "moved"
    <3>1. slot \notin Counted(dir)
      BY <2>2 DEF Counted, Hidden, dir, slot
    <3>2. ASSUME NEW d \in Homes
          PROVE  /\ Counted(d)' = Counted(d)
                 /\ Below(d)' \subseteq Below(d)
                 /\ \A i \in Counted(d) : content'[d][i] = content[d][i]
      <4>1. \A i : i \in Counted(d)' <=> i \in Counted(d)
        BY <1>9, <3>1
      <4>2. Counted(d)' = Counted(d)
        BY <4>1
      <4> QED BY <1>9, <4>2
    <3>3. \A c : ~ Dropped(c)
      BY <2>2 DEF Dropped
    <3> QED BY <1>3, <3>2, <3>3, SameEntriesKeep
  <2> QED BY <1>1, <2>1, <2>2
<1>11. TypeOK'
  BY <1>1, <1>3, <1>6 DEF TypeOK, Homes, Held
<1>12. AddSound' /\ RenameSound' /\ RemoveSound' /\ MovedSound'
  BY <1>2 DEF AddSound, RenameSound, RemoveSound, MovedSound
<1>13. Accounts' /\ SyncedSound'
  <2>1. \A c : ~ Dropped(c)'
    BY <1>2 DEF Dropped
  <2> QED BY <1>1, <1>2, <1>3, <1>10, <2>1 DEF Accounts, SyncedSound, Up
<1>14. IInv'
  BY <1>8, <1>10, <1>11, <1>12, <1>13 DEF IInv
<1> QED BY <1>4, <1>9, <1>14 DEF dir, slot

\* Steps of the FAT alone.
LEMMA FlushKeeps ==
  ASSUME TreeAssumption, IInv, Flush
  PROVE  IInv'
<1>1. /\ power = "on" /\ call = Idle /\ disk' = used /\ synced' = Reached
      /\ UNCHANGED <<content, used, call, power, bad>>
  BY DEF Flush
<1>2. call.op = "none" /\ call'.op = "none" /\ Up
  BY <1>1 DEF Idle, Up
<1>3. /\ EntriesSound' /\ NamedOnce' /\ NamesDiffer' /\ AllLive'
      /\ \A c : HasEntry(c)' <=> HasEntry(c)
  BY <1>1, SameContentKeeps
<1>4. ASSUME NEW c \in Reached PROVE c \in Clusters /\ HasEntry(c)
  <2>1. EntriesSound
    BY DEF IInv
  <2>2. PICK d \in Dirs : \E i \in Below(d) : content[d][i].start = c
    BY <1>4 DEF Reached
  <2>3. d \in Homes /\ Counted(d) = Below(d)
    BY <1>2, <2>1, LiveAndDirs
  <2> QED BY <2>1, <2>2, <2>3, BelowSound DEF HasEntry
<1>5. TypeOK'
  BY <1>1, <1>4 DEF IInv, TypeOK
<1>6. AddSound' /\ RenameSound' /\ RemoveSound' /\ MovedSound'
  BY <1>2 DEF AddSound, RenameSound, RemoveSound, MovedSound
<1>7. Accounts' /\ SyncedSound'
  BY <1>1, <1>2, <1>3, <1>4 DEF IInv, Accounts, SyncedSound, Dropped, Up
<1> QED BY <1>3, <1>5, <1>6, <1>7 DEF IInv

\* The slots and the call stay as they are.
LEMMA SameCallKeeps ==
  ASSUME IInv, content' = content, call' = call
  PROVE  /\ EntriesSound' /\ NamedOnce' /\ NamesDiffer' /\ AllLive'
         /\ \A c : HasEntry(c)' <=> HasEntry(c)
         /\ AddSound' /\ RenameSound' /\ RemoveSound' /\ MovedSound'
<1>1. /\ EntriesSound' /\ NamedOnce' /\ NamesDiffer' /\ AllLive'
      /\ Step' = Step /\ Live' = Live
      /\ \A c : HasEntry(c)' <=> HasEntry(c)
      /\ \A d : Below(d)' = Below(d)
      /\ \A d, n : Exists(d, n)' <=> Exists(d, n)
  BY SameContentKeeps
<1>2. AddSound'
  BY <1>1 DEF IInv, AddSound, HasEntry, Exists, Named
<1>3. RenameSound'
  BY <1>1 DEF IInv, RenameSound, Exists, Named, Below, Reach, Onward
<1>4. RemoveSound'
  BY DEF IInv, RemoveSound, Below
<1>5. MovedSound'
  BY <1>1 DEF IInv, MovedSound, HasEntry, Below
<1> QED BY <1>1, <1>2, <1>3, <1>4, <1>5

LEMMA EvictKeeps ==
  ASSUME IInv, Evict
  PROVE  IInv'
<1>1. /\ power = "on" /\ disk' = used
      /\ UNCHANGED <<content, used, call, power, bad, synced>>
  BY DEF Evict
<1>2. /\ EntriesSound' /\ NamedOnce' /\ NamesDiffer' /\ AllLive'
      /\ \A c : HasEntry(c)' <=> HasEntry(c)
      /\ AddSound' /\ RenameSound' /\ RemoveSound' /\ MovedSound'
  BY <1>1, SameCallKeeps
<1>3. \A c : Dropped(c)' <=> Dropped(c)
  BY <1>1 DEF Dropped
<1>4. TypeOK' /\ Accounts' /\ SyncedSound'
  BY <1>1, <1>2, <1>3 DEF IInv, TypeOK, Accounts, SyncedSound, Up
<1> QED BY <1>2, <1>4 DEF IInv

LEMMA CrashKeeps ==
  ASSUME IInv, Crash
  PROVE  IInv'
<1>1. /\ power' = "off" /\ used' = disk
      /\ UNCHANGED <<content, disk, call, bad, synced>>
  BY DEF Crash
<1>2. /\ EntriesSound' /\ NamedOnce' /\ NamesDiffer' /\ AllLive'
      /\ \A c : HasEntry(c)' <=> HasEntry(c)
      /\ AddSound' /\ RenameSound' /\ RemoveSound' /\ MovedSound'
  BY <1>1, SameCallKeeps
<1>3. \A c : Dropped(c)' <=> Dropped(c)
  BY <1>1 DEF Dropped
<1>4. TypeOK' /\ Accounts' /\ SyncedSound'
  BY <1>1, <1>2, <1>3 DEF IInv, TypeOK, Accounts, SyncedSound, Up
<1> QED BY <1>2, <1>4 DEF IInv

-----------------------------------------------------------------------------
(* The invariant, and what follows from it.                                *)

LEMMA InitSound ==
  ASSUME TreeAssumption, TagAssumption, Careful, Init
  PROVE  IInv
<1>1. PICK old \in [Clusters -> Bytes] :
        content = [c \in Clusters \cup {Root} |->
                     IF c = Root THEN [i \in 1 .. Slots |-> Empty] ELSE old[c]]
  BY DEF Init
<1>2. ASSUME NEW d \in Homes
      PROVE  /\ content[d] \in [1 .. Slots -> Held]
             /\ \A i \in 1 .. Slots : ~ IsEntry(content[d][i])
  <2>1. CASE d = Root
    <3>1. content[d] = [i \in 1 .. Slots |-> Empty]
      BY <1>1, <2>1 DEF Homes
    <3> QED BY <3>1 DEF Held, IsEntry
  <2>2. CASE d # Root
    <3>1. content[d] = old[d] /\ old[d] \in Bytes
      BY <1>1, <2>2 DEF Homes
    <3> QED BY <3>1, BytesProps
  <2> QED BY <2>1, <2>2
<1>3. \A d \in Homes : Below(d) = {} /\ Counted(d) = {}
  BY <1>2 DEF Below, Counted
<1>4. EntriesSound /\ NamedOnce /\ AllLive /\ NamesDiffer
  BY <1>2, <1>3 DEF EntriesSound, NamedOnce, AllLive, NamesDiffer
<1>5. call.op = "none"
  BY DEF Init, Idle
<1>6. AddSound /\ RenameSound /\ RemoveSound /\ MovedSound
  BY <1>5 DEF AddSound, RenameSound, RemoveSound, MovedSound
<1>7. TypeOK
  <2>1. content \in [Homes -> [1 .. Slots -> Held]]
    BY <1>1, <1>2 DEF Homes
  <2> QED BY <2>1 DEF Init, TypeOK, Homes, Held
<1>8. Accounts /\ SyncedSound
  BY <1>3, <1>5 DEF Init, Accounts, SyncedSound, HasEntry
<1> QED BY <1>4, <1>6, <1>7, <1>8 DEF IInv

LEMMA StepKeeps ==
  ASSUME TreeAssumption, TagAssumption, Careful, IInv, [Next]_vars
  PROVE  IInv'
<1>1. ASSUME NEW d \in Dirs, NEW n \in Names, NEW dir \in BOOLEAN, Make(d, n, dir)
      PROVE  IInv'
  BY <1>1, MakeKeeps
<1>2. ASSUME NEW d \in Dirs, NEW n \in Names, Unlink(d, n) \/ Rmdir(d, n)
      PROVE  IInv'
  BY <1>2, UnlinkKeeps, RmdirKeeps
<1>3. ASSUME NEW t \in Targets, NEW d \in Dirs, NEW n \in Names,
             RenameBegin(d, n, t[1], t[2])
      PROVE  IInv'
  BY <1>3, RenameBeginKeeps
<1>4. ASSUME NEW c \in Clusters, Write(c)
      PROVE  IInv'
  BY <1>4, WriteKeeps
<1>5. CASE AddEntry
  BY <1>5, AddEntryKeeps
<1>6. CASE Undo
  BY <1>6, UndoKeeps
<1>7. CASE RemoveEntry
  BY <1>7, RemoveEntryKeeps
<1>8. CASE RenameAdd
  BY <1>8, RenameAddKeeps, RenameFailsKeeps
<1>9. CASE Flush \/ Evict \/ Crash
  BY <1>9, FlushKeeps, EvictKeeps, CrashKeeps
<1>10. CASE UNCHANGED vars
  <2>1. UNCHANGED <<content, used, disk, call, bad, power, synced>>
    BY <1>10 DEF vars
  <2>2. /\ EntriesSound' /\ NamedOnce' /\ NamesDiffer' /\ AllLive'
        /\ \A c : HasEntry(c)' <=> HasEntry(c)
        /\ AddSound' /\ RenameSound' /\ RemoveSound' /\ MovedSound'
    BY <2>1, SameCallKeeps
  <2>3. \A c : Dropped(c)' <=> Dropped(c)
    BY <2>1 DEF Dropped
  <2>4. TypeOK' /\ Accounts' /\ SyncedSound'
    BY <2>1, <2>2, <2>3 DEF IInv, TypeOK, Accounts, SyncedSound, Up
  <2> QED BY <2>2, <2>4 DEF IInv
<1> QED BY <1>1, <1>2, <1>3, <1>4, <1>5, <1>6, <1>7, <1>8, <1>9, <1>10 DEF Next

\* At every moment, with evictions and losses of power in the middle of a
\* call: a path leads to every entry, no two that count name one cluster, and
\* the FAT has in use what is named or in hand.  The caller may make a name
\* that is taken.  It is so as long as no bytes of a file or of an earlier
\* volume look like an entry: ufs_mkdir leaves them in the new directory.
THEOREM TreeInvariant ==
  ASSUME Careful
  PROVE  Spec => []IInv
<1>1. Init => IInv
  BY InitSound, TreeAssumption, TagAssumption
<1>2. IInv /\ [Next]_vars => IInv'
  BY StepKeeps, TreeAssumption, TagAssumption
<1> QED BY <1>1, <1>2, PTL DEF Spec

\* What everything that is reached amounts to.
LEMMA ReachedIsNamed ==
  ASSUME TreeAssumption, IInv, NEW c
  PROVE  /\ HasEntry(c) => c \in Reached
         /\ call.op # "moved" /\ c \in Reached => HasEntry(c)
<1>1. EntriesSound /\ AllLive
  BY DEF IInv
<1>2. /\ Live \subseteq Dirs /\ Dirs \subseteq Homes
      /\ call.op # "moved" => \A d \in Homes : Counted(d) = Below(d)
  BY <1>1, LiveAndDirs
<1>3. HasEntry(c) => c \in Reached
  <2>1. ASSUME NEW d \in Homes, NEW i \in Counted(d), content[d][i].start = c
        PROVE  c \in Reached
    <3>1. d \in Dirs /\ i \in Below(d)
      BY <1>1, <1>2, CountedLive
    <3> QED BY <2>1, <3>1 DEF Reached
  <2> QED BY <2>1 DEF HasEntry
<1>4. ASSUME call.op # "moved", c \in Reached PROVE HasEntry(c)
  BY <1>2, <1>4 DEF Reached, HasEntry
<1> QED BY <1>3, <1>4

\* UsedOnce for any tree: between calls a cluster is in use if and only if a
\* path leads to it, by one entry, as long as no old bytes look like entries.
THEOREM AlwaysUsedOnce ==
  ASSUME Careful
  PROVE  Spec => []UsedOnce
<1>1. ASSUME IInv PROVE UsedOnce
  <2>1. ASSUME Up, call = Idle PROVE used = Reached
    <3>1. call.op = "none"
      BY <2>1 DEF Idle
    <3>2. \A c : c \in Reached <=> HasEntry(c)
      BY <1>1, <3>1, ReachedIsNamed, TreeAssumption
    <3>3. \A c \in Clusters : c \in used <=> HasEntry(c)
      BY <1>1, <2>1, <3>1 DEF IInv, Accounts, Dropped
    <3>4. used \subseteq Clusters
      BY <1>1 DEF IInv, TypeOK
    <3>5. \A c : HasEntry(c) => c \in Clusters
      BY <1>1, BelowSound, TreeAssumption DEF IInv, HasEntry, Counted
    <3> QED BY <3>2, <3>3, <3>4, <3>5
  <2>2. ASSUME Up, call = Idle, NEW d \in Dirs, NEW e \in Dirs,
               NEW i \in Below(d), NEW j \in Below(e),
               content[d][i].start = content[e][j].start
        PROVE  <<d, i>> = <<e, j>>
    <3>1. call.op # "moved"
      BY <2>2 DEF Idle
    <3>2. d \in Homes /\ e \in Homes /\ i \in Counted(d) /\ j \in Counted(e)
      BY <1>1, <3>1, LiveAndDirs, TreeAssumption DEF IInv
    <3> QED BY <1>1, <2>2, <3>2 DEF IInv, NamedOnce
  <2> QED BY <2>1, <2>2 DEF UsedOnce
<1>2. IInv => UsedOnce
  BY <1>1
<1> QED BY <1>2, TreeInvariant, PTL

\* SyncedSurvives for any tree: what was there at an ufs_fsync and no call has
\* removed since is in use on the device and has an entry that a path leads
\* to, at every moment, whenever the power fails, as long as no old bytes look
\* like entries.
THEOREM SyncedAlwaysSurvives ==
  ASSUME Careful
  PROVE  Spec => []SyncedSurvives
<1>1. IInv => SyncedSurvives
  BY ReachedIsNamed, TreeAssumption DEF IInv, SyncedSound, SyncedSurvives
<1> QED BY <1>1, TreeInvariant, PTL

\* TypeOK for any tree without old entries: every slot is free, skipped or an
\* entry, and the call in hand is one of those the code can be in.
THEOREM TreeTypeOK ==
  ASSUME Careful
  PROVE  Spec => []TypeOK
<1>1. IInv => TypeOK
  BY DEF IInv
<1> QED BY <1>1, TreeInvariant, PTL
-----------------------------------------------------------------------------
(* To a careful caller the volume is a tree of names.                      *)

\* What NameTree has for the entry in slot i of directory d.
Record(d, i) ==
  [node |-> content[d][i].start, parent |-> d, name |-> content[d][i].name,
   kind |-> IF content[d][i].dir THEN "dir" ELSE "file"]

\* The tree has the entries that count, wherever they are.
Listed == \A r : r \in Tree <=> \E d \in Homes : \E i \in Counted(d) : r = Record(d, i)

LEMMA TreeListed ==
  ASSUME TreeAssumption, IInv
  PROVE  Listed
<1>1. EntriesSound /\ AllLive
  BY DEF IInv
<1>2. Live \subseteq Dirs /\ Dirs \subseteq Homes
  BY <1>1, LiveAndDirs
<1>3. \A p : p \in Places <=> \E d \in Homes : \E i \in Counted(d) : p = <<d, i>>
  <2>1. ASSUME NEW d \in Homes, NEW i \in Counted(d) PROVE <<d, i>> \in Places
    <3>1. d \in Dirs
      BY <1>1, <1>2, CountedLive
    <3> QED BY <3>1 DEF Places, Counted
  <2>2. ASSUME NEW p \in Places
        PROVE  \E d \in Homes : \E i \in Counted(d) : p = <<d, i>>
    BY <1>2 DEF Places, Counted
  <2> QED BY <2>1, <2>2
<1> DEFINE rec(p) == [node |-> At(p).start, parent |-> p[1], name |-> At(p).name,
                      kind |-> IF At(p).dir THEN "dir" ELSE "file"]
<1>4. \A d, i : rec(<<d, i>>) = Record(d, i)
  BY DEF At, Record
<1>5. Tree = {rec(p) : p \in Places}
  BY DEF Tree
<1> HIDE DEF rec
<1>6. ASSUME NEW r
      PROVE  r \in Tree <=> \E d \in Homes : \E i \in Counted(d) : r = Record(d, i)
  <2>1. r \in Tree <=> \E p \in Places : r = rec(p)
    BY <1>5
  <2>2. ASSUME NEW p \in Places, r = rec(p)
        PROVE  \E d \in Homes : \E i \in Counted(d) : r = Record(d, i)
    BY <1>3, <1>4, <2>2
  <2>3. ASSUME NEW d \in Homes, NEW i \in Counted(d), r = Record(d, i)
        PROVE  \E p \in Places : r = rec(p)
    <3>1. r = rec(<<d, i>>)
      BY <1>4, <2>3
    <3> QED BY <1>3, <3>1
  <2> QED BY <2>1, <2>2, <2>3
<1> QED BY <1>6 DEF Listed

\* Each entry that counts has a record of its own.
LEMMA RecordsDiffer ==
  ASSUME NamedOnce, NEW d \in Homes, NEW e \in Homes, NEW i \in Counted(d), NEW j \in Counted(e),
         Record(d, i).node = Record(e, j).node
  PROVE  d = e /\ i = j
BY DEF NamedOnce, Record

\* When the entries that count stay, so does the tree.
LEMMA SameTree ==
  ASSUME Listed, Listed', SameEntries
  PROVE  Tree' = Tree
<1>1. ASSUME NEW d \in Homes, NEW i \in Counted(d) PROVE Record(d, i)' = Record(d, i)
  BY DEF SameEntries, Record
<1>2. \A r : r \in Tree' <=> \E d \in Homes : \E i \in Counted(d) : r = Record(d, i)
  BY <1>1 DEF SameEntries, Listed
<1>3. \A r : r \in Tree' <=> r \in Tree
  BY <1>2 DEF Listed
<1> QED BY <1>3

\* A directory that is live, and has no entry of that name, has a place for one.
LEMMA PlaceVacant ==
  ASSUME TreeAssumption, IInv, Listed, NEW p, p.parent \in Live, p.name \in Names,
         ~ Exists(p.parent, p.name)
  PROVE  Promised!Vacant(Tree, p)
<1>1. p.parent = Root \/ \E r \in Tree : r.node = p.parent /\ r.kind = "dir"
  <2>1. ASSUME p.parent # Root
        PROVE  \E r \in Tree : r.node = p.parent /\ r.kind = "dir"
    <3>1. PICK d \in Live : \E i \in Counted(d) :
            content[d][i].start = p.parent /\ content[d][i].dir
      BY <2>1, LiveHasEntry DEF IInv
    <3>2. PICK i \in Counted(d) : content[d][i].start = p.parent /\ content[d][i].dir
      BY <3>1
    <3>3. Record(d, i) \in Tree
      BY DEF Listed, Live, Reach
    <3> QED BY <3>2, <3>3 DEF Record
  <2> QED BY <2>1
<1>2. ASSUME NEW r \in Tree, r.parent = p.parent PROVE r.name # p.name
  <2>0. PICK d \in Homes : \E i \in Counted(d) : r = Record(d, i)
    BY DEF Listed
  <2>1. PICK i \in Counted(d) : r = Record(d, i)
    BY <2>0
  <2>2. d = p.parent /\ r.name = content[d][i].name
    BY <1>2, <2>1 DEF Record
  <2>3. content[d][i].name # p.name
    BY <2>2 DEF Exists, Named, Counted, Below
  <2> QED BY <2>2, <2>3
<1> QED BY <1>1, <1>2 DEF Promised!Vacant
\* A new file or directory is made.
LEMMA AddEntryMakes ==
  ASSUME TreeAssumption, TagAssumption, IInv, Uses = {}, Listed, Listed', AddEntry
  PROVE  Promised!Change(Tree, Tree')
<1>0. PICK to, e, j : to = call.to /\ e = call.entry /\ j = NewSlot
  OBVIOUS
<1> DEFINE p == [node |-> e.start, parent |-> to, name |-> e.name,
                 kind |-> IF e.dir THEN "dir" ELSE "file"]
<1>1. /\ content'[to][j] = e
      /\ \A d \in Homes :
           /\ \A i : i \in Counted(d)' <=> i \in Counted(d) \/ (d = to /\ i = j)
           /\ \A i \in Counted(d) : content'[d][i] = content[d][i]
  BY <1>0, AddEntryKeeps
<1>2. /\ to \in Live /\ e.name \in Names /\ e.start \in Clusters
      /\ ~ HasEntry(e.start) /\ ~ Exists(to, e.name)
  BY <1>0 DEF AddEntry, IInv, AddSound
<1>3. to \in Homes /\ e.name \in Range(Sfn)
  <2>1. call \in Calls /\ call.op = "add"
    BY DEF AddEntry, IInv, TypeOK, Idle
  <2> QED BY <1>0, <1>2, <2>1 DEF Calls, Homes, Entry, TreeAssumption
<1>4. p.node = e.start /\ p.parent = to /\ p.name = e.name
  OBVIOUS
<1>5. p \in Promised!Place
  BY <1>2, <1>3 DEF Promised!Place, Homes
<1>6. Record(to, j)' = p
  BY <1>1 DEF Record
<1> HIDE DEF p
<1>7. ASSUME NEW d \in Homes, NEW i \in Counted(d) PROVE Record(d, i)' = Record(d, i)
  <2>1. content'[d][i] = content[d][i]
    BY <1>1
  <2> QED BY <2>1 DEF Record
<1>8. Tree' = Tree \cup {p}
  <2>1. ASSUME NEW r PROVE r \in Tree' <=> r \in Tree \/ r = p
    <3>1. r \in Tree' <=> \E d \in Homes : \E i \in Counted(d)' : r = Record(d, i)'
      BY DEF Listed
    <3>2. r \in Tree <=> \E d \in Homes : \E i \in Counted(d) : r = Record(d, i)
      BY DEF Listed
    <3>3. ASSUME NEW d \in Homes, NEW i \in Counted(d)'
          PROVE  Record(d, i)' = p \/ (i \in Counted(d) /\ Record(d, i)' = Record(d, i))
      BY <1>1, <1>6, <1>7
    <3>4. \A d \in Homes : \A i \in Counted(d) : i \in Counted(d)' /\ Record(d, i)' = Record(d, i)
      BY <1>1, <1>7
    <3>5. j \in Counted(to)'
      BY <1>1, <1>3
    <3> QED BY <1>3, <1>6, <3>1, <3>2, <3>3, <3>4, <3>5
  <2> QED BY <2>1
<1>9. \A r \in Tree : r.node # p.node
  BY <1>2, <1>4 DEF Listed, Record, HasEntry
<1>10. Promised!Vacant(Tree, p)
  BY <1>2, <1>4, PlaceVacant
<1> QED BY <1>5, <1>8, <1>9, <1>10 DEF Promised!Change, Promised!Make

\* What nothing is below is removed, and nothing else.
LEMMA RemoveEntryDeletes ==
  ASSUME TreeAssumption, TagAssumption, IInv, Listed, Listed', RemoveEntry
  PROVE  Promised!Change(Tree, Tree') \/ Tree' = Tree
<1> DEFINE dir == call.dir
           slot == call.slot
           p == Record(dir, slot)
<1>1. /\ slot \in Below(dir)
      /\ \A d \in Homes :
           /\ \A i : i \in Counted(d)' <=> i \in Counted(d) /\ <<d, i>> # <<dir, slot>>
           /\ \A i \in Counted(d)' : content'[d][i] = content[d][i]
  BY RemoveEntryKeeps
<1>2. /\ call.op \in {"remove", "moved"} /\ dir \in Homes
      /\ call.op = "remove" => Below(content[dir][slot].start) = {}
      /\ call.op = "moved" <=> slot \notin Counted(dir)
  <2>1. call \in Calls /\ call.op \in {"remove", "moved"}
    BY DEF RemoveEntry, IInv, TypeOK, Idle
  <2> QED BY <1>1, <2>1 DEF Calls, Homes, IInv, RemoveSound, Counted, Hidden
<1> HIDE DEF dir, slot
<1>3. CASE call.op = "moved"
  <2>1. slot \notin Counted(dir)
    BY <1>2, <1>3
  <2>2. ASSUME NEW d \in Homes
        PROVE  /\ Counted(d)' = Counted(d)
               /\ \A i \in Counted(d) : content'[d][i] = content[d][i]
    <3>1. \A i : i \in Counted(d)' <=> i \in Counted(d)
      BY <1>1, <2>1
    <3>2. Counted(d)' = Counted(d)
      BY <3>1
    <3> QED BY <1>1, <3>2
  <2>3. SameEntries
    BY <2>2 DEF SameEntries
  <2> QED BY <2>3, SameTree
<1>4. CASE call.op = "remove"
  <2>1. slot \in Counted(dir)
    BY <1>2, <1>4
  <2>2. p \in Tree /\ p.node = content[dir][slot].start
    BY <1>2, <2>1 DEF Listed, Record
  <2>3. ASSUME NEW d \in Homes, NEW i \in Counted(d)
        PROVE  Record(d, i) = p <=> <<d, i>> = <<dir, slot>>
    BY <1>2, <2>1, RecordsDiffer DEF IInv
  <2> HIDE DEF p
  <2>4. ASSUME NEW d \in Homes, NEW i \in Counted(d)' PROVE Record(d, i)' = Record(d, i)
    BY <1>1 DEF Record
  <2>5. Tree' = Tree \ {p}
    <3>1. ASSUME NEW r PROVE r \in Tree' <=> r \in Tree /\ r # p
      <4>1. r \in Tree' <=> \E d \in Homes : \E i \in Counted(d)' : r = Record(d, i)'
        BY DEF Listed
      <4>2. r \in Tree <=> \E d \in Homes : \E i \in Counted(d) : r = Record(d, i)
        BY DEF Listed
      <4> QED BY <1>1, <2>3, <2>4, <4>1, <4>2
    <3> QED BY <3>1
  <2>6. Promised!IsLeaf(Tree, p)
    <3>1. ASSUME NEW d \in Homes, NEW i \in Counted(d) PROVE Record(d, i).parent # p.node
      BY <1>2, <1>4, <2>2, <3>1 DEF Record, Counted
    <3> QED BY <3>1 DEF Listed, Promised!IsLeaf
  <2> QED BY <2>2, <2>5, <2>6 DEF Promised!Change, Promised!Delete
<1> QED BY <1>2, <1>3, <1>4

\* A live directory that is not below s is not in what NameTree has below s:
\* that is no more than what is reached from s, and what nothing is below.
LEMMA NotInSubtree ==
  ASSUME TreeAssumption, IInv, Listed, NEW d \in Homes, NEW i \in Counted(d),
         NEW to \in Live,
         content[d][i].dir => to \notin Reach(Step, content[d][i].start)
  PROVE  to \notin Promised!Subtree(Tree, content[d][i].start)
<1> DEFINE s == content[d][i].start
           F == {c \in Clusters : c \notin Live}
           S == F \cup {c \in Reach(Step, s) \cap Clusters : content[d][i].dir}
<1>1. EntriesSound /\ NamedOnce /\ AllLive
  BY DEF IInv
<1>2. s \in Clusters /\ s \in Homes
  BY <1>1, BelowSound DEF Counted, Homes
<1>3. /\ s \in Reach(Step, s) /\ Onward(Step, Reach(Step, s))
      /\ \A e \in Homes : Step[e] \subseteq Clusters
  BY <1>1, <1>2, StepsTyped, ReachProps
<1>4. \* a file has nothing below it
      ASSUME NEW e \in Homes, NEW j \in Counted(e), ~ content[e][j].dir
      PROVE  content[e][j].start \in F
  <2>1. content[e][j].start \in Clusters
    BY <1>1, BelowSound DEF Counted
  <2>2. ~ \E a \in Homes : \E k \in Counted(a) :
            content[a][k].start = content[e][j].start /\ content[a][k].dir
    BY <1>1, <1>4 DEF NamedOnce
  <2> QED BY <1>1, <2>1, <2>2, NothingBelow
<1>5. s \in S
  BY <1>2, <1>3, <1>4
<1>6. to \notin S
  OBVIOUS
<1>7. ASSUME NEW r \in Tree, r.parent \in S PROVE r.node \in S
  <2>1. PICK e \in Homes : \E j \in Counted(e) : r = Record(e, j)
    BY DEF Listed
  <2>2. PICK j \in Counted(e) : r = Record(e, j)
    BY <2>1
  <2>3. r.parent = e /\ r.node = content[e][j].start
    BY <2>2 DEF Record
  <2>4. e \in Live
    BY <1>1, CountedLive
  <2>5. e \in Reach(Step, s) /\ content[d][i].dir
    BY <1>7, <2>3, <2>4
  <2>6. CASE content[e][j].dir
    <3>1. r.node \in Step[e]
      BY <2>3, <2>6 DEF Step
    <3> QED BY <1>3, <2>5, <3>1 DEF Onward
  <2>7. CASE ~ content[e][j].dir
    BY <1>4, <2>3, <2>7
  <2> QED BY <2>6, <2>7
<1>8. S \in SUBSET Clusters
  OBVIOUS
<1> HIDE DEF S
<1> QED BY <1>5, <1>6, <1>7, <1>8 DEF Promised!Subtree

\* A file or directory is moved, not into what is below it.
LEMMA RenameAddMoves ==
  ASSUME TreeAssumption, TagAssumption, IInv, Listed, Listed',
         RenameAdd, Room(call.to) # {}
  PROVE  Promised!Change(Tree, Tree')
<1>0. PICK to, e, j, dir, slot :
        to = call.to /\ e = call.entry /\ j = NewSlot /\ dir = call.dir /\ slot = call.slot
  OBVIOUS
<1> DEFINE p == [node |-> content[dir][slot].start, parent |-> dir,
                 name |-> content[dir][slot].name,
                 kind |-> IF content[dir][slot].dir THEN "dir" ELSE "file"]
           q == [node |-> e.start, parent |-> to, name |-> e.name,
                 kind |-> IF e.dir THEN "dir" ELSE "file"]
<1>1. /\ content'[to][j] = e
      /\ slot \in Counted(dir)
      /\ \A d \in Homes :
           /\ \A i : i \in Counted(d)' <=>
                       \/ i \in Counted(d) /\ <<d, i>> # <<dir, slot>>
                       \/ d = to /\ i = j
           /\ \A i \in Counted(d) : content'[d][i] = content[d][i]
  BY <1>0, RenameAddKeeps
<1>2. /\ to \in Live /\ e.name \in Names /\ ~ Exists(to, e.name)
      /\ e.start = content[dir][slot].start /\ e.dir = content[dir][slot].dir
      /\ e.dir => to \notin Reach(Step, e.start)
  BY <1>0 DEF RenameAdd, IInv, RenameSound
<1>3. to \in Homes /\ dir \in Homes /\ e.name \in Range(Sfn)
  <2>1. call \in Calls /\ call.op = "rename"
    BY DEF RenameAdd, IInv, TypeOK, Idle
  <2> QED BY <1>0, <1>2, <2>1 DEF Calls, Homes, Entry, TreeAssumption
<1>4. /\ p = Record(dir, slot) /\ q = Record(to, j)'
      /\ p.node = e.start /\ q.node = e.start /\ p.kind = q.kind
      /\ q.parent = to /\ q.name = e.name
  BY <1>1, <1>2 DEF Record
<1>5. e.start \in Clusters
  BY <1>1, <1>2, <1>3, BelowSound DEF IInv, Counted
<1>6. q \in Promised!Place
  BY <1>3, <1>5 DEF Promised!Place, Homes
<1> HIDE DEF p, q
<1>7. ASSUME NEW d \in Homes, NEW i \in Counted(d) PROVE Record(d, i)' = Record(d, i)
  <2>1. content'[d][i] = content[d][i]
    BY <1>1
  <2> QED BY <2>1 DEF Record
<1>8. p \in Tree
  BY <1>1, <1>3, <1>4 DEF Listed
<1>9. \A r \in Tree : r.parent = to => r.name # e.name
  <2>1. Promised!Vacant(Tree, q)
    BY <1>2, <1>4, PlaceVacant
  <2> QED BY <1>4, <2>1 DEF Promised!Vacant
<1>10. q \notin Tree /\ q # p
  BY <1>4, <1>8, <1>9
<1>11. ASSUME NEW d \in Homes, NEW i \in Counted(d)
       PROVE  Record(d, i) = p <=> <<d, i>> = <<dir, slot>>
  BY <1>1, <1>3, <1>4, RecordsDiffer DEF IInv
<1>12. Tree' = (Tree \ {p}) \cup {q}
  <2>1. ASSUME NEW r PROVE r \in Tree' <=> (r \in Tree /\ r # p) \/ r = q
    <3>1. r \in Tree' <=> \E d \in Homes : \E i \in Counted(d)' : r = Record(d, i)'
      BY DEF Listed
    <3>2. r \in Tree <=> \E d \in Homes : \E i \in Counted(d) : r = Record(d, i)
      BY DEF Listed
    <3>3. ASSUME NEW d \in Homes, NEW i \in Counted(d)'
          PROVE  \/ Record(d, i)' = q
                 \/ /\ i \in Counted(d) /\ <<d, i>> # <<dir, slot>>
                    /\ Record(d, i)' = Record(d, i)
      BY <1>1, <1>4, <1>7
    <3>4. ASSUME NEW d \in Homes, NEW i \in Counted(d), <<d, i>> # <<dir, slot>>
          PROVE  i \in Counted(d)' /\ Record(d, i)' = Record(d, i)
      BY <1>1, <1>7, <3>4
    <3>5. j \in Counted(to)'
      BY <1>1, <1>3
    <3>6. r \in Tree' => (r \in Tree /\ r # p) \/ r = q
      BY <1>11, <3>1, <3>2, <3>3
    <3>7. r \in Tree /\ r # p => r \in Tree'
      BY <1>11, <3>1, <3>2, <3>4
    <3>8. r = q => r \in Tree'
      BY <1>3, <1>4, <3>1, <3>5
    <3> QED BY <3>6, <3>7, <3>8
  <2> QED BY <2>1
<1>13. q.parent \notin Promised!Subtree(Tree, p.node)
  BY <1>1, <1>2, <1>3, <1>4, NotInSubtree
<1>14. Promised!Vacant(Tree, q)
  BY <1>2, <1>4, PlaceVacant
<1>15. Promised!Move(Tree, Tree', p, q)
  BY <1>4, <1>12, <1>13, <1>14 DEF Promised!Move
<1> QED BY <1>6, <1>8, <1>10, <1>12, <1>15 DEF Promised!Change

\* Every step changes the tree as NameTree says, or not at all.
LEMMA StepChanges ==
  ASSUME TreeAssumption, TagAssumption, Uses = {}, NoOldEntries,
         IInv, IInv', Listed, Listed', [Next]_vars
  PROVE  Promised!Change(Tree, Tree') \/ Tree' = Tree
<1>0. Careful
  BY DEF Careful
<1>1. ASSUME NEW d \in Dirs, NEW n \in Names, NEW dir \in BOOLEAN, Make(d, n, dir)
      PROVE  Tree' = Tree
  BY <1>1, MakeKeeps, SameTree
<1>2. ASSUME UNCHANGED content, call.op # "moved", call'.op # "moved"
      PROVE  Tree' = Tree
  <2>1. SameEntries
    BY <1>2 DEF SameEntries, Counted, Below, Hidden
  <2> QED BY <2>1, SameTree
<1>3. ASSUME NEW d \in Dirs, NEW n \in Names, Unlink(d, n) \/ Rmdir(d, n)
      PROVE  Tree' = Tree
  <2>1. UNCHANGED content /\ call.op # "moved" /\ call'.op # "moved"
    BY <1>3 DEF Unlink, Rmdir, Drop, Idle
  <2> QED BY <1>2, <2>1
<1>4. ASSUME NEW t \in Targets, NEW d \in Dirs, NEW n \in Names,
             RenameBegin(d, n, t[1], t[2])
      PROVE  Tree' = Tree
  <2>1. UNCHANGED content /\ call.op = "none" /\ call'.op = "rename"
    BY <1>0, <1>4, RenameBeginKeeps
  <2> QED BY <1>2, <2>1
<1>5. ASSUME NEW c \in Clusters, Write(c)
      PROVE  Tree' = Tree
  BY <1>0, <1>5, WriteKeeps, SameTree
<1>6. CASE AddEntry
  BY <1>6, AddEntryMakes
<1>7. CASE Undo
  <2>1. UNCHANGED content /\ call.op # "moved" /\ call'.op # "moved"
    BY <1>7 DEF Undo, Idle
  <2> QED BY <1>2, <2>1
<1>8. CASE RemoveEntry
  BY <1>8, RemoveEntryDeletes
<1>9. CASE RenameAdd
  <2>1. CASE Room(call.to) # {}
    BY <1>9, <2>1, RenameAddMoves
  <2>2. CASE Room(call.to) = {}
    <3>1. UNCHANGED content /\ call.op # "moved" /\ call'.op # "moved"
      BY <1>9, <2>2, RenameFailsKeeps
    <3> QED BY <1>2, <3>1
  <2> QED BY <2>1, <2>2
<1>10. CASE Flush \/ Evict \/ Crash \/ UNCHANGED vars
  <2>1. UNCHANGED <<content, call>>
    BY <1>10 DEF Flush, Evict, Crash, vars
  <2>2. SameEntries
    BY <2>1 DEF SameEntries, Counted, Below, Hidden
  <2> QED BY <2>2, SameTree
<1> QED BY <1>1, <1>3, <1>4, <1>5, <1>6, <1>7, <1>8, <1>9, <1>10 DEF Next

\* ImplementsNameTree for any tree: to a caller who makes no name twice, what
\* paths lead to changes by making, deleting and moving as NameTree has it,
\* and by nothing else, whatever is cut off in the middle.  Without old
\* entries, which a ufs_mkdir would bring into the tree.
THEOREM AlwaysANameTree ==
  ASSUME Uses = {}, NoOldEntries
  PROVE  Spec => ImplementsNameTree
<1>1. Careful
  BY DEF Careful
<1>2. Spec => []IInv
  BY <1>1, TreeInvariant
<1>3. IInv => Listed
  BY TreeListed, TreeAssumption
<1>4. Init => Promised!Init
  <2>1. ASSUME Init PROVE Tree = {}
    <3>1. IInv /\ Listed
      BY <1>1, <2>1, InitSound, TreeListed, TreeAssumption, TagAssumption
    <3>2. PICK old \in [Clusters -> Bytes] :
            content = [c \in Clusters \cup {Root} |->
                         IF c = Root THEN [i \in 1 .. Slots |-> Empty] ELSE old[c]]
      BY <2>1 DEF Init
    <3>3. ASSUME NEW d \in Homes PROVE Counted(d) = {}
      <4>1. \A i \in 1 .. Slots : ~ IsEntry(content[d][i])
        <5>1. CASE d = Root
          BY <3>2, <5>1 DEF Homes, IsEntry
        <5>2. CASE d # Root
          <6>1. content[d] = old[d] /\ old[d] \in Bytes
            BY <3>2, <5>2 DEF Homes
          <6> QED BY <1>1, <6>1, BytesProps
        <5> QED BY <5>1, <5>2
      <4> QED BY <4>1 DEF Counted, Below
    <3> QED BY <3>1, <3>3 DEF Listed
  <2> QED BY <2>1 DEF Promised!Init
<1>5. IInv /\ IInv' /\ Listed /\ Listed' /\ [Next]_vars => [Promised!Next]_Tree
  BY StepChanges, TreeAssumption, TagAssumption DEF Promised!Next
<1>6. Spec => Promised!Spec
  BY <1>2, <1>3, <1>4, <1>5, PTL DEF Spec, Promised!Spec
<1> QED BY <1>6 DEF ImplementsNameTree

-----------------------------------------------------------------------------
(* Paths lead to what they mean.                                           *)

\* Induction up to n, over a set.
LEMMA UpTo ==
  ASSUME NEW n \in Nat, NEW S, 0 \in S, \A k \in 1 .. n : k - 1 \in S => k \in S
  PROVE  \A k \in 0 .. n : k \in S
<1> DEFINE Rest == (0 .. n) \ S
<1>1. ASSUME Rest # {} PROVE FALSE
  <2>1. Rest \in SUBSET Nat
    OBVIOUS
  <2>2. Min(Rest) \in Rest /\ \A k \in Rest : Min(Rest) <= k
    BY <1>1, <2>1, MinLeast
  <2> DEFINE m == Min(Rest)
  <2>3. m \in 1 .. n /\ m \notin S
    BY <2>2
  <2> HIDE DEF m
  <2>4. m - 1 \in S
    BY <2>2, <2>3 DEF m
  <2> QED BY <2>3, <2>4
<1> QED BY <1>1

\* What the turns of a loop over n tokens do to what is in V.
Loops(n, V) == [1 .. n -> [V -> V]]

\* A loop has values.
LEMMA LoopRuns ==
  ASSUME NEW V, NEW s \in V, NEW n \in Nat, NEW turn \in Loops(n, V)
  PROVE  \E f \in [0 .. n -> V] : f[0] = s /\ \A k \in 1 .. n : f[k] = turn[k][f[k - 1]]
<1> USE DEF Loops
<1> DEFINE Runs(f, m) == f[0] = s /\ \A k \in 1 .. m : f[k] = turn[k][f[k - 1]]
           S == {m \in 0 .. n : \E f \in [0 .. m -> V] : Runs(f, m)}
<1>1. 0 \in S
  <2> DEFINE f == [k \in 0 .. 0 |-> s]
  <2>1. f \in [0 .. 0 -> V] /\ f[0] = s
    OBVIOUS
  <2> HIDE DEF f
  <2> QED BY <2>1
<1>2. ASSUME NEW m \in 1 .. n, m - 1 \in S PROVE m \in S
  <2>1. PICK f \in [0 .. m - 1 -> V] : Runs(f, m - 1)
    BY <1>2
  <2> DEFINE g == [k \in 0 .. m |-> IF k = m THEN turn[m][f[m - 1]] ELSE f[k]]
  <2>2. turn[m] \in [V -> V] /\ f[m - 1] \in V
    BY <2>1
  <2>3. g \in [0 .. m -> V]
    BY <2>1, <2>2
  <2>4. g[0] = s
    BY <2>1
  <2>5. ASSUME NEW k \in 1 .. m PROVE g[k] = turn[k][g[k - 1]]
    <3>1. g[k - 1] = f[k - 1]
      OBVIOUS
    <3>2. CASE k = m
      BY <3>1, <3>2
    <3>3. CASE k # m
      <4>1. k \in 1 .. m - 1 /\ g[k] = f[k]
        BY <3>3
      <4> QED BY <2>1, <3>1, <4>1
    <3> QED BY <3>2, <3>3
  <2> HIDE DEF g
  <2>6. Runs(g, m)
    BY <2>4, <2>5
  <2> HIDE DEF Runs
  <2>7. \E h \in [0 .. m -> V] : Runs(h, m)
    BY <2>3, <2>6
  <2> QED BY <2>7
<1> HIDE DEF S
<1>3. \A k \in 0 .. n : k \in S
  BY <1>1, <1>2, UpTo
<1>4. n \in S
  BY <1>3
<1> QED BY <1>4 DEF S

\* What a component leads to, from an inode the walk can be at, is what it
\* means.
Inodes == {Nothing, RootInode} \cup {Node(r) : r \in Tree}

DotsAreRight == \A r \in Tree : r.kind = "dir" => DotsRight(r)

\* Between calls a search finds what the tree has in the directory.
LEMMA FoundIsChild ==
  ASSUME TreeAssumption, TagAssumption, IInv, Listed, call = Idle,
         "recreate" \notin Uses,
         NEW v, v.start \in Homes, NEW n, n \notin {".", ".."}
  PROVE  Find(v, n) = Child(Tree, v, n) /\ Find(v, n) \in Inodes
<1> DEFINE d == v.start
           found == {r \in Tree : r.parent = d /\ r.name = n}
<1>1. d # NoCluster
  BY DEF Homes, TreeAssumption
<1>2. EntriesSound /\ NamesDiffer /\ call.op # "moved" /\ TypeOK
  BY DEF IInv, Idle
<1>3. \A i : i \in Named(d, n) <=> i \in Counted(d) /\ content[d][i].name = n
  BY <1>2 DEF EntriesSound, Named, Counted, Below, Hidden
<1>4. Child(Tree, v, n) = IF found = {} THEN Nothing ELSE Node(CHOOSE r \in found : TRUE)
  BY DEF Child
<1>5. CASE ~ Exists(d, n)
  <2>1. found = {}
    <3>1. ASSUME NEW r \in found PROVE FALSE
      <4>1. PICK e \in Homes : \E j \in Counted(e) : r = Record(e, j)
        BY DEF Listed
      <4>2. PICK j \in Counted(e) : r = Record(e, j)
        BY <4>1
      <4>3. e = d /\ content[d][j].name = n
        BY <4>2 DEF Record
      <4> QED BY <1>3, <1>5, <4>3 DEF Exists
    <3> QED BY <3>1
  <2>2. Find(v, n) = Nothing
    BY <1>5 DEF Find
  <2> QED BY <1>4, <2>1, <2>2 DEF Inodes
<1>6. CASE Exists(d, n)
  <2>1. PICK i : i = Slot(d, n)
    OBVIOUS
  <2>2. i \in Counted(d) /\ content[d][i].name = n
    <3>1. /\ i \in 1 .. Slots /\ IsEntry(content[d][i])
          /\ content[d][i].name = n
      BY <1>6, <2>1, SlotFound
    <3>2. i \in Named(d, n)
      BY <3>1 DEF Named
    <3> QED BY <1>3, <3>2
  <2>3. PICK r : r = Record(d, i)
    OBVIOUS
  <2>4. r \in Tree /\ r \in found
    BY <2>2, <2>3 DEF Listed, Record
  <2>5. ASSUME NEW q \in found PROVE q = r
    <3>1. PICK e \in Homes : \E j \in Counted(e) : q = Record(e, j)
      BY DEF Listed
    <3>2. PICK j \in Counted(e) : q = Record(e, j)
      BY <3>1
    <3>3. e = d /\ content[d][j].name = n
      BY <3>2 DEF Record
    <3>4. j = i
      BY <1>2, <2>2, <3>2, <3>3 DEF NamesDiffer
    <3> QED BY <2>3, <3>2, <3>3, <3>4
  <2>6. Child(Tree, v, n) = Node(r)
    <3> HIDE DEF found
    <3> QED BY <1>4, <2>4, <2>5
  <2>7. Node(r) = Inode(content[d][i])
    <3>1. content[d][i].dir \in BOOLEAN
      BY <1>2, <2>2 DEF TypeOK, Homes, Counted, Below, IsEntry, Entry
    <3>2. r.node = content[d][i].start /\ (r.kind = "dir") = content[d][i].dir
      BY <2>3, <3>1 DEF Record
    <3> QED BY <3>2 DEF Node, Inode
  <2>8. Find(v, n) = Inode(content[d][i])
    BY <1>1, <1>6, <2>1 DEF Find
  <2> QED BY <2>4, <2>6, <2>7, <2>8 DEF Inodes
<1> QED BY <1>5, <1>6

LEMMA TurnsAgree ==
  ASSUME TreeAssumption, TagAssumption, IInv, Listed, call = Idle,
         "recreate" \notin Uses, DotsAreRight, NEW v \in Inodes, NEW n
  PROVE  P!Descend(v, n) = Turn(Tree, v, n) /\ P!Descend(v, n) \in Inodes
<1>1. EntriesSound /\ NamedOnce /\ AllLive
  BY DEF IInv
<1>2. CASE v = Nothing \/ n \in {"/", "."}
  BY <1>2 DEF P!Descend, Turn
<1>3. CASE ~ (v = Nothing \/ n \in {"/", "."}) /\ ~ v.dir
  BY <1>3 DEF P!Descend, Turn, IsDir, Inodes
<1>4. CASE ~ (v = Nothing \/ n \in {"/", "."}) /\ v.dir
  <2>1. P!Descend(v, n) = Find(v, n)
    BY <1>4 DEF P!Descend, IsDir
  <2>2. v = RootInode \/ \E d \in Homes : \E i \in Counted(d) : v = Node(Record(d, i))
    BY <1>4 DEF Inodes, Listed
  <2>3. v.start \in Homes
    <3>1. CASE v = RootInode
      BY <3>1 DEF RootInode, Homes
    <3>2. ASSUME NEW d \in Homes, NEW i \in Counted(d), v = Node(Record(d, i))
          PROVE  v.start \in Clusters
      BY <1>1, <3>2, BelowSound DEF Node, Record, Counted
    <3> QED BY <2>2, <3>1, <3>2 DEF Homes
  <2>4. CASE n # ".."
    <3>1. Turn(Tree, v, n) = Child(Tree, v, n)
      BY <1>4, <2>4 DEF Turn
    <3> QED BY <1>4, <2>1, <2>3, <2>4, <3>1, FoundIsChild
  <2>5. CASE n = ".." /\ v = RootInode
    <3>1. Turn(Tree, v, n) = Nothing
      BY <1>4, <2>5 DEF Turn
    <3>2. ~ Exists(Root, "..")
      BY <1>1 DEF EntriesSound, Exists, Named, Homes, TreeAssumption
    <3>3. Find(v, n) = Nothing
      BY <2>5, <3>2 DEF Find, RootInode
    <3> QED BY <2>1, <3>1, <3>3 DEF Inodes
  <2>6. CASE n = ".." /\ v # RootInode
    <3>1. PICK d \in Homes : \E i \in Counted(d) : v = Node(Record(d, i))
      BY <2>2, <2>6
    <3>2. PICK i \in Counted(d) : v = Node(Record(d, i))
      BY <3>1
    <3>3. PICK r : r = Record(d, i)
      OBVIOUS
    <3>4. /\ r \in Tree /\ v = Node(r) /\ v.start = r.node
          /\ r.kind = "dir" /\ r.parent = d
      BY <1>4, <3>2, <3>3 DEF Listed, Node, Record
    <3>5. Find(v, n) = [start |-> d, dir |-> TRUE]
      BY <2>6, <3>4 DEF DotsAreRight, DotsRight
    <3>6. ASSUME NEW q \in Tree, q.node = v.start PROVE q = r
      <4>1. PICK e \in Homes : \E j \in Counted(e) : q = Record(e, j)
        BY DEF Listed
      <4>2. PICK j \in Counted(e) : q = Record(e, j)
        BY <4>1
      <4>3. e = d /\ j = i
        BY <1>1, <3>3, <3>4, <3>6, <4>2, RecordsDiffer
      <4> QED BY <3>3, <4>2, <4>3
    <3>7. (CHOOSE q \in Tree : q.node = v.start) = r
      BY <3>4, <3>6
    <3>8. Turn(Tree, v, n) = [start |-> d, dir |-> TRUE]
      BY <1>4, <2>6, <3>4, <3>7 DEF Turn, Parent
    <3>9. [start |-> d, dir |-> TRUE] \in Inodes
      <4>1. CASE d = Root
        BY <4>1 DEF Inodes, RootInode
      <4>2. CASE d # Root
        <5>1. d \in Live
          BY <1>1, CountedLive
        <5>2. PICK e \in Live : \E j \in Counted(e) :
                content[e][j].start = d /\ content[e][j].dir
          BY <1>1, <4>2, <5>1, LiveHasEntry
        <5>3. PICK j \in Counted(e) : content[e][j].start = d /\ content[e][j].dir
          BY <5>2
        <5>4. PICK q : q = Record(e, j)
          OBVIOUS
        <5>5. q \in Tree /\ q.node = d /\ q.kind = "dir"
          BY <5>3, <5>4 DEF Listed, Record, Live, Reach
        <5>6. Node(q) = [start |-> d, dir |-> TRUE]
          BY <5>5 DEF Node
        <5> QED BY <5>5, <5>6 DEF Inodes
      <4> QED BY <4>1, <4>2
    <3> QED BY <2>1, <3>5, <3>8, <3>9
  <2> QED BY <2>4, <2>5, <2>6
<1> QED BY <1>2, <1>3, <1>4

\* Between calls, with the dots of every directory as they should be.
Settled ==
  /\ IInv /\ Listed /\ call = Idle /\ "recreate" \notin Uses
  /\ DotsAreRight

\* The loops of the walk and of the meaning have values, those of the tree.
LEMMA LoopsRun ==
  ASSUME TreeAssumption, TagAssumption, Settled, NEW path, NEW T, path \in Seq(T)
  PROVE  \E f \in [0 .. Len(path) -> Inodes] :
           /\ f = [k \in 0 .. Len(path) |->
                     IF k = 0 THEN RootInode ELSE P!Descend(f[k - 1], path[k])]
           /\ f = [k \in 0 .. Len(path) |->
                     IF k = 0 THEN RootInode ELSE Turn(Tree, f[k - 1], path[k])]
<1> DEFINE n == Len(path)
           turn == [k \in 1 .. n |-> [v \in Inodes |-> P!Descend(v, path[k])]]
<1>1. \A v \in Inodes : \A t : P!Descend(v, t) = Turn(Tree, v, t) /\ P!Descend(v, t) \in Inodes
  BY TurnsAgree DEF Settled
<1>2. n \in Nat /\ RootInode \in Inodes
  BY DEF Inodes
<1>3. turn \in Loops(n, Inodes)
  BY <1>1 DEF Loops
<1>4. \A k \in 1 .. n : \A v \in Inodes : turn[k][v] = P!Descend(v, path[k])
  OBVIOUS
<1> HIDE DEF turn, n
<1>5. PICK f \in [0 .. n -> Inodes] :
        f[0] = RootInode /\ \A k \in 1 .. n : f[k] = turn[k][f[k - 1]]
  BY <1>2, <1>3, LoopRuns
<1>6. ASSUME NEW k \in 0 .. n, k # 0
      PROVE  f[k] = P!Descend(f[k - 1], path[k]) /\ f[k] = Turn(Tree, f[k - 1], path[k])
  <2>1. k \in 1 .. n /\ k - 1 \in 0 .. n
    BY <1>2, <1>6
  <2>2. f[k - 1] \in Inodes
    BY <2>1
  <2>3. f[k] = P!Descend(f[k - 1], path[k])
    BY <1>4, <1>5, <2>1, <2>2
  <2> QED BY <1>1, <2>2, <2>3
<1>7. f = [k \in 0 .. n |-> IF k = 0 THEN RootInode ELSE P!Descend(f[k - 1], path[k])]
  BY <1>5, <1>6
<1>8. f = [k \in 0 .. n |-> IF k = 0 THEN RootInode ELSE Turn(Tree, f[k - 1], path[k])]
  BY <1>5, <1>6
<1> QED BY <1>7, <1>8 DEF n

\* Where the walk is after each token.
LEMMA VisitedRuns ==
  ASSUME TreeAssumption, TagAssumption, Settled, NEW path, NEW T, path \in Seq(T)
  PROVE  /\ P!Visited(path)[0] = RootInode
         /\ \A k \in 1 .. Len(path) :
              P!Visited(path)[k] = P!Descend(P!Visited(path)[k - 1], path[k])
         /\ \A k \in 0 .. Len(path) : P!Visited(path)[k] \in Inodes
<1> DEFINE Is(f) == f = [k \in 0 .. Len(path) |->
                           IF k = 0 THEN RootInode ELSE P!Descend(f[k - 1], path[k])]
           at == P!Visited(path)
<1>0. Len(path) \in Nat
  OBVIOUS
<1>1. \E f : Is(f)
  BY LoopsRun
<1>2. at = CHOOSE f : Is(f)
  BY DEF P!Visited
<1> HIDE DEF at, Is
<1>3. Is(at)
  BY <1>1, <1>2
<1>4. at[0] = RootInode /\ \A k \in 1 .. Len(path) : at[k] = P!Descend(at[k - 1], path[k])
  <2>1. Len(path) \in Nat
    OBVIOUS
  <2>2. at = [k \in 0 .. Len(path) |->
                IF k = 0 THEN RootInode ELSE P!Descend(at[k - 1], path[k])]
    BY <1>3 DEF Is
  <2>3. at[0] = RootInode
    BY <2>1, <2>2
  <2>4. ASSUME NEW k \in 1 .. Len(path) PROVE at[k] = P!Descend(at[k - 1], path[k])
    <3>1. k \in 0 .. Len(path) /\ k # 0
      BY <2>1
    <3> QED BY <2>2, <3>1
  <2> QED BY <2>3, <2>4
<1>5. \A k \in 0 .. Len(path) : at[k] \in Inodes
  <2> DEFINE S == {k \in 0 .. Len(path) : at[k] \in Inodes}
  <2>1. 0 \in S
    BY <1>4 DEF Inodes
  <2>2. ASSUME NEW k \in 1 .. Len(path), k - 1 \in S PROVE k \in S
    <3>1. P!Descend(at[k - 1], path[k]) \in Inodes
      BY <2>2, TurnsAgree DEF Settled
    <3> QED BY <1>4, <3>1
  <2> HIDE DEF S
  <2>3. \A k \in 0 .. Len(path) : k \in S
    BY <1>0, <2>1, <2>2, UpTo
  <2> QED BY <2>3 DEF S
<1> QED BY <1>4, <1>5 DEF at

\* Slashes at the beginning leave the walk at the root.
LEMMA SlashesStay ==
  ASSUME TreeAssumption, TagAssumption, Settled, NEW path, NEW T, path \in Seq(T),
         NEW m \in 0 .. Len(path), \A k \in 1 .. m : path[k] = "/"
  PROVE  \A k \in 0 .. m : P!Visited(path)[k] = RootInode
<1> DEFINE at == P!Visited(path)
           S == {k \in 0 .. m : at[k] = RootInode}
<1>1. /\ at[0] = RootInode
      /\ \A k \in 1 .. Len(path) : at[k] = P!Descend(at[k - 1], path[k])
  BY VisitedRuns
<1> HIDE DEF at
<1>2. m \in Nat /\ 0 \in S
  BY <1>1
<1>3. ASSUME NEW k \in 1 .. m, k - 1 \in S PROVE k \in S
  <2>1. at[k] = P!Descend(at[k - 1], "/")
    BY <1>1
  <2> QED BY <1>3, <2>1 DEF P!Descend
<1> HIDE DEF S
<1>4. \A k \in 0 .. m : k \in S
  BY <1>2, <1>3, UpTo
<1> QED BY <1>4 DEF S, at

\* The walk comes to what the path means.
LEMMA WalkMeans ==
  ASSUME TreeAssumption, TagAssumption, Settled, NEW path, NEW T, path \in Seq(T)
  PROVE  P!Walk(path) = Meaning(Tree, path)
<1> DEFINE n == Len(path)
           at == P!Visited(path)
           Is(f) == f = [k \in 0 .. Len(path) |->
                           IF k = 0 THEN RootInode ELSE Turn(Tree, f[k - 1], path[k])]
           mean == CHOOSE f : Is(f)
           S == {k \in 0 .. n : at[k] = mean[k]}
<1>0. n \in Nat
  OBVIOUS
<1>1. \E f : Is(f)
  BY LoopsRun
<1>2. Is(mean)
  BY <1>1
<1>3. Meaning(Tree, path) =
        IF path # << >> /\ Last(path) = "/" /\ mean[n] # Nothing /\ ~ mean[n].dir
        THEN Nothing ELSE mean[n]
  BY DEF Meaning
<1>4. P!Walk(path) =
        IF at[n] # Nothing /\ P!MustBeDir(path) /\ ~ IsDir(at[n]) THEN Nothing ELSE at[n]
  BY DEF P!Walk
<1>5. /\ at[0] = RootInode
      /\ \A k \in 1 .. n : at[k] = P!Descend(at[k - 1], path[k])
      /\ \A k \in 0 .. n : at[k] \in Inodes
  BY VisitedRuns
<1> HIDE DEF mean, at
<1>6. mean[0] = RootInode /\ \A k \in 1 .. n : mean[k] = Turn(Tree, mean[k - 1], path[k])
  <2>1. mean = [k \in 0 .. n |-> IF k = 0 THEN RootInode ELSE Turn(Tree, mean[k - 1], path[k])]
    BY <1>2
  <2>2. ASSUME NEW k \in 1 .. n PROVE mean[k] = Turn(Tree, mean[k - 1], path[k])
    <3>1. k \in 0 .. n /\ k # 0
      BY <1>0
    <3> QED BY <2>1, <3>1
  <2> QED BY <1>0, <2>1, <2>2
<1>7. at[n] = mean[n]
  <2>1. 0 \in S
    BY <1>0, <1>5, <1>6
  <2>2. ASSUME NEW k \in 1 .. n, k - 1 \in S PROVE k \in S
    <3>1. at[k - 1] \in Inodes /\ at[k - 1] = mean[k - 1] /\ k \in 0 .. n
      BY <1>0, <1>5, <2>2
    <3>2. P!Descend(at[k - 1], path[k]) = Turn(Tree, at[k - 1], path[k])
      BY <3>1, TurnsAgree DEF Settled
    <3> QED BY <1>5, <1>6, <3>1, <3>2
  <2> HIDE DEF S, n
  <2>3. \A k \in 0 .. n : k \in S
    BY <1>0, <2>1, <2>2, UpTo
  <2>4. n \in S
    BY <1>0, <2>3
  <2> QED BY <2>4 DEF S
<1>8. CASE DOMAIN path = P!Slashes(path)
  <2>1. \A k \in 1 .. n : path[k] = "/"
    BY <1>8 DEF P!Slashes
  <2>2. at[n] = RootInode
    BY <1>0, <2>1, SlashesStay DEF at
  <2> QED BY <1>3, <1>4, <1>7, <1>8, <2>2 DEF P!MustBeDir, RootInode
<1>9. CASE DOMAIN path # P!Slashes(path)
  <2>1. path # << >>
    <3>1. PICK k \in DOMAIN path : path[k] # "/"
      BY <1>9 DEF P!Slashes
    <3> QED BY <3>1
  <2>2. P!MustBeDir(path) <=> path # << >> /\ Last(path) = "/"
    BY <1>9, <2>1 DEF P!MustBeDir, P!Last, Last
  <2>3. IsDir(mean[n]) = mean[n].dir
    BY DEF IsDir
  <2> QED BY <1>3, <1>4, <1>7, <2>2, <2>3
<1> QED BY <1>8, <1>9

LEMMA MaxGreatest ==
  ASSUME NEW n \in Nat, NEW S \in SUBSET (0 .. n), S # {}
  PROVE  Max(S) \in S /\ \A y \in S : y <= Max(S)
<1> DEFINE R == {n - x : x \in S}
<1>1. R \in SUBSET Nat /\ R # {}
  <2>1. ASSUME NEW x \in S PROVE n - x \in Nat
    OBVIOUS
  <2> QED BY <2>1
<1>2. Min(R) \in R /\ \A y \in R : Min(R) <= y
  BY <1>1, MinLeast
<1>3. PICK x \in S : Min(R) = n - x
  BY <1>2
<1>4. ASSUME NEW y \in S PROVE y <= x
  <2>1. n - x <= n - y
    BY <1>2, <1>3
  <2> QED BY <2>1
<1> QED BY <1>4 DEF Max

\* The tokens of the path from the first component, at m, to the one before
\* the last slash.
SplitFrom(path, m, parent) ==
  /\ \A k \in 1 .. m - 1 : path[k] = "/"
  /\ \/ m = Len(path) /\ Len(parent) = 0
     \/ /\ m <= Len(path) - 2 /\ path[Len(path) - 1] = "/"
        /\ Len(parent) = Len(path) - 1 - m
        /\ \A k \in 1 .. Len(parent) : parent[k] = path[m - 1 + k]

\* ufs_path_split, of a path that ends in a component.
LEMMA SplitAt ==
  ASSUME NEW path, NEW T, path \in Seq(T), Len(P!Leaf(path)) = 1
  PROVE  /\ Len(path) \in Nat \ {0} /\ path[Len(path)] # "/"
         /\ P!Leaf(path)[1] = path[Len(path)]
         /\ P!ParentPath(path) \in Seq(T)
         /\ \E m \in 1 .. Len(path) : SplitFrom(path, m, P!ParentPath(path))
<1> DEFINE n == Len(path)
           names == DOMAIN path \ P!Slashes(path)
           q == P!Stripped(path)
           c == P!Cut(q)
           m == P!Min(names)
<1>1. n \in Nat /\ DOMAIN path = 1 .. n
  OBVIOUS
<1>2. /\ P!Leaf(path) = SubSeq(q, c + 1, Len(q))
      /\ P!ParentPath(path) = SubSeq(q, 1, c - 1)
  BY DEF P!Leaf, P!ParentPath
<1>3. q = IF names = {} THEN << >> ELSE SubSeq(path, m, n)
  BY DEF P!Stripped
<1>4. c = Max(P!Slashes(q) \cup {0})
  BY DEF P!Cut, P!Max, Max
<1>5. \A k : k \in names <=> k \in 1 .. n /\ path[k] # "/"
  BY <1>1 DEF P!Slashes
<1>6. names # {} => m \in names /\ \A k \in names : m <= k
  <2>1. names \in SUBSET Nat
    BY <1>1, <1>5
  <2>2. m = Min(names)
    BY DEF P!Min, Min
  <2> QED BY <2>1, <2>2, MinLeast
<1> HIDE DEF names, q, c, m
<1>7. q \in Seq(T)
  <2>1. CASE names = {}
    BY <1>3, <2>1
  <2>2. CASE names # {}
    BY <1>1, <1>3, <1>5, <1>6, <2>2
  <2> QED BY <2>1, <2>2
<1>8. /\ c \in 0 .. Len(q) /\ Len(q) \in Nat
      /\ c # 0 => q[c] = "/"
      /\ \A k \in 1 .. Len(q) : q[k] = "/" => k <= c
  <2>1. Len(q) \in Nat /\ DOMAIN q = 1 .. Len(q)
    BY <1>7
  <2>2. P!Slashes(q) \cup {0} \in SUBSET (0 .. Len(q))
    BY <2>1 DEF P!Slashes
  <2>3. c \in P!Slashes(q) \cup {0} /\ \A k \in P!Slashes(q) \cup {0} : k <= c
    BY <1>4, <2>1, <2>2, MaxGreatest
  <2> QED BY <2>1, <2>2, <2>3 DEF P!Slashes
<1>9. Len(q) # 0 /\ c = Len(q) - 1
  <2>1. Len(SubSeq(q, c + 1, Len(q))) = 1
    BY <1>2
  <2>2. Len(SubSeq(q, c + 1, Len(q))) = IF c + 1 <= Len(q) THEN Len(q) - c ELSE 0
    BY <1>7, <1>8
  <2> QED BY <1>8, <2>1, <2>2
<1>10. /\ m \in 1 .. n /\ path[m] # "/" /\ \A k \in 1 .. m - 1 : path[k] = "/"
       /\ Len(q) = n - m + 1
       /\ \A k \in 1 .. n - m + 1 : q[k] = path[m + k - 1]
  <2>1. names # {}
    BY <1>3, <1>9
  <2>2. m \in 1 .. n /\ path[m] # "/"
    BY <1>5, <1>6, <2>1
  <2>3. \A k \in 1 .. m - 1 : path[k] = "/"
    BY <1>5, <1>6, <2>1, <2>2
  <2>4. q = SubSeq(path, m, n)
    BY <1>3, <2>1
  <2> QED BY <1>1, <2>2, <2>3, <2>4
<1>11. P!Leaf(path)[1] = path[n] /\ path[n] # "/"
  <2>1. q[Len(q)] = path[n]
    BY <1>1, <1>9, <1>10
  <2>2. q[Len(q)] # "/"
    BY <1>8, <1>9
  <2>3. P!Leaf(path)[1] = q[Len(q)]
    BY <1>2, <1>7, <1>8, <1>9
  <2> QED BY <2>1, <2>2, <2>3
<1>12. /\ P!ParentPath(path) \in Seq(T)
       /\ Len(P!ParentPath(path)) = IF c = 0 THEN 0 ELSE c - 1
       /\ \A k \in 1 .. c - 1 : P!ParentPath(path)[k] = q[k]
  BY <1>2, <1>7, <1>8
<1>13. SplitFrom(path, m, P!ParentPath(path))
  <2>1. PICK pp : pp = P!ParentPath(path)
    OBVIOUS
  <2>2. CASE Len(q) = 1
    <3>1. m = n
      <4>1. n \in Nat /\ m \in 1 .. n /\ 1 = n - m + 1
        BY <1>1, <1>10, <2>2
      <4> QED BY <4>1
    <3>2. c = 0
      BY <1>9, <2>2
    <3>3. Len(pp) = 0
      BY <1>12, <2>1, <3>2
    <3> QED BY <1>10, <2>1, <3>1, <3>3 DEF SplitFrom
  <2>3. CASE Len(q) # 1
    <3>1. path[n - 1] = "/"
      BY <1>1, <1>8, <1>9, <1>10, <2>3
    <3>2. m <= n - 2
      BY <1>1, <1>8, <1>9, <1>10, <2>3, <3>1
    <3>3. Len(pp) = n - 1 - m
      <4>1. c # 0 /\ c - 1 = n - 1 - m
        BY <1>1, <1>8, <1>9, <1>10, <2>3
      <4>2. Len(pp) = c - 1
        BY <1>12, <2>1, <4>1
      <4> QED BY <4>1, <4>2
    <3>4. ASSUME NEW k \in 1 .. Len(pp) PROVE pp[k] = path[m - 1 + k]
      <4>1. k \in 1 .. c - 1 /\ k \in 1 .. n - m + 1
        BY <1>1, <1>8, <1>9, <1>10, <3>3
      <4>2. pp[k] = q[k] /\ q[k] = path[m + k - 1]
        BY <1>10, <1>12, <2>1, <4>1
      <4> QED BY <1>10, <4>1, <4>2
    <3> QED BY <1>10, <2>1, <3>1, <3>2, <3>3, <3>4 DEF SplitFrom
  <2> QED BY <2>2, <2>3
<1>14. n # 0
  BY <1>1, <1>10
<1> QED BY <1>1, <1>10, <1>11, <1>12, <1>13, <1>14

\* The parent of a path that ends in a component is where the walk is before
\* that, or nothing where it would go on from a file.
LEMMA ParentVisited ==
  ASSUME TreeAssumption, TagAssumption, Settled, NEW path, NEW T, path \in Seq(T),
         Len(P!Leaf(path)) = 1
  PROVE  \/ P!Parent(path) = P!Visited(path)[Len(path) - 1]
         \/ P!Parent(path) = Nothing /\ ~ P!Visited(path)[Len(path) - 1].dir
<1>1. PICK n, pp, at, back :
        n = Len(path) /\ pp = P!ParentPath(path) /\ at = P!Visited(path) /\ back = P!Visited(pp)
  OBVIOUS
<1>2. /\ n \in Nat \ {0} /\ pp \in Seq(T)
      /\ \E m \in 1 .. n : SplitFrom(path, m, pp)
  BY <1>1, SplitAt
<1>3. PICK m \in 1 .. n : SplitFrom(path, m, pp)
  BY <1>2
<1>4. PICK l : l = Len(pp)
  OBVIOUS
<1>5. l \in Nat
  BY <1>2, <1>4
<1>6. /\ at[0] = RootInode
      /\ \A k \in 1 .. n : at[k] = P!Descend(at[k - 1], path[k])
      /\ \A k \in 0 .. n : at[k] \in Inodes
  BY <1>1, VisitedRuns
<1>7. /\ back[0] = RootInode
      /\ \A k \in 1 .. l : back[k] = P!Descend(back[k - 1], pp[k])
  BY <1>1, <1>2, <1>4, VisitedRuns
<1>8. at[m - 1] = RootInode
  <2>1. PICK b : b = m - 1
    OBVIOUS
  <2>2. b \in 0 .. Len(path) /\ b \in 0 .. b /\ \A k \in 1 .. b : path[k] = "/"
    BY <1>1, <1>2, <1>3, <2>1 DEF SplitFrom
  <2>3. P!Visited(path)[b] = RootInode
    BY <2>2, SlashesStay
  <2> QED BY <1>1, <2>1, <2>3
<1>9. back[l] = at[n - 1]
  <2>1. CASE m = n /\ l = 0
    BY <1>7, <1>8, <2>1
  <2>2. CASE /\ m <= n - 2 /\ path[n - 1] = "/" /\ l = n - 1 - m
             /\ \A k \in 1 .. l : pp[k] = path[m - 1 + k]
    <3> DEFINE S == {k \in 0 .. l : back[k] = at[m - 1 + k]}
    <3>1. 0 \in S
      BY <1>5, <1>7, <1>8
    <3>2. ASSUME NEW k \in 1 .. l, k - 1 \in S PROVE k \in S
      <4>1. back[k - 1] = at[m - 1 + (k - 1)]
        BY <3>2
      <4>2. m - 1 + k \in 1 .. n /\ (m - 1 + k) - 1 = m - 1 + (k - 1)
        BY <1>2, <1>5, <2>2
      <4>3. at[m - 1 + k] = P!Descend(at[(m - 1 + k) - 1], path[m - 1 + k])
        BY <1>6, <4>2
      <4>4. back[k] = P!Descend(back[k - 1], path[m - 1 + k])
        BY <1>7, <2>2
      <4>5. k \in 0 .. l
        BY <1>5
      <4> QED BY <4>1, <4>2, <4>3, <4>4, <4>5
    <3> HIDE DEF S
    <3>3. \A k \in 0 .. l : k \in S
      BY <1>5, <3>1, <3>2, UpTo
    <3>4. l \in S
      BY <1>5, <3>3
    <3>5. back[l] = at[m - 1 + l]
      BY <3>4 DEF S
    <3>6. m - 1 + l = (n - 1) - 1 /\ n - 1 \in 1 .. n
      BY <1>2, <2>2
    <3>7. at[n - 1] = P!Descend(at[(n - 1) - 1], "/")
      BY <1>6, <2>2, <3>6
    <3>8. at[n - 1] = at[(n - 1) - 1]
      BY <3>7 DEF P!Descend
    <3> QED BY <3>5, <3>6, <3>8
  <2>3. \/ m = n /\ l = 0
        \/ /\ m <= n - 2 /\ path[n - 1] = "/" /\ l = n - 1 - m
           /\ \A k \in 1 .. l : pp[k] = path[m - 1 + k]
    BY <1>1, <1>3, <1>4 DEF SplitFrom
  <2> QED BY <2>1, <2>2, <2>3
<1>10. P!Parent(path) = P!Walk(pp)
  <2>1. P!Leaf(path) # << >>
    <3>1. ASSUME P!Leaf(path) = << >> PROVE FALSE
      <4>1. Len(P!Leaf(path)) = 0
        BY <3>1
      <4> QED BY <4>1
    <3> QED BY <3>1
  <2> QED BY <1>1, <2>1 DEF P!Parent
<1>11. P!Walk(pp) = IF back[l] # Nothing /\ P!MustBeDir(pp) /\ ~ IsDir(back[l])
                    THEN Nothing ELSE back[l]
  BY <1>1, <1>4 DEF P!Walk
<1> QED BY <1>1, <1>9, <1>10, <1>11 DEF IsDir

\* A path that ends in a component comes to what is found for it in its parent.
LEMMA LeafFound ==
  ASSUME TreeAssumption, TagAssumption, Settled, NEW path, NEW T, path \in Seq(T),
         NEW leaf, leaf = P!Leaf(path), NEW parent, parent = P!Parent(path),
         Len(leaf) = 1, leaf[1] # "."
  PROVE  P!Walk(path) = IF parent = Nothing \/ ~ parent.dir THEN Nothing
                        ELSE Find(parent, leaf[1])
<1>1. PICK n, at : n = Len(path) /\ at = P!Visited(path)
  OBVIOUS
<1>2. n \in Nat \ {0} /\ path[n] # "/" /\ leaf[1] = path[n]
  BY <1>1, SplitAt
<1>3. at[n] = P!Descend(at[n - 1], path[n])
  <2>1. \A k \in 1 .. n : at[k] = P!Descend(at[k - 1], path[k])
    BY <1>1, VisitedRuns
  <2> QED BY <1>2, <2>1
<1>4. P!Walk(path) = at[n]
  <2>1. ~ P!MustBeDir(path)
    BY <1>1, <1>2 DEF P!MustBeDir, P!Last
  <2> QED BY <1>1, <2>1 DEF P!Walk
<1>5. at[n] = IF at[n - 1] = Nothing THEN Nothing
              ELSE IF at[n - 1].dir THEN Find(at[n - 1], leaf[1]) ELSE Nothing
  BY <1>2, <1>3 DEF P!Descend, IsDir
<1>6. parent = at[n - 1] \/ (parent = Nothing /\ ~ at[n - 1].dir)
  BY <1>1, ParentVisited
<1> QED BY <1>4, <1>5, <1>6

\* PathsAgree for any tree without old entries and any paths: between calls,
\* and while every directory has its dots, ufs_path_walk comes to what the
\* components of a path mean, and so does a search in what ufs_path_parent
\* gives.
THEOREM PathsAlwaysAgree ==
  ASSUME Uses = {}, NoOldEntries
  PROVE  Spec => []PathsAgree
<1>1. Careful
  BY DEF Careful
<1>2. ASSUME IInv PROVE PathsAgree
  <2>1. Listed
    BY <1>2, TreeListed, TreeAssumption
  <2>2. ASSUME call = Idle, \A r \in Tree : r.kind = "dir" => DotsRight(r),
               NEW path \in PathTexts
        PROVE  /\ P!Walk(path) = Meaning(Tree, path)
               /\ Len(P!Leaf(path)) = 1 /\ P!Leaf(path)[1] # "." =>
                    P!Walk(path) =
                      IF P!Parent(path) = Nothing \/ ~ P!Parent(path).dir THEN Nothing
                      ELSE Find(P!Parent(path), P!Leaf(path)[1])
    <3>1. path \in Seq(Names \cup {"/", ".", ".."})
      BY TreeAssumption DEF TreeAssumption
    <3>2. Settled
      BY <1>2, <2>1, <2>2 DEF Settled, DotsAreRight
    <3>3. P!Walk(path) = Meaning(Tree, path)
      BY <3>1, <3>2, WalkMeans, TreeAssumption, TagAssumption
    <3>4. ASSUME Len(P!Leaf(path)) = 1, P!Leaf(path)[1] # "."
          PROVE  P!Walk(path) =
                   IF P!Parent(path) = Nothing \/ ~ P!Parent(path).dir THEN Nothing
                   ELSE Find(P!Parent(path), P!Leaf(path)[1])
      BY <3>1, <3>2, <3>4, LeafFound, TreeAssumption, TagAssumption
    <3> QED BY <3>3, <3>4
  <2> QED BY <2>2 DEF PathsAgree
<1>3. IInv => PathsAgree
  BY <1>2
<1> QED BY <1>1, <1>3, TreeInvariant, PTL

=============================================================================
