---------------------------- MODULE ClusterCache ----------------------------
(***************************************************************************)
(* The cluster chain cache of one inode, fs/fat/src/cache.c, and the walk  *)
(* fat_get_cluster along the FAT that it shortens.                         *)
(*                                                                         *)
(* The in-core root directory is one inode shared by every thread that     *)
(* resolves a path, so several threads look clusters up at once.  The      *)
(* cache is protected by cache_lru_lock, whose critical sections are the   *)
(* steps Lookup, AddToCache and InstallEntry; reading a FAT entry is a     *)
(* step in between.  One of the threads, the writer, may also append to    *)
(* the chain through fat_chain_add.                                        *)
(*                                                                         *)
(* The part of the FAT that matters is the chain of this inode.  A chain   *)
(* that loops on a damaged volume is written out beyond the limit at which *)
(* fat_get_cluster gives up.  Entries are those of FAT16 and FAT32, where  *)
(* one is written without changing another; a volume whose cluster numbers *)
(* come up to the end marks (16 bits: max_fat is 0xFFF4), so that a link   *)
(* is taken for the end of the chain, is not modelled.                     *)
(***************************************************************************)
EXTENDS Integers, SequencesExt

CONSTANTS Threads,
          Writer,     \* the thread that may append
          Clusters,   \* cluster numbers, fat_valid_entry
          Chains,     \* the chains the inode may have at the start
          MaxCache,   \* FAT_MAX_CACHE
          Limit,      \* s_maxbytes in clusters
          MaxInval    \* bound on the invalidations of a behaviour

\* Following the FAT from equal clusters leads to equal clusters.
Consistent(c) ==
  \A i, j \in 1 .. Len(c) - 1 : c[i] = c[j] => c[i + 1] = c[j + 1]

\* A chain without a loop fits on the device; one with a loop outlasts the limit.
Plausible(c) == IF IsInjective(c) THEN Len(c) <= Limit ELSE Len(c) > Limit + 2

ASSUME ClusterAssumption ==
  /\ IsFiniteSet(Threads) /\ Writer \in Threads
  /\ Clusters \subseteq Nat \ {0, 1}
  /\ Chains \subseteq Seq(Clusters)
  /\ \A c \in Chains : Consistent(c) /\ Plausible(c)
  /\ MaxCache \in Nat /\ Cardinality(Threads) <= MaxCache
  /\ Limit \in Nat
  /\ IsFiniteSet(Clusters) /\ Cardinality(Clusters) <= Limit
  /\ MaxInval \in Nat

VARIABLES chain,     \* chain[k + 1] is cluster k of the file
          list,      \* cache_lru, most recent first
          nrCaches,  \* nr_caches
          validId,   \* cache_valid_id
          pc,        \* where each thread is
          want,      \* the argument cluster of fat_get_cluster
          fclus, dclus,  \* *fclus and *dclus
          cid        \* the run the walk is collecting

vars == <<chain, list, nrCaches, validId, pc, want, fclus, dclus, cid>>

\* fat_chain_add asks for cluster FAT_ENT_EOF, beyond every chain.
ToTheEnd == Limit + 2

\* An entry says that clusters f .. f + n of the file are d .. d + n.
Entry == [f : Nat \ {0}, d : Clusters, n : Nat]

\* FAT_CACHE_VALID, an id that is never stale.
AlwaysValid == 0

\* cache_init(&cid, -1, -1): no run yet.
NoRun == [f |-> -1, d |-> -1, n |-> 0, id |-> AlwaysValid]

Run == [f : Nat \ {0}, d : Clusters, n : Nat, id : Nat] \cup {NoRun}

AtRest == {"idle", "found", "eof", "error", "loop"}

TypeOK ==
  /\ chain \in Seq(Clusters)
  /\ list \in Seq(Entry)
  /\ nrCaches \in Nat
  /\ validId \in Nat \ {AlwaysValid}
  /\ pc \in [Threads -> AtRest \cup {"walk", "add", "install"}]
  /\ want \in [Threads -> Nat]
  /\ fclus \in [Threads -> Nat]
  /\ dclus \in [Threads -> Clusters \cup {0}]
  /\ cid \in [Threads -> Run]

Init ==
  /\ chain \in Chains
  /\ list = <<>>
  /\ nrCaches = 0
  /\ validId = 1
  /\ pc = [t \in Threads |-> "idle"]
  /\ want = [t \in Threads |-> 0]
  /\ fclus = [t \in Threads |-> 0]
  /\ dclus = [t \in Threads |-> 0]
  /\ cid = [t \in Threads |-> NoRun]

Goto(t, place) == pc' = [pc EXCEPT ![t] = place]

\* The call is over; what it leaves in its local variables is dead.
Return(t) ==
  /\ Goto(t, IF fclus[t] = want[t] THEN "found" ELSE "eof")
  /\ cid' = [cid EXCEPT ![t] = NoRun]
  /\ UNCHANGED <<want, fclus, dclus>>

Abandon(t, place) ==
  /\ Goto(t, place)
  /\ want' = [want EXCEPT ![t] = 0]
  /\ fclus' = [fclus EXCEPT ![t] = 0]
  /\ dclus' = [dclus EXCEPT ![t] = 0]
  /\ cid' = [cid EXCEPT ![t] = NoRun]

MoveToFront(s, i) == <<s[i]>> \o RemoveAt(s, i)

-----------------------------------------------------------------------------
(* fat_cache_lookup                                                        *)

\* Going down the list, entry i starts closer to cluster k than those before.
Closer(i, k) ==
  /\ list[i].f <= k
  /\ \A j \in 1 .. i - 1 : list[j].f <= k => list[j].f < list[i].f

\* Mutant of Covers: the length taken for the number of clusters.
CoversOneMore(i, k) == k <= list[i].f + list[i].n + 1

Covers(i, k) == k <= list[i].f + list[i].n

\* The scan stops at the first of these that covers k, or takes the last.
IsHit(i, k) ==
  /\ Closer(i, k)
  /\ \A j \in 1 .. i - 1 : Closer(j, k) => ~Covers(j, k)
  /\ Covers(i, k) \/ \A j \in i + 1 .. Len(list) : ~Closer(j, k)

LookupHits(t, k) ==
  \E i \in DOMAIN list :
    LET off == IF Covers(i, k) THEN k - list[i].f ELSE list[i].n IN
    /\ IsHit(i, k)
    /\ list' = MoveToFront(list, i)
    /\ fclus' = [fclus EXCEPT ![t] = list[i].f + off]
    /\ dclus' = [dclus EXCEPT ![t] = list[i].d + off]
    /\ cid' = [cid EXCEPT ![t] = [f |-> list[i].f, d |-> list[i].d,
                                  n |-> list[i].n, id |-> validId]]

LookupMisses(t, k) ==
  /\ \A i \in DOMAIN list : ~IsHit(i, k)
  /\ fclus' = [fclus EXCEPT ![t] = 0]
  /\ dclus' = [dclus EXCEPT ![t] = chain[1]]
  /\ cid' = [cid EXCEPT ![t] = NoRun]
  /\ UNCHANGED list

-----------------------------------------------------------------------------
(* fat_get_cluster(inode, k)                                               *)

\* i_start == 0: nothing to look up.
GetFromEmpty(t) ==
  /\ pc[t] \in AtRest
  /\ chain = <<>>
  /\ Abandon(t, "error")
  /\ UNCHANGED <<chain, list, nrCaches, validId>>

\* Cluster 0 is i_start.
GetFirst(t) ==
  /\ pc[t] \in AtRest
  /\ chain # <<>>
  /\ Goto(t, "found")
  /\ want' = [want EXCEPT ![t] = 0]
  /\ fclus' = [fclus EXCEPT ![t] = 0]
  /\ dclus' = [dclus EXCEPT ![t] = chain[1]]
  /\ UNCHANGED <<chain, list, nrCaches, validId, cid>>

Lookup(t, k) ==
  /\ pc[t] \in AtRest
  /\ chain # <<>>
  /\ k > 0
  /\ LookupHits(t, k) \/ LookupMisses(t, k)
  /\ Goto(t, "walk")
  /\ want' = [want EXCEPT ![t] = k]
  /\ UNCHANGED <<chain, nrCaches, validId>>

\* Mutant of Collect: the next cluster need only be further on.
CollectAcrossGaps(run, k, d) ==
  IF run.d + run.n + 1 <= d /\ run # NoRun
  THEN [run EXCEPT !.n = @ + 1]
  ELSE [f |-> k, d |-> d, n |-> 0, id |-> AlwaysValid]

\* Mutant of Collect: the run is taken to start where the walk was before.
CollectEarly(run, k, d) ==
  IF run.d + run.n + 1 = d
  THEN [run EXCEPT !.n = @ + 1]
  ELSE [f |-> k - 1, d |-> d, n |-> 0, id |-> AlwaysValid]

\* cache_contiguous or else cache_init, for cluster d at place k of the file.
Collect(run, k, d) ==
  IF run.d + run.n + 1 = d
  THEN [run EXCEPT !.n = @ + 1]
  ELSE [f |-> k, d |-> d, n |-> 0, id |-> AlwaysValid]

\* Mutant of PastLimit: a limit one and a bit short.
AtLimit(t) == fclus[t] >= Limit - 1

\* More clusters passed than the device has room for.
PastLimit(t) == fclus[t] > Limit

\* One turn of the loop whose fat_ent_read finds a next cluster.
Follow(t) ==
  /\ pc[t] = "walk"
  /\ fclus[t] < want[t]
  /\ ~PastLimit(t)
  /\ \E j \in 1 .. Len(chain) - 1 :
       /\ chain[j] = dclus[t]
       /\ dclus' = [dclus EXCEPT ![t] = chain[j + 1]]
       /\ cid' = [cid EXCEPT ![t] = Collect(@, fclus[t] + 1, chain[j + 1])]
  /\ fclus' = [fclus EXCEPT ![t] = @ + 1]
  /\ UNCHANGED <<chain, list, nrCaches, validId, pc, want>>

\* Mutant of LeaveLoop: the end of the chain is not looked for.
LeaveLoopAtTarget(t) ==
  /\ pc[t] = "walk"
  /\ fclus[t] = want[t]
  /\ Goto(t, "add")
  /\ UNCHANGED <<chain, list, nrCaches, validId, want, fclus, dclus, cid>>

\* The loop ends at the cluster asked for, or at the end of the chain.
LeaveLoop(t) ==
  /\ pc[t] = "walk"
  /\ \/ fclus[t] = want[t]
     \/ /\ fclus[t] < want[t]
        /\ ~PastLimit(t)
        /\ \A j \in 1 .. Len(chain) - 1 : chain[j] # dclus[t]
  /\ Goto(t, "add")
  /\ UNCHANGED <<chain, list, nrCaches, validId, want, fclus, dclus, cid>>

\* "detected cluster chain loop"
GiveUp(t) ==
  /\ pc[t] = "walk"
  /\ fclus[t] < want[t]
  /\ PastLimit(t)
  /\ Abandon(t, "loop")
  /\ UNCHANGED <<chain, list, nrCaches, validId>>

\* fat_ent_read returns -EIO.
ReadFails(t) ==
  /\ pc[t] = "walk"
  /\ fclus[t] < want[t]
  /\ ~PastLimit(t)
  /\ Abandon(t, "error")
  /\ UNCHANGED <<chain, list, nrCaches, validId>>

-----------------------------------------------------------------------------
(* fat_cache_add, the last thing fat_get_cluster does when it succeeds.    *)

\* fat_cache_merge finds an entry that starts where the run does.
Merge(run) ==
  \E i \in DOMAIN list :
    /\ list[i].f = run.f
    /\ list' = MoveToFront(
                 [list EXCEPT ![i].n = IF run.n > @ THEN run.n ELSE @], i)

NoMerge(run) == \A i \in DOMAIN list : list[i].f # run.f

EntryOf(run) == [f |-> run.f, d |-> run.d, n |-> run.n]

\* Nothing collected, or collected before an invalidation.
Useless(run) ==
  \/ run.f = -1
  \/ run.id # AlwaysValid /\ run.id # validId

AddToCache(t) ==
  /\ pc[t] = "add"
  /\ \/ /\ Useless(cid[t])
        /\ Return(t)
        /\ UNCHANGED <<list, nrCaches>>
     \/ /\ ~Useless(cid[t])
        /\ Merge(cid[t])
        /\ Return(t)
        /\ UNCHANGED nrCaches
     \/ \* A slot is free: reserve it and drop the lock to allocate.
        /\ ~Useless(cid[t]) /\ NoMerge(cid[t])
        /\ nrCaches < MaxCache
        /\ nrCaches' = nrCaches + 1
        /\ Goto(t, "install")
        /\ UNCHANGED <<list, want, fclus, dclus, cid>>
     \/ \* Reuse the entry at the tail.
        /\ ~Useless(cid[t]) /\ NoMerge(cid[t])
        /\ nrCaches >= MaxCache
        /\ list' = <<EntryOf(cid[t])>> \o RemoveAt(list, Len(list))
        /\ Return(t)
        /\ UNCHANGED nrCaches
  /\ UNCHANGED <<chain, validId>>

\* Mutant of InstallEntry: no second look for an entry of the run.
InstallEntryBlindly(t) ==
  /\ pc[t] = "install"
  /\ \/ nrCaches' = nrCaches - 1 /\ UNCHANGED list
     \/ list' = <<EntryOf(cid[t])>> \o list /\ UNCHANGED nrCaches
  /\ Return(t)
  /\ UNCHANGED <<chain, validId>>

\* Back under the lock: the allocation failed, or another thread has added
\* the run meanwhile, or the new entry goes in.
InstallEntry(t) ==
  /\ pc[t] = "install"
  /\ \/ nrCaches' = nrCaches - 1 /\ UNCHANGED list
     \/ Merge(cid[t]) /\ nrCaches' = nrCaches - 1
     \/ /\ NoMerge(cid[t])
        /\ list' = <<EntryOf(cid[t])>> \o list
        /\ UNCHANGED nrCaches
  /\ Return(t)
  /\ UNCHANGED <<chain, validId>>

-----------------------------------------------------------------------------

\* fat_cache_inval_inode
Invalidate ==
  /\ validId <= MaxInval
  /\ list' = <<>>
  /\ nrCaches' = nrCaches - Len(list)
  /\ validId' = validId + 1
  /\ UNCHANGED <<chain, pc, want, fclus, dclus, cid>>

\* The rest of fat_chain_add once fat_get_cluster has found the last cluster:
\* the new one is linked to it, or becomes i_start.
Extend(new) ==
  /\ \/ chain = <<>> /\ pc[Writer] \in AtRest
     \/ pc[Writer] = "eof" /\ want[Writer] = ToTheEnd
  /\ new \in Clusters \ ToSet(chain)
  /\ chain' = Append(chain, new)
  /\ Abandon(Writer, "idle")
  /\ UNCHANGED <<list, nrCaches, validId>>

Next ==
  \/ \E t \in Threads :
       \/ GetFromEmpty(t) \/ GetFirst(t)
       \/ \E k \in 0 .. Limit : Lookup(t, k)
       \/ Follow(t) \/ LeaveLoop(t) \/ GiveUp(t) \/ ReadFails(t)
       \/ AddToCache(t) \/ InstallEntry(t)
  \/ Lookup(Writer, ToTheEnd)
  \/ \E new \in Clusters : Extend(new)
  \/ Invalidate

Spec == Init /\ [][Next]_vars

\* No lock is held across a step of another thread, so a thread inside
\* fat_get_cluster is never stopped.
FairSpec ==
  Spec /\ \A t \in Threads :
            WF_vars(\/ Follow(t) \/ LeaveLoop(t) \/ GiveUp(t)
                    \/ AddToCache(t) \/ InstallEntry(t))

-----------------------------------------------------------------------------
(* Properties.                                                             *)

RunSound(r) ==
  /\ r.f + r.n < Len(chain)
  /\ \A k \in 0 .. r.n : chain[r.f + k + 1] = r.d + k

\* Every entry of the cache agrees with the FAT, whatever the threads that
\* filled it were doing while the chain grew.
CacheSound == \A i \in DOMAIN list : RunSound(list[i])

\* fat_get_cluster finds the cluster a walk from i_start would have found.
ClusterFound ==
  \A t \in Threads : pc[t] = "found" =>
    want[t] < Len(chain) /\ dclus[t] = chain[want[t] + 1]

\* What fat_chain_add takes for the last cluster is the last one.
EndFound ==
  pc[Writer] = "eof" /\ want[Writer] = ToTheEnd
    => fclus[Writer] + 1 = Len(chain) /\ dclus[Writer] = Last(chain)

\* nr_caches counts the entries in the list and the slots reserved by threads
\* in the middle of an allocation, never more than FAT_MAX_CACHE, and no two
\* entries start at the same cluster of the file.
SlotsCounted ==
  /\ nrCaches = Len(list) + Cardinality({t \in Threads : pc[t] = "install"})
  /\ nrCaches <= MaxCache
  /\ \A i, j \in DOMAIN list : list[i].f = list[j].f => i = j

\* "detected cluster chain loop" is reported of chains with a loop only.
LoopIsReal == \A t \in Threads : pc[t] = "loop" => ~IsInjective(chain)

\* fat_get_cluster returns, also from a chain with a loop.
WalkEnds ==
  \A t \in Threads :
    pc[t] \in {"walk", "add", "install"} ~> pc[t] \in AtRest
=============================================================================
