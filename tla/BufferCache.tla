----------------------------- MODULE BufferCache -----------------------------
(***************************************************************************)
(* The buffer cache of one block device: vfs/src/block_io.c.               *)
(*                                                                         *)
(* A client is one call sequence  ufs_bread / ufs_bget ... ufs_brelse  (or *)
(* one ufs_bcache_flush).  A thread that holds two buffers at once, as     *)
(* fat12_ent_bread and fat_mirror_bhs do, counts as two clients, so the    *)
(* interleavings of the model include those of nested references.          *)
(*                                                                         *)
(* Every critical section under bc->lock is one step, except the walk of   *)
(* ufs_bcache_flush, which holds the lock over many device writes.  Device *)
(* reads, device writes and accesses to b_data happen outside the lock     *)
(* and are steps of their own.                                             *)
(***************************************************************************)
EXTENDS Integers, SequencesExt

CONSTANTS Blocks,      \* block numbers of the device
          GetBlocks,   \* the blocks some caller obtains through ufs_bget
          Vals,        \* contents of a block
          Junk,        \* what malloc leaves in a new b_data
          Clients,
          NoClient,
          NoBlock,
          MaxBuf       \* UFS_BCACHE_MAX_BUF

ASSUME BufferAssumption ==
  /\ GetBlocks \subseteq Blocks
  /\ Junk \notin Vals
  /\ IsFiniteSet(Clients)
  /\ NoClient \notin Clients
  /\ NoBlock \notin Blocks
  /\ MaxBuf \in Nat \ {0}

VARIABLES disk,      \* what the device holds
          lru,       \* the LRU list, most recently used first
          nrBufs,    \* nr_bufs
          data,      \* b_data of the cached blocks
          dirty,     \* blocks whose buffer has b_dirty set
          uptodate,  \* blocks whose buffer has b_uptodate set
          count,     \* b_count
          pc,        \* where each client is
          ref,       \* the buffer a client holds, NoBlock if none
          flusher,   \* the client that holds bc->lock in ufs_bcache_flush
          todo,      \* the part of the LRU list the flush has yet to visit
          flushErr,  \* err of ufs_bcache_flush is non-zero
          stored     \* history: what callers have last stored in a block, Junk
                     \* once a crash or a refused write has undone it

cache  == <<lru, nrBufs, count>>
bufs   == <<data, dirty, uptodate>>
flush  == <<flusher, todo, flushErr>>
vars   == <<disk, cache, bufs, pc, ref, flush, stored>>

Cached == ToSet(lru)

\* A client in one of these places is outside the buffer layer.
AtRest == {"idle", "null", "flushed"}

Places == AtRest \cup
          {"fill", "pread", "held", "wrote", "synced", "flush", "flushwrote"}

TypeOK ==
  /\ disk \in [Blocks -> Vals]
  /\ lru \in Seq(Blocks)
  /\ nrBufs \in Nat
  /\ data \in [Blocks -> Vals \cup {Junk}]
  /\ dirty \subseteq Blocks
  /\ uptodate \subseteq Blocks
  /\ count \in [Blocks -> Nat]
  /\ pc \in [Clients -> Places]
  /\ ref \in [Clients -> Blocks \cup {NoBlock}]
  /\ flusher \in Clients \cup {NoClient}
  /\ todo \in Seq(Blocks)
  /\ flushErr \in BOOLEAN
  /\ stored \in [Blocks -> Vals \cup {Junk}]

Init ==
  /\ disk \in [Blocks -> Vals]
  /\ lru = <<>>
  /\ nrBufs = 0
  /\ data = [b \in Blocks |-> Junk]
  /\ dirty = {}
  /\ uptodate = {}
  /\ count = [b \in Blocks |-> 0]
  /\ pc = [c \in Clients |-> "idle"]
  /\ ref = [c \in Clients |-> NoBlock]
  /\ flusher = NoClient
  /\ todo = <<>>
  /\ flushErr = FALSE
  /\ stored = [b \in Blocks |-> Junk]

Goto(c, place) == pc' = [pc EXCEPT ![c] = place]

\* Mutant of Unlocked: ufs_bcache_flush does not take the lock.
NeverLocked == TRUE

\* bc->lock is free.
Unlocked == flusher = NoClient

-----------------------------------------------------------------------------
(* Getting a buffer: one critical section of ufs_bread or ufs_bget.        *)

\* buf_touch_lru: the buffer at position i becomes the most recently used.
Touch(i) == <<lru[i]>> \o RemoveAt(lru, i)

\* Mutant of IsVictim: no test of b_count.
IsTail(i) == i \in DOMAIN lru /\ i = Len(lru)

\* evict_one walks from the tail and stops at the first free buffer.
IsVictim(i) ==
  /\ i \in DOMAIN lru
  /\ count[lru[i]] = 0
  /\ \A j \in DOMAIN lru : j > i => count[lru[j]] # 0

\* The buffer is found in its hash chain.
Hit(b) ==
  /\ \E i \in DOMAIN lru : lru[i] = b /\ lru' = Touch(i)
  /\ count' = [count EXCEPT ![b] = @ + 1]
  /\ UNCHANGED <<disk, nrBufs, bufs, stored>>

\* Mutant of AllocInRoom: <= for <.
AllocOneMore(b) ==
  /\ b \notin Cached
  /\ nrBufs <= MaxBuf
  /\ lru' = <<b>> \o lru
  /\ nrBufs' = nrBufs + 1
  /\ count' = [count EXCEPT ![b] = 1]
  /\ UNCHANGED <<disk, bufs, stored>>

\* alloc_buf below the limit.
AllocInRoom(b) ==
  /\ b \notin Cached
  /\ nrBufs < MaxBuf
  /\ lru' = <<b>> \o lru
  /\ nrBufs' = nrBufs + 1
  /\ count' = [count EXCEPT ![b] = 1]
  /\ UNCHANGED <<disk, bufs, stored>>

\* Mutant of Evict: the dirty buffer is not written.
EvictUnsynced(v) ==
  /\ data' = [data EXCEPT ![v] = Junk]
  /\ dirty' = dirty \ {v}
  /\ uptodate' = uptodate \ {v}
  /\ UNCHANGED <<disk, stored>>

\* evict_one on buffer v: ufs_sync_buf on the way out, its result ignored.
Evict(v) ==
  /\ \/ /\ v \in dirty \cap uptodate
        /\ \/ disk' = [disk EXCEPT ![v] = data[v]] /\ UNCHANGED stored
           \/ stored' = [stored EXCEPT ![v] = Junk] /\ UNCHANGED disk
     \/ v \notin dirty \cap uptodate /\ UNCHANGED <<disk, stored>>
  /\ data' = [data EXCEPT ![v] = Junk]
  /\ dirty' = dirty \ {v}
  /\ uptodate' = uptodate \ {v}

\* alloc_buf at the limit, once evict_one has made room.
AllocByEviction(b) ==
  /\ b \notin Cached
  /\ nrBufs >= MaxBuf
  /\ \E i \in DOMAIN lru :
       /\ IsVictim(i)
       /\ Evict(lru[i])
       /\ lru' = <<b>> \o RemoveAt(lru, i)
  /\ count' = [count EXCEPT ![b] = 1]
  /\ UNCHANGED nrBufs

\* alloc_buf evicts and then malloc fails: the eviction stands.
EvictThenNoMemory(b) ==
  /\ b \notin Cached
  /\ nrBufs >= MaxBuf
  /\ \E i \in DOMAIN lru :
       /\ IsVictim(i)
       /\ Evict(lru[i])
       /\ lru' = RemoveAt(lru, i)
  /\ nrBufs' = nrBufs - 1
  /\ UNCHANGED count

\* alloc_buf gives up: every buffer is referenced, or malloc fails.
AllocFails(b) ==
  /\ b \notin Cached
  /\ nrBufs >= MaxBuf => \A i \in DOMAIN lru : count[lru[i]] # 0
  /\ UNCHANGED <<disk, cache, bufs, stored>>

\* ufs_bread and ufs_bget return NULL or go on to place.
GetBuffer(c, b, place) ==
  /\ pc[c] \in AtRest
  /\ Unlocked
  /\ \/ /\ Hit(b) \/ AllocInRoom(b) \/ AllocByEviction(b)
        /\ Goto(c, place)
        /\ ref' = [ref EXCEPT ![c] = b]
     \/ /\ EvictThenNoMemory(b) \/ AllocFails(b)
        /\ Goto(c, "null")
        /\ UNCHANGED ref
  /\ UNCHANGED flush

Bread(c, b) == GetBuffer(c, b, "fill")

Bget(c, b) == b \in GetBlocks /\ GetBuffer(c, b, "held")

-----------------------------------------------------------------------------
(* Filling the buffer: outside the lock.                                   *)

\* read_into_buf (and the test before it on a hit) look at b_uptodate ...
CheckUptodate(c) ==
  /\ pc[c] = "fill"
  /\ Goto(c, IF ref[c] \in uptodate THEN "held" ELSE "pread")
  /\ UNCHANGED <<disk, cache, bufs, ref, flush, stored>>

\* ... and pread comes later.
Pread(c) ==
  /\ pc[c] = "pread"
  /\ data' = [data EXCEPT ![ref[c]] = disk[ref[c]]]
  /\ uptodate' = uptodate \cup {ref[c]}
  /\ Goto(c, "held")
  /\ UNCHANGED <<disk, cache, dirty, ref, flush, stored>>

\* b_count-- unless it is zero already.
DropRef(c) ==
  /\ Unlocked
  /\ count' = [count EXCEPT ![ref[c]] = IF @ > 0 THEN @ - 1 ELSE @]
  /\ ref' = [ref EXCEPT ![c] = NoBlock]

\* pread fails or is short: ufs_bread releases the buffer and returns NULL.
PreadFails(c) ==
  /\ pc[c] = "pread"
  /\ DropRef(c)
  /\ Goto(c, "null")
  /\ UNCHANGED <<disk, lru, nrBufs, bufs, flush, stored>>

-----------------------------------------------------------------------------
(* Using the buffer.                                                       *)

\* Mutant of Modify: ufs_mark_buf_dirty is forgotten.
ModifyUnmarked(c, v) ==
  /\ pc[c] \in {"held", "synced"}
  /\ data' = [data EXCEPT ![ref[c]] = v]
  /\ stored' = [stored EXCEPT ![ref[c]] = v]
  /\ Goto(c, "held")
  /\ UNCHANGED <<disk, cache, dirty, uptodate, ref, flush>>

\* The caller stores into b_data and calls ufs_mark_buf_dirty.
Modify(c, v) ==
  /\ pc[c] \in {"held", "synced"}
  /\ data' = [data EXCEPT ![ref[c]] = v]
  /\ dirty' = dirty \cup {ref[c]}
  /\ stored' = [stored EXCEPT ![ref[c]] = v]
  /\ Goto(c, "held")
  /\ UNCHANGED <<disk, cache, uptodate, ref, flush>>

\* ufs_sync_buf returns 0 at once on a buffer that is clean or not uptodate.
SyncSkips(c) ==
  /\ pc[c] = "held"
  /\ ref[c] \notin dirty \cap uptodate
  /\ Goto(c, "synced")
  /\ UNCHANGED <<disk, cache, bufs, ref, flush, stored>>

\* ufs_bdev_write succeeds; b_dirty is still set.
SyncWrites(c) ==
  /\ pc[c] = "held"
  /\ ref[c] \in dirty \cap uptodate
  /\ disk' = [disk EXCEPT ![ref[c]] = data[ref[c]]]
  /\ Goto(c, "wrote")
  /\ UNCHANGED <<cache, bufs, ref, flush, stored>>

\* b_dirty = 0, and ufs_sync_buf returns 0.  (When the write fails it
\* returns -EIO or -EROFS and nothing has changed.)
SyncClears(c) ==
  /\ pc[c] = "wrote"
  /\ dirty' = dirty \ {ref[c]}
  /\ Goto(c, "synced")
  /\ UNCHANGED <<disk, cache, data, uptodate, ref, flush, stored>>

Brelse(c) ==
  /\ pc[c] \in {"held", "synced"}
  /\ DropRef(c)
  /\ Goto(c, "idle")
  /\ UNCHANGED <<disk, lru, nrBufs, bufs, flush, stored>>

-----------------------------------------------------------------------------
(* ufs_bcache_flush: under bc->lock from the head of the LRU list.         *)

FlushBegin(c) ==
  /\ pc[c] \in AtRest
  /\ Unlocked
  /\ flusher' = c
  /\ todo' = lru
  /\ flushErr' = FALSE
  /\ Goto(c, "flush")
  /\ UNCHANGED <<disk, cache, bufs, ref, stored>>

\* The buffer is clean, or ufs_sync_buf skips it, or its write fails.
FlushPasses(c) ==
  /\ pc[c] = "flush"
  /\ todo # <<>>
  /\ \/ Head(todo) \notin dirty \cap uptodate /\ UNCHANGED flushErr
     \/ Head(todo) \in dirty \cap uptodate /\ flushErr' = TRUE
  /\ todo' = Tail(todo)
  /\ UNCHANGED <<disk, cache, bufs, pc, ref, flusher, stored>>

FlushWrites(c) ==
  /\ pc[c] = "flush"
  /\ todo # <<>>
  /\ Head(todo) \in dirty \cap uptodate
  /\ disk' = [disk EXCEPT ![Head(todo)] = data[Head(todo)]]
  /\ Goto(c, "flushwrote")
  /\ UNCHANGED <<cache, bufs, ref, flush, stored>>

FlushClears(c) ==
  /\ pc[c] = "flushwrote"
  /\ dirty' = dirty \ {Head(todo)}
  /\ todo' = Tail(todo)
  /\ Goto(c, "flush")
  /\ UNCHANGED <<disk, cache, data, uptodate, ref, flusher, flushErr, stored>>

\* Mutant of FlushEnd: err is dropped.
FlushEndForgives(c) ==
  /\ pc[c] = "flush"
  /\ todo = <<>>
  /\ flusher' = NoClient
  /\ flushErr' = FALSE
  /\ Goto(c, "flushed")
  /\ UNCHANGED <<disk, cache, bufs, ref, todo, stored>>

\* "flushed" is a return of 0.
FlushEnd(c) ==
  /\ pc[c] = "flush"
  /\ todo = <<>>
  /\ flusher' = NoClient
  /\ flushErr' = FALSE
  /\ Goto(c, IF flushErr THEN "null" ELSE "flushed")
  /\ UNCHANGED <<disk, cache, bufs, ref, todo, stored>>

-----------------------------------------------------------------------------
(* The end of a cache; the next mount of the device starts an empty one.   *)

EmptyCache ==
  /\ lru' = <<>>
  /\ nrBufs' = 0
  /\ data' = [b \in Blocks |-> Junk]
  /\ dirty' = {}
  /\ uptodate' = {}
  /\ count' = [b \in Blocks |-> 0]
  /\ pc' = [c \in Clients |-> "idle"]
  /\ ref' = [c \in Clients |-> NoBlock]
  /\ flusher' = NoClient
  /\ todo' = <<>>
  /\ flushErr' = FALSE

\* ufs_bcache_destroy writes every dirty buffer, uptodate or not, and frees
\* them all; the writes of the blocks in F fail.
Destroy ==
  /\ \A c \in Clients : pc[c] \in AtRest
  /\ \E F \in SUBSET dirty :
       /\ disk' = [b \in Blocks |-> IF b \in dirty \ F THEN data[b]
                                                       ELSE disk[b]]
       /\ stored' = [b \in Blocks |-> IF b \in F THEN Junk ELSE stored[b]]
  /\ EmptyCache

\* The process dies: what was only in memory is gone.
Crash ==
  /\ EmptyCache
  /\ stored' = [b \in Blocks |-> Junk]
  /\ UNCHANGED disk

Next ==
  \/ \E c \in Clients :
       \/ \E b \in Blocks : Bread(c, b) \/ Bget(c, b)
       \/ CheckUptodate(c) \/ Pread(c) \/ PreadFails(c)
       \/ \E v \in Vals : Modify(c, v)
       \/ SyncSkips(c) \/ SyncWrites(c) \/ SyncClears(c)
       \/ Brelse(c)
       \/ FlushBegin(c) \/ FlushPasses(c) \/ FlushWrites(c)
       \/ FlushClears(c) \/ FlushEnd(c)
  \/ Destroy
  \/ Crash

Spec == Init /\ [][Next]_vars
-----------------------------------------------------------------------------
(* Properties.                                                             *)

\* The LRU list names each cached block once, nr_bufs counts it and never
\* passes UFS_BCACHE_MAX_BUF, whatever evict_one and alloc_buf do in turn.
LruSound ==
  /\ IsInjective(lru)
  /\ nrBufs = Len(lru)
  /\ nrBufs <= MaxBuf

\* A buffer a client still points to is in the cache (evict_one never frees
\* it), and b_count is the number of the clients that point to it, so that a
\* released buffer can be evicted again.
ReferencesHold ==
  /\ \A c \in Clients : ref[c] # NoBlock => ref[c] \in Cached
  /\ \A b \in Blocks : count[b] = Cardinality({c \in Clients : ref[c] = b})

\* What ufs_bcache_flush has yet to visit is a tail of the LRU list: no
\* buffer is freed or moved under its feet, and none is skipped.
FlushWalksTheList ==
  flusher # NoClient =>
    /\ Len(todo) <= Len(lru)
    /\ \A i \in DOMAIN todo : todo[i] = lru[Len(lru) - Len(todo) + i]

\* When ufs_sync_buf has returned 0 the buffer's content is on the device.
SyncedOnDisk ==
  \A c \in Clients :
    pc[c] = "synced" /\ ref[c] \in dirty \cup uptodate
      => disk[ref[c]] = data[ref[c]]

\* When ufs_bcache_flush has returned 0 the device holds what the cache does.
FlushedOnDisk ==
  \A c \in Clients : pc[c] = "flushed" =>
    \A b \in dirty \cup uptodate : disk[b] = data[b]

\* What a reader of block b gets.
View == [b \in Blocks |-> IF b \in uptodate THEN data[b] ELSE disk[b]]

Store == INSTANCE BlockStore WITH view <- View, stable <- disk

\* To a thread that works alone and uses ufs_bread only, the cache is a block
\* store: eviction, flush and failed reads lose nothing, and a write is taken
\* back only when the device refused it.
ImplementsStore == Store!Spec
-----------------------------------------------------------------------------
(* What makes the invariants inductive.                                    *)

InFlush == {"flush", "flushwrote"}

\* A buffer whose content counts for something has one.
ContentsValid == \A b \in dirty \cup uptodate : data[b] \in Vals

\* A client has a buffer exactly while it is between getting and releasing it.
Pointing ==
  \A c \in Clients : ref[c] = NoBlock <=> pc[c] \in AtRest \cup InFlush

\* The flusher is the one client inside ufs_bcache_flush.
Locking ==
  /\ \A c \in Clients : flusher = c <=> pc[c] \in InFlush
  /\ \A c \in Clients : pc[c] = "flushwrote" => todo # <<>>

IndInv ==
  /\ TypeOK
  /\ ContentsValid
  /\ Pointing
  /\ Locking
  /\ LruSound
  /\ ReferencesHold
  /\ FlushWalksTheList
=============================================================================
