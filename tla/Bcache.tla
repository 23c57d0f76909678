------------------------------- MODULE Bcache -------------------------------
(***************************************************************************)
(* The buffer cache (kernel/bio.c) over the disk driver.  A process uses   *)
(* one buffer at a time, the way the log makes the file system use them:   *)
(* a buffer that was changed is pinned (log_write()) or written (bwrite()) *)
(* before brelse(), and a pinned one is unpinned (install_trans()) once it *)
(* has been written.  A critical section of bcache.lock is one step.       *)
(***************************************************************************)
EXTENDS Virtio

CONSTANTS
    NoProc,
    MaxPin    \* bound: buffers that the log pins

ASSUME ProcAssumption == NoProc \notin Proc /\ MaxPin \in Nat

VARIABLES
    valid,    \* valid[b], refcnt[b]: struct buf
    refcnt,
    held,     \* held[b]: the holder of b->lock, or NoProc
    lru,      \* the list, bcache.head.next first
    pinned,   \* the buffers that the log has pinned
    cur,      \* cur[p]: the buffer p is using, or NoBuf
    bc        \* bc[p]: where p is

cacheVars == <<valid, refcnt, held, lru, pinned, cur, bc>>
vars == <<blockno, data, bdisk, device, driver, cacheVars>>

(***************************************************************************)
(* idle    outside                  lock   bget(): acquiresleep(&b->lock)  *)
(* read    bread(): reading         have   uses the buffer                 *)
(* dirty   has changed it           write  bwrite(): writing               *)
(* synced  has written it           unref  brelse(): refcnt is to be       *)
(*                                         decremented                     *)
(***************************************************************************)
Stages == {"idle", "lock", "read", "have", "dirty", "write", "synced", "unref"}

Goto(p, s) == bc' = [bc EXCEPT ![p] = s]

\* The cached buffers of block k, and those that nobody refers to.
Cached(k) == {b \in Buf : blockno[b] = k}
Unused == {b \in Buf : refcnt[b] = 0}

\* b moved to the front of the list.
ToFront(b) == <<b>> \o SelectSeq(lru, LAMBDA c : c # b)

\* The unused buffer nearest to the end of the list.
LRU == LET last(i) == lru[i] \in Unused /\ \A j \in i + 1 .. Len(lru) : lru[j] \notin Unused
       IN lru[CHOOSE i \in 1 .. Len(lru) : last(i)]

\* binit(): no buffer has a block yet (its dev is 0, the disk's is not), and
\* all start with the same content.  Buffers are interchangeable, so that the
\* order in which the list is built is any.
Init ==
    /\ VirtioInit
    /\ blockno = [b \in Buf |-> NoBlock]
    /\ data \in {[b \in Buf |-> v] : v \in Value}
    /\ valid = [b \in Buf |-> FALSE]
    /\ refcnt = [b \in Buf |-> 0]
    /\ held = [b \in Buf |-> NoProc]
    /\ lru \in {s \in [1 .. Cardinality(Buf) -> Buf] : \A b \in Buf : \E i \in DOMAIN s : s[i] = b}
    /\ pinned = {}
    /\ cur = [p \in Proc |-> NoBuf]
    /\ bc = [p \in Proc |-> "idle"]
-----------------------------------------------------------------------------
\* Mutant of BgetHit: refcnt is not incremented.
BgetHitNoRef(p, k) ==
    /\ bc[p] = "idle"
    /\ \E b \in Cached(k) : cur' = [cur EXCEPT ![p] = b]
    /\ Goto(p, "lock")
    /\ UNCHANGED <<blockno, data, bdisk, device, driver, valid, refcnt, held, lru, pinned>>

BgetHit(p, k) ==
    /\ bc[p] = "idle"
    /\ \E b \in Cached(k) :
       /\ refcnt' = [refcnt EXCEPT ![b] = @ + 1]
       /\ cur' = [cur EXCEPT ![p] = b]
    /\ Goto(p, "lock")
    /\ UNCHANGED <<blockno, data, bdisk, device, driver, valid, held, lru, pinned>>

\* Mutant of BgetMiss: bcache.lock is dropped between the two scans.
BgetMissRaced(p, k) ==
    /\ bc[p] = "idle"
    /\ Unused # {}
    /\ blockno' = [blockno EXCEPT ![LRU] = k]
    /\ valid' = [valid EXCEPT ![LRU] = FALSE]
    /\ refcnt' = [refcnt EXCEPT ![LRU] = 1]
    /\ cur' = [cur EXCEPT ![p] = LRU]
    /\ Goto(p, "lock")
    /\ UNCHANGED <<data, bdisk, device, driver, held, lru, pinned>>

\* Mutant of BgetMiss: b->valid is not reset.
BgetMissValid(p, k) ==
    /\ bc[p] = "idle"
    /\ Cached(k) = {} /\ Unused # {}
    /\ blockno' = [blockno EXCEPT ![LRU] = k]
    /\ refcnt' = [refcnt EXCEPT ![LRU] = 1]
    /\ cur' = [cur EXCEPT ![p] = LRU]
    /\ Goto(p, "lock")
    /\ UNCHANGED <<data, bdisk, device, driver, valid, held, lru, pinned>>

\* With nothing unused bget() panics, see NoBuffers.
BgetMiss(p, k) ==
    /\ bc[p] = "idle"
    /\ Cached(k) = {} /\ Unused # {}
    /\ blockno' = [blockno EXCEPT ![LRU] = k]
    /\ valid' = [valid EXCEPT ![LRU] = FALSE]
    /\ refcnt' = [refcnt EXCEPT ![LRU] = 1]
    /\ cur' = [cur EXCEPT ![p] = LRU]
    /\ Goto(p, "lock")
    /\ UNCHANGED <<data, bdisk, device, driver, held, lru, pinned>>

\* p enters virtio_disk_rw().
StartRw(p, b, w) ==
    /\ rw' = [rw EXCEPT ![p] = "enter"]
    /\ arg' = [arg EXCEPT ![p] = [b |-> b, write |-> w]]

EndRw(p) ==
    /\ rw[p] = "done"
    /\ rw' = [rw EXCEPT ![p] = "out"]
    /\ arg' = [arg EXCEPT ![p] = [b |-> NoBuf, write |-> FALSE]]

\* acquiresleep(&b->lock), and the test of b->valid in bread().
LockBuf(p) ==
    /\ bc[p] = "lock"
    /\ held[cur[p]] = NoProc
    /\ held' = [held EXCEPT ![cur[p]] = p]
    /\ IF valid[cur[p]]
       THEN Goto(p, "have") /\ UNCHANGED <<rw, arg>>
       ELSE Goto(p, "read") /\ StartRw(p, cur[p], FALSE)
    /\ UNCHANGED <<blockno, data, bdisk, device, free, info, intr, idx,
                   valid, refcnt, lru, pinned, cur>>

BreadDone(p) ==
    /\ bc[p] = "read"
    /\ EndRw(p)
    /\ valid' = [valid EXCEPT ![cur[p]] = TRUE]
    /\ Goto(p, "have")
    /\ UNCHANGED <<blockno, data, bdisk, device, free, info, intr, idx,
                   refcnt, held, lru, pinned, cur>>

\* The file system changes the buffer it holds.
Change(p, v) ==
    /\ bc[p] = "have"
    /\ data' = [data EXCEPT ![cur[p]] = v]
    /\ Goto(p, "dirty")
    /\ UNCHANGED <<blockno, bdisk, device, driver, valid, refcnt, held, lru, pinned, cur>>

\* log_write(): pinned, unless it is already in the transaction.
Bpin(p) ==
    /\ bc[p] = "dirty"
    /\ cur[p] \in pinned \/ Cardinality(pinned) < MaxPin
    /\ pinned' = pinned \cup {cur[p]}
    /\ refcnt' = IF cur[p] \in pinned THEN refcnt ELSE [refcnt EXCEPT ![cur[p]] = @ + 1]
    /\ Goto(p, "have")
    /\ UNCHANGED <<blockno, data, bdisk, device, driver, valid, held, lru, cur>>

Bwrite(p) ==
    /\ bc[p] = "dirty" \/ (bc[p] = "have" /\ cur[p] \in pinned)
    /\ StartRw(p, cur[p], TRUE)
    /\ Goto(p, "write")
    /\ UNCHANGED <<blockno, data, bdisk, device, free, info, intr, idx,
                   valid, refcnt, held, lru, pinned, cur>>

BwriteDone(p) ==
    /\ bc[p] = "write"
    /\ EndRw(p)
    /\ Goto(p, "synced")
    /\ UNCHANGED <<blockno, data, bdisk, device, free, info, intr, idx,
                   valid, refcnt, held, lru, pinned, cur>>


Bunpin(p) ==
    /\ bc[p] = "synced" /\ cur[p] \in pinned
    /\ pinned' = pinned \ {cur[p]}
    /\ refcnt' = [refcnt EXCEPT ![cur[p]] = @ - 1]
    /\ Goto(p, "have")
    /\ UNCHANGED <<blockno, data, bdisk, device, driver, valid, held, lru, cur>>

\* brelse(): the sleep lock first, the reference count after it.
BrelseUnlock(p) ==
    /\ bc[p] \in {"have", "synced"}
    /\ held' = [held EXCEPT ![cur[p]] = NoProc]
    /\ Goto(p, "unref")
    /\ UNCHANGED <<blockno, data, bdisk, device, driver, valid, refcnt, lru, pinned, cur>>

BrelseUnref(p) ==
    /\ bc[p] = "unref"
    /\ refcnt' = [refcnt EXCEPT ![cur[p]] = @ - 1]
    /\ lru' = IF refcnt[cur[p]] = 1 THEN ToFront(cur[p]) ELSE lru
    /\ cur' = [cur EXCEPT ![p] = NoBuf]
    /\ Goto(p, "idle")
    /\ UNCHANGED <<blockno, data, bdisk, device, driver, valid, held, pinned>>
-----------------------------------------------------------------------------
Rw(p) == (RwStep(p) \/ RwKill(p) \/ Device(p)) /\ UNCHANGED cacheVars

Next ==
    \/ \E p \in Proc :
          \/ \E k \in Block : BgetHit(p, k) \/ BgetMiss(p, k)
          \/ LockBuf(p) \/ BreadDone(p) \/ Rw(p)
          \/ \E v \in Value : Change(p, v)
          \/ Bpin(p) \/ Bwrite(p) \/ BwriteDone(p) \/ Bunpin(p)
          \/ BrelseUnlock(p) \/ BrelseUnref(p)
    \/ Intr /\ UNCHANGED cacheVars

Spec == Init /\ [][Next]_vars
-----------------------------------------------------------------------------
TypeOK ==
    /\ VirtioTypeOK
    /\ valid \in [Buf -> BOOLEAN]
    /\ refcnt \in [Buf -> Nat]
    /\ held \in [Buf -> Proc \cup {NoProc}]
    /\ lru \in Seq(Buf) /\ Len(lru) = Cardinality(Buf)
    /\ pinned \subseteq Buf
    /\ cur \in [Proc -> Buf \cup {NoBuf}]
    /\ bc \in [Proc -> Stages]

Using(p) == bc[p] \in {"have", "dirty", "write", "synced"}

\* What the user of block k sees: the valid buffer, or else the disk.
Content == [k \in Block |->
    IF \E b \in Cached(k) : valid[b] THEN data[CHOOSE b \in Cached(k) : valid[b]]
    ELSE sectors[k]]

User == [k \in Block |->
    IF \E p \in Proc : Using(p) /\ blockno[cur[p]] = k
    THEN CHOOSE p \in Proc : Using(p) /\ blockno[cur[p]] = k
    ELSE NoProc]

BS == INSTANCE BlockStore WITH content <- Content, user <- User, None <- NoProc

\* The cache is "a synchronization point for disk blocks used by multiple
\* processes" and "only one process at a time can use a buffer" (bio.c:3-14):
\* misses, recycling, write-backs and completions in any order are invisible.
BlockStoreSpec == BS!Spec

\* bget() never makes a second buffer for a block, whoever misses at the
\* same time (bio.c:63-87).
OneBuffer == \A b, c \in Buf : blockno[b] = blockno[c] /\ blockno[b] # NoBlock => b = c

\* The list stays a list of all buffers and no block has two of them
\* (bio.c:63-87, 127-133).
CacheInv == TypeOK /\ OneBuffer

\* Every reference is somebody's: refcnt counts the processes in between
\* bget() and brelse() and the log's pin (bio.c:68, 81, 125, 143, 150), so
\* that only a buffer nobody needs is recycled.
RefsCounted ==
    \A b \in Buf :
        refcnt[b] = Cardinality({p \in Proc : cur[p] = b}) + (IF b \in pinned THEN 1 ELSE 0)


\* Every descriptor is free or belongs to one request, so that free_desc()
\* does not panic and none is lost (virtio_disk.c:168-213, 287-288).
DescOwned ==
    /\ free = Desc \ UNION {idx[p] : p \in Proc}
    /\ \A p, q \in Proc : p # q => idx[p] \cap idx[q] = {}


=============================================================================
