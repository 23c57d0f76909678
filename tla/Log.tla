-------------------------------- MODULE Log ---------------------------------
(***************************************************************************)
(* The write-ahead log of the file system (kernel/log.c): system calls     *)
(* bracketed by begin_op()/end_op(), updates absorbed into one transaction *)
(* by log_write(), the group commit run by the last end_op(), and the      *)
(* recovery that initlog() runs after a crash at any step of any of them.  *)
(*                                                                         *)
(* A critical section of log.lock is one step: the code holds the spinlock *)
(* throughout.  Everything outside it, each block that commit() or the     *)
(* recovery writes in particular, is a step of its own.  A disk write of   *)
(* one block is synchronous (bwrite() returns when it is on the disk) and  *)
(* is atomic with respect to a crash.                                      *)
(***************************************************************************)
EXTENDS Integers, Sequences, FiniteSets, Functions

CONSTANTS
    Proc,         \* processes that make file-system calls
    Block,        \* home block numbers
    Value,        \* contents of a block
    NotCached,    \* the block has no valid buffer in the cache
    NoBlock,      \* the process holds no buffer
    MAXOPBLOCKS,  \* param.h: what begin_op() reserves for one system call
    LOGSIZE,      \* param.h: the length of lh.block[]
    LogDiskSize,  \* log.size, from the superblock: header and data blocks
    OpBlocks,     \* the distinct blocks that one system call really logs
    MaxCrash      \* bound: crashes in a behaviour

ASSUME ProcAssumption == IsFiniteSet(Proc)
ASSUME ValueAssumption == NotCached \notin Value
ASSUME BlockAssumption == NoBlock \notin Block
ASSUME SizeAssumption ==
    /\ MAXOPBLOCKS \in Nat \ {0}
    /\ LOGSIZE \in Nat \ {0}
    /\ LogDiskSize \in Nat \ {0}
    /\ OpBlocks \in 1 .. MAXOPBLOCKS
    /\ MaxCrash \in Nat

VARIABLES
    home,         \* disk: the home location of every block
    logblk,       \* disk: the data blocks of the log
    hdr,          \* disk: the header block (its n is the length)
    cache,        \* memory: buffer contents, or NotCached
    pinned,       \* memory: the blocks that log_write() has bpin()ned
    lh,           \* memory: log.lh (its n is the length)
    outstanding,  \* memory: log.outstanding
    committing,   \* memory: log.committing
    tail,         \* the loop index of write_log() or install_trans()
    phase,        \* recover_from_log() of this boot, or "up"
    pc,           \* pc[p]: where p is in a file-system call
    hold,         \* hold[p]: the buffer p has locked and modified
    logged,       \* logged[p]: the blocks p has logged in this call
    crashes       \* number of crashes so far

disk == <<home, logblk, hdr>>
memory == <<cache, pinned, lh, outstanding, committing>>
calls == <<pc, hold, logged>>
vars == <<disk, memory, tail, phase, calls, crashes>>

(***************************************************************************)
(* idle      outside any call                                              *)
(* sleeping  in begin_op(), asleep on &log                                 *)
(* woken     in begin_op(), made runnable, about to test again             *)
(* op        between begin_op() and end_op()                               *)
(* dirty     in op, has modified a buffer it has not yet logged            *)
(* write_log .. wake  in end_op(), running commit()                        *)
(***************************************************************************)
CommitStages == {"write_log", "write_head", "install", "clear", "wake"}
Stages == {"idle", "sleeping", "woken", "op", "dirty"} \cup CommitStages
Phases == {"read_head", "install", "clear", "up"}

Active == {p \in Proc : pc[p] \in {"op", "dirty"}}
Held == {hold[p] : p \in Proc} \ {NoBlock}

\* The block as bread() returns it.
Bread(b) == IF cache[b] = NotCached THEN home[b] ELSE cache[b]

\* wakeup(&log): every sleeper becomes runnable.
Wakeup(c) == [p \in Proc |-> IF c[p] = "sleeping" THEN "woken" ELSE c[p]]

Init ==
    /\ home \in [Block -> Value]
    /\ logblk \in [1 .. LOGSIZE -> Value]
    /\ hdr = <<>>
    /\ cache = [b \in Block |-> NotCached]
    /\ pinned = {}
    /\ lh = <<>>
    /\ outstanding = 0
    /\ committing = FALSE
    /\ tail = 0
    /\ phase = "read_head"
    /\ pc = [p \in Proc |-> "idle"]
    /\ hold = [p \in Proc |-> NoBlock]
    /\ logged = [p \in Proc |-> {}]
    /\ crashes = 0
-----------------------------------------------------------------------------
(***************************************************************************)
(* begin_op(): admit the call, or sleep on &log and test again.            *)
(***************************************************************************)
\* Mutant of NoSpace: the call asking for space is not counted.
NoSpaceOffByOne == Len(lh) + outstanding * MAXOPBLOCKS > LOGSIZE

NoSpace == Len(lh) + (outstanding + 1) * MAXOPBLOCKS > LOGSIZE

BeginSleep(p) ==
    /\ pc[p] \in {"idle", "woken"}
    /\ committing \/ NoSpace
    /\ pc' = [pc EXCEPT ![p] = "sleeping"]
    /\ UNCHANGED <<disk, memory, tail, hold, logged>>

BeginAdmit(p) ==
    /\ pc[p] \in {"idle", "woken"}
    /\ ~committing
    /\ ~NoSpace
    /\ outstanding' = outstanding + 1
    /\ pc' = [pc EXCEPT ![p] = "op"]
    /\ logged' = [logged EXCEPT ![p] = {}]
    /\ UNCHANGED <<disk, cache, pinned, lh, committing, tail, hold>>

\* kill() makes any sleeper runnable: a wakeup with no cause in the log.
SpuriousWakeup(p) ==
    /\ pc[p] = "sleeping"
    /\ pc' = [pc EXCEPT ![p] = "woken"]
    /\ UNCHANGED <<disk, memory, tail, hold, logged>>

(***************************************************************************)
(* The body of a call: bread() a block, change its data, log_write() it    *)
(* and brelse() it.  A call logs at most OpBlocks distinct blocks.         *)
(***************************************************************************)
Modify(p, b, v) ==
    /\ pc[p] = "op"
    /\ b \notin Held
    /\ Cardinality(logged[p] \cup {b}) <= OpBlocks
    /\ cache' = [cache EXCEPT ![b] = v]
    /\ hold' = [hold EXCEPT ![p] = b]
    /\ pc' = [pc EXCEPT ![p] = "dirty"]
    /\ UNCHANGED <<disk, pinned, lh, outstanding, committing, tail, logged>>

TooBig == Len(lh) >= LOGSIZE \/ Len(lh) >= LogDiskSize - 1

\* Mutant of LogWrite: a block not yet in the log is not pinned.
LogWriteUnpinned(p) ==
    /\ pc[p] = "dirty"
    /\ ~TooBig
    /\ outstanding >= 1
    /\ lh' = IF hold[p] \in Range(lh) THEN lh ELSE Append(lh, hold[p])
    /\ logged' = [logged EXCEPT ![p] = @ \cup {hold[p]}]
    /\ hold' = [hold EXCEPT ![p] = NoBlock]
    /\ pc' = [pc EXCEPT ![p] = "op"]
    /\ UNCHANGED <<disk, cache, pinned, outstanding, committing, tail>>

LogWrite(p) ==
    /\ pc[p] = "dirty"
    /\ ~TooBig
    /\ outstanding >= 1
    /\ LET b == hold[p]
       IN  /\ IF b \in Range(lh)               \* log absorption
              THEN UNCHANGED <<lh, pinned>>
              ELSE lh' = Append(lh, b) /\ pinned' = pinned \cup {b}
           /\ logged' = [logged EXCEPT ![p] = @ \cup {b}]
    /\ hold' = [hold EXCEPT ![p] = NoBlock]
    /\ pc' = [pc EXCEPT ![p] = "op"]
    /\ UNCHANGED <<disk, cache, outstanding, committing, tail>>

(***************************************************************************)
(* end_op(): the last call out commits, the others free reserved space.    *)
(***************************************************************************)
\* Mutant of EndOpLast: a transaction of one block is not committed.
EndOpLastSkips(p) ==
    /\ pc[p] = "op"
    /\ ~committing
    /\ outstanding = 1
    /\ outstanding' = 0
    /\ committing' = TRUE
    /\ tail' = 0
    /\ pc' = [pc EXCEPT ![p] = IF Len(lh) > 1 THEN "write_log" ELSE "wake"]
    /\ UNCHANGED <<disk, cache, pinned, lh, hold, logged>>

\* Mutant of EndOpLast: the header is written before the log blocks.
EndOpLastHeadFirst(p) ==
    /\ pc[p] = "op"
    /\ ~committing
    /\ outstanding = 1
    /\ outstanding' = 0
    /\ committing' = TRUE
    /\ tail' = 0
    /\ pc' = [pc EXCEPT ![p] = IF Len(lh) > 0 THEN "write_head" ELSE "wake"]
    /\ UNCHANGED <<disk, cache, pinned, lh, hold, logged>>

EndOpLast(p) ==
    /\ pc[p] = "op"
    /\ ~committing
    /\ outstanding = 1
    /\ outstanding' = 0
    /\ committing' = TRUE
    /\ tail' = 0
    /\ pc' = [pc EXCEPT ![p] = IF Len(lh) > 0 THEN "write_log" ELSE "wake"]
    /\ UNCHANGED <<disk, cache, pinned, lh, hold, logged>>

EndOp(p) ==
    /\ pc[p] = "op"
    /\ ~committing
    /\ outstanding # 1
    /\ outstanding' = outstanding - 1
    /\ pc' = Wakeup([pc EXCEPT ![p] = "idle"])
    /\ UNCHANGED <<disk, cache, pinned, lh, committing, tail, hold, logged>>

\* The three panic() calls of log.c: "too big a transaction", "log_write
\* outside of trans" and "log.committing".
Panics(p) ==
    \/ pc[p] = "dirty" /\ (TooBig \/ outstanding < 1)
    \/ pc[p] = "op" /\ committing

(***************************************************************************)
(* commit(), run by the last end_op() without log.lock.  tail is the       *)
(* number of blocks the loop has copied.                                   *)
(***************************************************************************)
WriteLog(p) ==
    /\ pc[p] = "write_log"
    /\ logblk' = [logblk EXCEPT ![tail + 1] = Bread(lh[tail + 1])]
    /\ IF tail + 1 < Len(lh)
       THEN tail' = tail + 1 /\ UNCHANGED pc
       ELSE tail' = 0 /\ pc' = [pc EXCEPT ![p] = "write_head"]
    /\ UNCHANGED <<home, hdr, memory, hold, logged>>

\* Mutant of WriteHead: the header stays in memory.
WriteHeadLost(p) ==
    /\ pc[p] = "write_head"
    /\ pc' = [pc EXCEPT ![p] = "install"]
    /\ UNCHANGED <<disk, memory, tail, hold, logged>>

\* write_head(): the true point at which the transaction commits.
WriteHead(p) ==
    /\ pc[p] = "write_head"
    /\ hdr' = lh
    /\ pc' = [pc EXCEPT ![p] = "install"]
    /\ UNCHANGED <<home, logblk, memory, tail, hold, logged>>

\* One iteration of install_trans(): log block to home location.
CopyHome ==
    LET b == lh[tail + 1] IN
    /\ home' = [home EXCEPT ![b] = logblk[tail + 1]]
    /\ cache' = [cache EXCEPT ![b] = logblk[tail + 1]]
    /\ UNCHANGED <<logblk, hdr>>

\* Mutant of InstallTrans: every block stays pinned.
InstallTransPinned(p) ==
    /\ pc[p] = "install"
    /\ CopyHome
    /\ IF tail + 1 < Len(lh)
       THEN tail' = tail + 1 /\ UNCHANGED <<lh, pc>>
       ELSE tail' = 0 /\ lh' = <<>> /\ pc' = [pc EXCEPT ![p] = "clear"]
    /\ UNCHANGED <<pinned, outstanding, committing, hold, logged>>

InstallTrans(p) ==
    /\ pc[p] = "install"
    /\ CopyHome
    /\ pinned' = pinned \ {lh[tail + 1]}
    /\ IF tail + 1 < Len(lh)
       THEN tail' = tail + 1 /\ UNCHANGED <<lh, pc>>
       ELSE tail' = 0 /\ lh' = <<>> /\ pc' = [pc EXCEPT ![p] = "clear"]
    /\ UNCHANGED <<outstanding, committing, hold, logged>>

ClearHead(p) ==
    /\ pc[p] = "clear"
    /\ hdr' = lh
    /\ pc' = [pc EXCEPT ![p] = "wake"]
    /\ UNCHANGED <<home, logblk, memory, tail, hold, logged>>

\* Mutant of CommitDone: the sleepers in begin_op() are not woken.
CommitDoneSilent(p) ==
    /\ pc[p] = "wake"
    /\ committing' = FALSE
    /\ pc' = [pc EXCEPT ![p] = "idle"]
    /\ UNCHANGED <<disk, cache, pinned, lh, outstanding, tail, hold, logged>>

CommitDone(p) ==
    /\ pc[p] = "wake"
    /\ committing' = FALSE
    /\ pc' = Wakeup([pc EXCEPT ![p] = "idle"])
    /\ UNCHANGED <<disk, cache, pinned, lh, outstanding, tail, hold, logged>>

(***************************************************************************)
(* The buffer cache, as log.c relies on it: bget() may recycle a buffer    *)
(* nobody references, and a read outside any transaction may load one.     *)
(***************************************************************************)
Recycle(b) ==
    /\ cache[b] # NotCached
    /\ b \notin pinned \cup Held
    /\ cache' = [cache EXCEPT ![b] = NotCached]
    /\ UNCHANGED <<disk, pinned, lh, outstanding, committing, tail, calls>>

Load(b) ==
    /\ cache[b] = NotCached
    /\ cache' = [cache EXCEPT ![b] = home[b]]
    /\ UNCHANGED <<disk, pinned, lh, outstanding, committing, tail, calls>>

(***************************************************************************)
(* A crash loses memory; the next boot runs recover_from_log() before any  *)
(* other process exists, and may crash again.                              *)
(***************************************************************************)
Crash ==
    /\ crashes < MaxCrash
    /\ crashes' = crashes + 1
    /\ cache' = [b \in Block |-> NotCached]
    /\ pinned' = {}
    /\ lh' = <<>>
    /\ outstanding' = 0
    /\ committing' = FALSE
    /\ tail' = 0
    /\ phase' = "read_head"
    /\ pc' = [p \in Proc |-> "idle"]
    /\ hold' = [p \in Proc |-> NoBlock]
    /\ logged' = [p \in Proc |-> {}]
    /\ UNCHANGED disk

ReadHead ==
    /\ phase = "read_head"
    /\ lh' = hdr
    /\ phase' = IF Len(hdr) > 0 THEN "install" ELSE "clear"
    /\ UNCHANGED <<disk, cache, pinned, outstanding, committing, tail>>


RecoverInstall ==
    /\ phase = "install"
    /\ CopyHome
    /\ IF tail + 1 < Len(lh)
       THEN tail' = tail + 1 /\ UNCHANGED <<lh, phase>>
       ELSE tail' = 0 /\ lh' = <<>> /\ phase' = "clear"
    /\ UNCHANGED <<pinned, outstanding, committing>>

RecoverClear ==
    /\ phase = "clear"
    /\ hdr' = lh
    /\ phase' = "up"
    /\ UNCHANGED <<home, logblk, memory, tail>>
-----------------------------------------------------------------------------
Call(p) ==
    /\ phase = "up"
    /\ \/ BeginSleep(p) \/ BeginAdmit(p) \/ SpuriousWakeup(p)
       \/ \E b \in Block, v \in Value : Modify(p, b, v)
       \/ LogWrite(p) \/ EndOp(p) \/ EndOpLast(p)
       \/ WriteLog(p) \/ WriteHead(p) \/ InstallTrans(p) \/ ClearHead(p)
       \/ CommitDone(p)
    /\ UNCHANGED <<phase, crashes>>

Buffer(b) ==
    /\ phase = "up"
    /\ Recycle(b) \/ Load(b)
    /\ UNCHANGED <<phase, crashes>>

Recover ==
    /\ ReadHead \/ RecoverInstall \/ RecoverClear
    /\ UNCHANGED <<calls, crashes>>

Next ==
    \/ \E p \in Proc : Call(p)
    \/ \E b \in Block : Buffer(b)
    \/ Recover
    \/ Crash

Spec == Init /\ [][Next]_vars
-----------------------------------------------------------------------------
(***************************************************************************)
(* Fairness: a process inside a call keeps running (its disk writes        *)
(* complete), a boot runs its recovery, and the body of a call is finite,  *)
(* so a call that could always go on to end_op() gets there.  Nothing      *)
(* obliges a process to begin a call, and no lock is handed out fairly.    *)
(***************************************************************************)
Up(A) == phase = "up" /\ A /\ UNCHANGED <<phase, crashes>>

Proceed(p) ==
    \/ LogWrite(p) \/ WriteLog(p) \/ WriteHead(p) \/ InstallTrans(p)
    \/ ClearHead(p) \/ CommitDone(p)

FairSpec ==
    /\ Spec
    /\ WF_vars(Recover)
    /\ \A p \in Proc : WF_vars(Up(Proceed(p)))
    /\ \A p \in Proc : SF_vars(Up(EndOp(p) \/ EndOpLast(p)))
-----------------------------------------------------------------------------
TypeOK ==
    /\ home \in [Block -> Value]
    /\ logblk \in [1 .. LOGSIZE -> Value]
    /\ hdr \in Seq(Block)
    /\ cache \in [Block -> Value \cup {NotCached}]
    /\ pinned \subseteq Block
    /\ lh \in Seq(Block)
    /\ outstanding \in Nat
    /\ committing \in BOOLEAN
    /\ tail \in Nat
    /\ phase \in Phases
    /\ pc \in [Proc -> Stages]
    /\ hold \in [Proc -> Block \cup {NoBlock}]
    /\ logged \in [Proc -> SUBSET Block]
    /\ crashes \in 0 .. MaxCrash

(***************************************************************************)
(* The disk that a crash now would leave after recovery: the home          *)
(* locations with the blocks of a written header taken from the log.       *)
(***************************************************************************)
Overlay(h, l, d) ==
    [b \in Block |->
        IF b \in Range(h) THEN l[CHOOSE i \in DOMAIN h : h[i] = b] ELSE d[b]]

Committed == Overlay(hdr, logblk, home)

\* What reads return; while the recovery runs nobody reads.
Current == IF phase = "up" THEN [b \in Block |-> Bread(b)] ELSE Committed

AD == INSTANCE AtomicDisk WITH
        committed <- Committed, current <- Current, active <- Active

\* The log implements the atomic disk: a crash at any step, the recovery's
\* own steps included, leaves the updates of every call of the last
\* committed group and of no other (log.c:10-16).
AtomicDiskSpec == AD!Spec

\* begin_op()'s reservation is enough: no call ever overflows the log, logs
\* outside a transaction or ends during a commit (log.c:153, 220, 222).
NoPanic == phase = "up" => \A p \in Proc : ~Panics(p)

\* The write-ahead rule: a home location changes only to what the log holds
\* for it under a header already on the disk (log.c:197-199).
WriteAhead ==
    [][\A b \in Block : home'[b] # home[b] =>
          \E i \in DOMAIN hdr : hdr[i] = b /\ home'[b] = logblk[i]]_vars

\* When the last end_op() has returned nothing is left to lose: what reads
\* return is what a crash would leave (log.c:155-174).
QuiescentDurable ==
    phase = "up" /\ Active = {} /\ ~committing => Current = Committed

\* An update not yet installed is in the cache and cannot be recycled: it is
\* the only copy that write_log() will find (log.c:205-207).
UninstalledPinned ==
    phase = "up" =>
        \A b \in Block : Bread(b) # home[b] =>
            b \in pinned \cup Held /\ cache[b] # NotCached

\* A process asleep in begin_op() is woken: by the end of the commit it
\* waits for, or by an end_op() that frees reserved space (log.c:162, 172).
NoLostWakeup == \A p \in Proc : pc[p] = "sleeping" ~> pc[p] # "sleeping"

-----------------------------------------------------------------------------
(***************************************************************************)
(* The inductive invariant: what every stage of a commit, and of a         *)
(* recovery, may rely on.                                                  *)
(***************************************************************************)
Distinct(s) == \A i, j \in DOMAIN s : s[i] = s[j] => i = j

\* The first k blocks that s names are in the log as reads return them.
LogHolds(s, k) == \A i \in 1 .. k : logblk[i] = Bread(s[i])

\* The first k blocks that s names are at home as the log holds them.
HomeHolds(s, k) == \A i \in 1 .. k : home[s[i]] = logblk[i]

\* The lists are absorbed: no block twice, none beyond the log.
ListsOK ==
    /\ Distinct(lh) /\ Distinct(hdr)
    /\ Len(lh) <= LOGSIZE /\ Len(hdr) <= LOGSIZE

\* The counter counts, a buffer lock has one holder, a commit is alone.
CallsOK ==
    /\ outstanding = Cardinality(Active)
    /\ \A p \in Proc : pc[p] = "dirty" <=> hold[p] # NoBlock
    /\ \A p, q \in Proc : hold[p] = hold[q] /\ hold[p] # NoBlock => p = q
    /\ committing => Active = {}
    /\ \A p \in Proc : pc[p] \in CommitStages =>
           committing /\ \A q \in Proc : pc[q] \in CommitStages => p = q

\* A buffer that differs from the disk is referenced, and stays in the cache.
CacheOK ==
    /\ \A b \in pinned \cup Held : cache[b] # NotCached
    /\ \A b \in Block : Bread(b) # home[b] => b \in pinned \cup Held

\* Where a commit stands, by the stage of the process that runs it.
CommitOK ==
    /\ \A p \in Proc : pc[p] = "write_log" =>
           tail < Len(lh) /\ LogHolds(lh, tail)
    /\ \A p \in Proc : pc[p] = "write_head" =>
           tail = 0 /\ Len(lh) > 0 /\ LogHolds(lh, Len(lh))
    /\ \A p \in Proc : pc[p] = "install" =>
           /\ hdr = lh /\ tail < Len(lh)
           /\ LogHolds(lh, Len(lh)) /\ HomeHolds(lh, tail)
           /\ pinned = {lh[i] : i \in tail + 1 .. Len(lh)}
    /\ \A p \in Proc : pc[p] = "clear" => HomeHolds(hdr, Len(hdr))
    /\ \A p \in Proc : pc[p] \in {"clear", "wake"} => lh = <<>>
    /\ hdr # <<>> => \E p \in Proc : pc[p] \in {"install", "clear"}
    /\ ~committing /\ Active = {} => lh = <<>>
    /\ (\A p \in Proc : pc[p] # "install") => pinned = Range(lh)

\* Where a recovery stands.
RecoveryOK ==
    /\ \A p \in Proc : pc[p] = "idle"
    /\ ~committing
    /\ pinned = {}
    /\ phase = "read_head" => lh = <<>> /\ tail = 0
    /\ phase = "install" => lh = hdr /\ tail < Len(hdr) /\ HomeHolds(hdr, tail)
    /\ phase = "clear" => lh = <<>> /\ HomeHolds(hdr, Len(hdr))

\* The state of the log between any two steps (log.c, every function).
LogInv ==
    /\ TypeOK /\ ListsOK /\ CallsOK /\ CacheOK
    /\ IF phase = "up" THEN CommitOK ELSE RecoveryOK
=============================================================================
