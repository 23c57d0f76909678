# A TLA+ model of the kernel

The repository is an operating system kernel for RISC-V (xv6 with a changed
process layer: a scheduler that picks the process with the smallest
accumulator, exit messages, per-process statistics). This directory models it
in TLA+, checks the models with TLC on small instances and proves their main
invariants with TLAPS for every size. Line numbers below are of `src/kernel/`.

## The system

| Part | State | Operations | What makes it correct |
|---|---|---|---|
| Log (`log.c`) | header and log blocks on disk; `lh`, `outstanding`, `committing` | `begin_op`, `log_write`, `end_op`, commit, recovery | a group of calls reaches the disk whole or not at all, whatever the crash |
| Buffer cache (`bio.c`) | list of `NBUF` buffers, `refcnt`, sleep lock each | `bread`, `bwrite`, `brelse`, `bpin`, `bunpin` | one buffer per block; nothing referenced is recycled |
| Disk driver (`virtio_disk.c`) | descriptors, avail and used rings, `b->disk` | `virtio_disk_rw`, interrupt | every request completes once; descriptors are not lost |
| Inodes, directories (`fs.c`, `sysfile.c`) | inode table, bitmap, directory entries | `ialloc` ... `namex`, `link`, `unlink`, `open` | link counts and references agree; blocks belong to one file |
| File table (`file.c`) | `ref`, type, offset of open files | `filealloc`, `filedup`, `fileclose`, read, write | freed once, at the last close |
| Pipes (`pipe.c`) | ring, `nread`, `nwrite`, two open flags | read, write, close | a queue; nobody sleeps for ever; freed when unused |
| Spinlocks (`spinlock.c`) | `locked`, `cpu`, interrupt nesting | `acquire`, `release`, `push_off`, `pop_off` | exclusion; interrupts off while held |
| Sleep locks, `sleep`, `wakeup` | `locked`, `pid`; `state`, `chan` | acquire, release, sleep, wakeup | exclusion; no lost wakeup |
| Processes (`proc.c`) | table: `state`, `parent`, `pid`, `killed`, exit status and message | `fork`, `exit`, `wait`, `kill` | unique pids; every exit is seen and reaped |
| Scheduler (`proc.c`) | `c->proc`, the choice of a scan | `scheduler`, `sched`, `yield`, `forkret` | a process runs on one CPU, with its lock passed along |
| Traps, clock (`trap.c`, `sysproc.c`) | `ticks` | interrupts, `sys_sleep` | killed processes exit; sleepers wake |
| Console, UART | input ring `r <= w <= e`; output ring | line editing, read, write, interrupts | lines are delivered in order; no overflow |
| Memory (`kalloc.c`, `vm.c`, `exec.c`) | free list, page tables | map, copy, unmap, `exec` | no page lost or used twice, also on failure |

The parts meet in few places. Everything blocks through `sleep` and `wakeup`;
`exit` and `wait` use them under `wait_lock`; file system calls are bracketed by
`begin_op` and `end_op` and reach the disk through the buffer cache, whose
buffers the log pins; a pipe is reached through the file table, which counts its
ends. The hard behaviours are the windows between these: a crash between two
disk writes, a wakeup between a test and a sleep, an exit between a scan and a
sleep, a close while another process is inside, a counter that wraps.

## Modules

| Module | Models | Correspondence |
|---|---|---|
| `AtomicDisk` | what the log promises | abstract: committed and current contents, active calls |
| `Log` | `log.c`, and of `bio.c` what it relies on | one critical section of `log.lock` is one step; every block write of a commit or a recovery is one step; a crash may come between any two |
| `SleepLock` | `sleeplock.c`, `sleep`, `wakeup` | every spinlock operation and every slot of `wakeup`'s scan is one step |
| `Proc` | `fork`, `exit`, `wait`, `kill` | one step per critical section of `wait_lock`, two more for `fork`; RUNNABLE stands for RUNNABLE and RUNNING |
| `Sched` | `scheduler`, `forkret`, `yield` from boot | every slot of the scan is one step; the memory behind the table is that of `kernel.sym` |
| `BlockStore` | what the buffer cache promises | abstract: a content and at most one user for each block |
| `Virtio` | `virtio_disk.c` and its device | a process steps from one sleep to the next; the device and the handler's loop step entry by entry |
| `Bcache` | `bio.c` over `Virtio` | one step per critical section of `bcache.lock`; `brelse` is two, as in the code |
| `Inode` | the inode table, links and paths of `fs.c`; `open`, `mkdir`, `link`, `unlink`, `chdir`, `close` of `sysfile.c` | one step per critical section of `itable.lock` or of an inode's lock; a lock kept across steps is explicit; the entries still to be `iput` are a sequence, each put by its own steps |
| `Vm` | `kalloc.c`, the user half of `vm.c`, `exec.c`, `allocproc`, `freeproc`, `growproc` | each `kalloc` and `kfree` is one step and may find no page; a page table is a record of the pages that it consists of and maps |
| `Terminal` | what the console promises a reader | abstract: an edited line and a queue of input |
| `Console` | `console.c`, `uart.c` and the UART | one step per character read, edited or echoed; `cons.lock` is explicit; a critical section of `uart_tx_lock` is one step |
| `Fifo` | what a pipe promises | abstract: a bounded queue |
| `Pipe` | `pipe.c`, `fileclose` of its ends | one step per loop iteration; `pi->lock` is explicit; `kill` comes between any two |

`MCx` instantiates module `x` for TLC. `LogProofs`, `SleepLockProofs` and
`ProcProofs` hold the proofs. A definition commented *Mutant of* `D` is `D` with
a plausible mistake, under which the run that it belongs to fails.

All modules but `Sched` take the scheduler at its word: a RUNNABLE
process is run again, on one CPU, and a SLEEPING one is not. `Sched` shows that
the scheduler of this commit does not keep that word, so the results about the
others are about their own code, given a scheduler that does.

## Runs

| Run | Instance | Checks |
|---|---|---|
| `log` | 2 processes, 2 blocks of 2 values, 2 crashes, room for two calls | refinement of `AtomicDisk`, the write-ahead rule, durability, pinning, the inductive invariant; 464,928 states |
| `log_live` | 2 processes, 3 blocks, 1 crash, `LogDiskSize = LOGSIZE` | no panic, sleepers in `begin_op` wake, recovery ends |
| `sleeplock` | 3 processes, 2 kills | exclusion, no lost wakeup, locks at `sched`, invariant, progress |
| `proc` | 4 slots, 4 pids | pids, parents, exits, invariant, `wait` returns |
| `pipe` | 2 processes that read and write, 3 bytes a call, ring of 2, counters modulo 4 | refinement of `Fifo`, no use after free, sleepers have a reason; 1,290,608 states |
| `bcache` | 2 processes, 3 buffers, 4 blocks, 4 descriptors, 1 pin | refinement of `BlockStore`, one buffer per block, reference counts, a buffer to recycle, descriptors, ownership by the disk, no lost completion; 313,642 states up to symmetry |
| `inode` | 2 processes, 1 call each from every tree of 3 inodes and 2 names | reference and link counts, one entry per inode, no inode freed in use; 614,719 states up to symmetry |
| `vm` | 2 processes, 16 pages of which 0, 2 or 9 are free, address spaces of 3 pages of 2 bytes | every page used once, whole images, no panic; 150,381 states up to renaming of pages |
| `console` | 2 readers of up to 2 bytes, 1 writer, rings of 2, indices modulo 4 | refinement of `Terminal`, a full ring can be read, sleepers have a reason, output moves; 2,298,328 states up to symmetry |
| `proc_reap`, `proc_killed`, `sched` | 3 slots; 3 CPUs | violated, see below |

A module's type invariant is a conjunct of an invariant that is checked:
`LogInv`, `LockInv` and `ProcInv` where there are proofs, and `PipeInv`
(with `NoUseAfterFree`), `CacheInv` (`OneBuffer`), `TableInv` (`OneEntry`),
`MemoryInv` (`OwnedOnce`) and `RingInv` (`FullIsReadable`) elsewhere.

Bounds. Two processes are enough to make one call wait for another's commit,
be absorbed into it, and end last; two crashes let a crash interrupt the
recovery from a crash; three blocks and two reservations let an overbooked log
overflow. Four blocks in three buffers recycle a valid buffer; four descriptors
are too few for two requests of three, and three buffers are just enough for
two processes and a pin. Three contenders for a sleep lock let one take it between the release
and the wakeup of another. Four slots hold init, a parent, a child and an
orphan. A ring of two with counters modulo four wraps both, apart.
The initial states of `inode` are all trees that calls can have left, with a
directory or a file in use that may be unlinked already, so that one call of
each process meets what a longer history would bring about. In `vm` nine free
pages are what an `exec` needs, two let a growth fail between its page and the
page table for it, and none lets `fork` fail at once; three pages under two
level-0 tables make a growth cross a table. `MCView` identifies states that
differ in the names of pages only, which is sound while `OwnedOnce` holds, and
keeps a state apart in which it does not.

Deadlock is checked, except in `proc` and `sched`, where a panic stops the
kernel, and in `pipe`, where all descriptors may be closed. In `inode` it also
shows that nobody waits for a lock in a circle and that `ilock` never meets a
free inode, on which it would panic.

Fairness. Weak fairness of the steps of a process inside the kernel is the
round of the scheduler and the progress of the CPU; strong fairness of an
`acquire` (or, for the log, of `end_op`, which needs `log.lock`) says that a
spinlock that becomes free again and again is obtained, which holds of the
atomic swap in practice but is not guaranteed by the code. No process is
obliged to begin a call; a holder of a sleep lock releases it in the end.

## What the violated runs show

- `proc_reap`: `wait` (441-451) returns the pid of a zombie and leaves it in
  the table; the next `wait` returns it again. The table fills, and `init`
  takes the first shell's pid for that of each later one.
- `proc_killed`: `usertrap` calls `exit(-1,0)` (trap.c:57, 77) and `exit` copies
  the message from address 0 (406), which the kernel does not map.
- `sched`: after the scan `p` is `&proc[NPROC]` (501, 505). The chosen process
  is not marked, and the scan takes RUNNING processes as well, so that two CPUs
  run one process on one stack. The store of RUNNING hits `bcache.lock.locked`
  (the symbol table puts it there), after which `bget` spins for ever, and the
  release hits `tickslock`, which is not held and panics (`Back`).

More that the models contain without a run of their own. `kill(0)` marks a
free slot, and `allocproc` does not clear `killed`, so the next process made in
it is born killed (`Kill(0)`, `ForkAlloc`). `begin_op` reserves against
`LOGSIZE`, while the region that `mkfs` makes holds one block less: calls that
log exactly `MAXOPBLOCKS` would reach `panic("too big a transaction")`; those of
this kernel log fewer, and `log_live` checks `NoPanic` for calls that do
(`OpBlocks < MAXOPBLOCKS`). A directory does not count as a use of its parent
once it is removed: a walk of `x/y/..` that has reached `y` when another process
removes `y` and `x` finds a free inode (fs.c:672) and `ilock` panics; the calls
of `inode` take no path down and up again. `create` in a directory that was
removed succeeds, and its name goes when the directory does (`lost`): the new
inode keeps a link count without a name. `consoleread` tests `killed` before it
sleeps (92-96), so that a reader killed in between sleeps until the next line
(`RWait`, `RSleep`).

## Proofs

For every set of processes, blocks and values, all sizes and any number of
crashes, `LogProofs` proves that `Log` keeps `LogInv`, implements `AtomicDisk`
and follows the write-ahead rule. None of these is inductive alone: what a crash
would leave depends on where the commit stands. `LogInv` says it stage by stage
(`CommitOK`: up to `tail` the log holds what reads return, then the header names
it, then up to `tail` the home locations hold it; `RecoveryOK` likewise), that
lists have no repeats (so that installing in order is right), that a buffer that
differs from the disk is pinned or held (`CacheOK`), and that a commit is alone
(`CallsOK`). The only step of the refinement that is a `Commit` is `WriteHead`.

`SleepLockProofs` proves `LockInv` for any number of processes. No lost wakeup
needs `PendingOK`: who is on the way into `sleep` has seen the lock held, and
whoever released it since has not passed it in the scan.

`ProcProofs` proves `ProcInv` for a table of any size; that a waiter misses no
exit needs to know who may hold `wait_lock` (`StageOK`) and that a slot under
construction belongs to one `fork` (`ForkOK`).

The assumptions are those named in the modules: finite sets of processes,
positive sizes, model values outside the sets they extend. Liveness is only
model-checked, since the prover has no `ENABLED`; so are `NoPanic`, the
refinements of `Fifo`, `BlockStore` and `Terminal`, and all of `Inode`, `Vm`
and `Console`, for now.

## Plan

Next, in this order; the runs are to stay few, so that the parts of one row
share one run.

1. `FileTable`: the life of an open file with `dup` and `fork`, the table at its
   limit and the failure paths of `pipealloc`; the contents of files over
   `bmap`, `balloc` and `itrunc`: blocks belong to one file.
2. `Clock`: `sys_sleep` with `ticks` that wraps; the accumulators of the
   scheduler; `push_off` and `pop_off`.
3. Proofs: `NoPanic` of the log from an invariant on reservations; that `Pipe`
   implements `Fifo` and `Console` implements `Terminal`; one buffer per block;
   the reference counts of `Inode`; `OwnedOnce`.

Not planned: boot code and assembly, `printf`, string functions, system call
argument fetching, `mkfs`, user programs (`PROJECT.json` gives the reasons).
