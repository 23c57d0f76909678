------------------------------- MODULE Virtio -------------------------------
(***************************************************************************)
(* The disk driver (kernel/virtio_disk.c) and its device: requests of      *)
(* three descriptors each, completed in any order, and the interrupt that  *)
(* reports them.  Bcache supplies the callers.                             *)
(*                                                                         *)
(* A process holds vdisk_lock from one sleep() to the next, so what it     *)
(* does in between is one step; the interrupt handler takes one step for   *)
(* each entry of the used ring, because the device does not wait for it.   *)
(* Rings hold at most one entry for each chain, and never fill.            *)
(***************************************************************************)
EXTENDS Naturals, Sequences, FiniteSets

CONSTANTS
    Proc,
    Buf,      \* the buffers of the cache
    Block,    \* block numbers
    Value,    \* contents of a block
    NoBlock,
    NoBuf,
    NUM       \* descriptors

ASSUME DescAssumption == NUM \in Nat /\ NUM >= 3
ASSUME BlockAssumption == NoBlock \notin Block /\ NoBuf \notin Buf

VARIABLES
    blockno,  \* blockno[b], data[b], bdisk[b]: struct buf
    data,
    bdisk,
    sectors,  \* the blocks on the disk
    free,     \* disk.free: the free descriptors
    info,     \* info[d]: disk.info[d].b, or NoBuf
    avail,    \* chains the device has been given, by first descriptor
    used,     \* the used ring: chains it has finished, not yet looked at
    pending,  \* the device has raised an interrupt
    intr,     \* the interrupt handler runs, and holds vdisk_lock
    rw,       \* rw[p]: where p is in virtio_disk_rw()
    idx,      \* idx[p]: the descriptors of its request
    arg       \* arg[p]: its arguments, the buffer and whether it is a write

device == <<sectors, avail, used, pending>>
driver == <<free, info, intr, rw, idx, arg>>

(***************************************************************************)
(* out     not in virtio_disk_rw()      enter   allocates descriptors      *)
(* nodesc  asleep on &disk.free[0]      wait    asleep on b                *)
(* woken   tests b->disk                done    returns                    *)
(***************************************************************************)
RwStages == {"out", "enter", "nodesc", "wait", "woken", "done"}

Desc == 0 .. NUM - 1

\* What alloc3_desc() takes: the three lowest free descriptors.
Lowest3 == {d \in free : Cardinality({e \in free : e < d}) < 3}

First(S) == CHOOSE d \in S : \A e \in S : d <= e

Wake(from, to) == [p \in Proc |-> IF rw[p] = from THEN to ELSE rw[p]]

VirtioInit ==
    /\ sectors \in [Block -> Value]
    /\ bdisk = [b \in Buf |-> FALSE]
    /\ free = Desc
    /\ info = [d \in Desc |-> NoBuf]
    /\ avail = {} /\ used = <<>>
    /\ pending = FALSE /\ intr = FALSE
    /\ rw = [p \in Proc |-> "out"]
    /\ idx = [p \in Proc |-> {}]
    /\ arg = [p \in Proc |-> [b |-> NoBuf, write |-> FALSE]]
-----------------------------------------------------------------------------
(***************************************************************************)
(* virtio_disk_rw()                                                        *)
(***************************************************************************)
\* The descriptors are allocated and formatted, the device is notified.
Submit(p) ==
    /\ rw[p] = "enter" /\ ~intr
    /\ Cardinality(free) >= 3
    /\ idx' = [idx EXCEPT ![p] = Lowest3]
    /\ free' = free \ Lowest3
    /\ info' = [info EXCEPT ![First(Lowest3)] = arg[p].b]
    /\ bdisk' = [bdisk EXCEPT ![arg[p].b] = TRUE]
    /\ avail' = avail \cup {First(Lowest3)}
    /\ rw' = [rw EXCEPT ![p] = "wait"]
    /\ UNCHANGED <<blockno, data, sectors, used, pending, intr, arg>>

\* Too few: alloc3_desc() frees what it took, and each free_desc() wakes
\* whoever else waits for descriptors.
NoDesc(p) ==
    /\ rw[p] = "enter" /\ ~intr
    /\ Cardinality(free) < 3
    /\ rw' = [(IF free = {} THEN rw ELSE Wake("nodesc", "enter")) EXCEPT ![p] = "nodesc"]
    /\ UNCHANGED <<blockno, data, bdisk, device, free, info, intr, idx, arg>>


RwAgain(p) ==
    /\ rw[p] = "woken" /\ ~intr
    /\ bdisk[arg[p].b]
    /\ rw' = [rw EXCEPT ![p] = "wait"]
    /\ UNCHANGED <<blockno, data, bdisk, device, free, info, intr, idx, arg>>

\* Mutant of RwDone: only the first descriptor of the chain is freed.
RwDoneFirst(p) ==
    /\ rw[p] = "woken" /\ ~intr
    /\ ~bdisk[arg[p].b]
    /\ info' = [info EXCEPT ![First(idx[p])] = NoBuf]
    /\ free' = free \cup {First(idx[p])}
    /\ idx' = [idx EXCEPT ![p] = {}]
    /\ rw' = [Wake("nodesc", "enter") EXCEPT ![p] = "done"]
    /\ UNCHANGED <<blockno, data, bdisk, device, intr, arg>>

\* free_chain() and return.
RwDone(p) ==
    /\ rw[p] = "woken" /\ ~intr
    /\ ~bdisk[arg[p].b]
    /\ info' = [info EXCEPT ![First(idx[p])] = NoBuf]
    /\ free' = free \cup idx[p]
    /\ idx' = [idx EXCEPT ![p] = {}]
    /\ rw' = [Wake("nodesc", "enter") EXCEPT ![p] = "done"]
    /\ UNCHANGED <<blockno, data, bdisk, device, intr, arg>>

\* kill() makes a sleeper RUNNABLE, whatever it sleeps on.
RwKill(p) ==
    /\ rw[p] \in {"nodesc", "wait"}
    /\ rw' = [rw EXCEPT ![p] = IF @ = "wait" THEN "woken" ELSE "enter"]
    /\ UNCHANGED <<blockno, data, bdisk, device, free, info, intr, idx, arg>>

(***************************************************************************)
(* The device finishes one of its chains, which p has made.                *)
(***************************************************************************)
Device(p) ==
    /\ idx[p] # {} /\ First(idx[p]) \in avail
    /\ LET b == arg[p].b
           k == blockno[b] IN
       IF arg[p].write
       THEN sectors' = [sectors EXCEPT ![k] = data[b]] /\ UNCHANGED data
       ELSE data' = [data EXCEPT ![b] = sectors[k]] /\ UNCHANGED sectors
    /\ avail' = avail \ {First(idx[p])}
    /\ used' = Append(used, First(idx[p]))
    /\ pending' = TRUE
    /\ UNCHANGED <<blockno, bdisk, driver>>

(***************************************************************************)
(* virtio_disk_intr()                                                      *)
(***************************************************************************)
IntrAck ==
    /\ pending /\ ~intr
    /\ pending' = FALSE
    /\ intr' = TRUE
    /\ UNCHANGED <<blockno, data, bdisk, sectors, avail, used, free, info, rw, idx, arg>>

IntrStep ==
    /\ intr /\ used # <<>>
    /\ LET b == info[Head(used)] IN
       /\ bdisk' = [bdisk EXCEPT ![b] = FALSE]
       /\ rw' = [p \in Proc |-> IF rw[p] = "wait" /\ arg[p].b = b THEN "woken" ELSE rw[p]]
    /\ used' = Tail(used)
    /\ UNCHANGED <<blockno, data, sectors, avail, pending, free, info, intr, idx, arg>>


IntrDone ==
    /\ intr /\ used = <<>>
    /\ intr' = FALSE
    /\ UNCHANGED <<blockno, data, bdisk, device, free, info, rw, idx, arg>>
-----------------------------------------------------------------------------
\* The steps of p inside virtio_disk_rw(), and those of device and handler.
RwStep(p) == Submit(p) \/ NoDesc(p) \/ RwAgain(p) \/ RwDone(p)
Intr == IntrAck \/ IntrStep \/ IntrDone

VirtioTypeOK ==
    /\ blockno \in [Buf -> Block \cup {NoBlock}]
    /\ data \in [Buf -> Value]
    /\ bdisk \in [Buf -> BOOLEAN]
    /\ sectors \in [Block -> Value]
    /\ free \subseteq Desc
    /\ info \in [Desc -> Buf \cup {NoBuf}]
    /\ avail \subseteq Desc
    /\ used \in Seq(Desc)
    /\ pending \in BOOLEAN /\ intr \in BOOLEAN
    /\ rw \in [Proc -> RwStages]
    /\ idx \in [Proc -> SUBSET Desc]
    /\ arg \in [Proc -> [b : Buf \cup {NoBuf}, write : BOOLEAN]]
=============================================================================
