-------------------------------- MODULE Pipe --------------------------------
(***************************************************************************)
(* A pipe (kernel/pipe.c) shared by several processes, with the reference  *)
(* counts that fileclose() (kernel/file.c) keeps on its two ends.          *)
(*                                                                         *)
(* pi->lock is held across the steps of a call and dropped only by         *)
(* sleep(); kill() does not take it and may come between any two.          *)
(***************************************************************************)
EXTENDS Naturals, Sequences

CONSTANTS
    Proc,
    Byte,
    NoProc,
    PIPESIZE,
    UINT,      \* number of values of a uint, 2^32 in the source
    MaxN       \* bound: bytes asked for in one call

ASSUME SizeAssumption ==
    /\ PIPESIZE \in Nat \ {0} /\ MaxN \in Nat
    /\ UINT \in Nat /\ UINT > PIPESIZE /\ UINT % PIPESIZE = 0
ASSUME ProcAssumption == NoProc \notin Proc

VARIABLES
    data, nread, nwrite, readopen, writeopen,   \* struct pipe
    lock,    \* the holder of pi->lock, or NoProc
    freed,   \* kfree(pi) was called
    rfd,     \* processes with a descriptor of the read end
    wfd,     \* processes with a descriptor of the write end
    killed,  \* processes that were killed
    pc,      \* pc[p]: where p is
    i, n     \* i[p], n[p]: bytes moved so far and bytes asked for

pipe == <<data, nread, nwrite, readopen, writeopen>>
files == <<freed, rfd, wfd, killed>>
vars == <<pipe, lock, files, pc, i, n>>

(***************************************************************************)
(* user     outside the pipe's code                                        *)
(* r_acq, r_test, r_sleep, r_copy, r_close: in piperead(), pipeclose(0)    *)
(* w_acq, w_loop, w_sleep, w_done, w_close: in pipewrite(), pipeclose(1)   *)
(***************************************************************************)
Stages == {"user", "r_acq", "r_test", "r_sleep", "r_copy", "r_close",
           "w_acq", "w_loop", "w_sleep", "w_done", "w_close"}

Empty == nread = nwrite
\* Mutant of Full: the counters are compared without room for one more.
FullOffByOne == nwrite = (nread + PIPESIZE + 1) % UINT

Full == nwrite = (nread + PIPESIZE) % UINT

Goto(p, s) == pc' = [pc EXCEPT ![p] = s]

\* The stages after wakeup() of those in stage from, with p in stage s.
WakeupGoto(from, to, p, s) ==
    pc' = [q \in Proc |-> IF q = p THEN s ELSE IF pc[q] = from THEN to ELSE pc[q]]

WakeReaders(p, s) == WakeupGoto("r_sleep", "r_acq", p, s)
WakeWriters(p, s) == WakeupGoto("w_sleep", "w_acq", p, s)

\* pipe() has made the pipe, in a page that kalloc() filled with one byte,
\* and fork() has shared both its descriptors.
Init ==
    /\ data = [k \in 0 .. PIPESIZE - 1 |-> CHOOSE b \in Byte : TRUE]
    /\ nread = 0 /\ nwrite = 0
    /\ readopen = TRUE /\ writeopen = TRUE
    /\ lock = NoProc
    /\ freed = FALSE
    /\ rfd = Proc /\ wfd = Proc
    /\ killed = {}
    /\ pc = [p \in Proc |-> "user"]
    /\ i = [p \in Proc |-> 0] /\ n = [p \in Proc |-> 0]
-----------------------------------------------------------------------------
\* read() and write(); a killed process begins no system call.
Call(p, k, s) ==
    /\ pc[p] = "user" /\ p \notin killed
    /\ \/ s = "r_acq" /\ p \in rfd
       \/ s = "w_acq" /\ p \in wfd
    /\ n' = [n EXCEPT ![p] = k]
    /\ i' = [i EXCEPT ![p] = 0]
    /\ Goto(p, s)
    /\ UNCHANGED <<pipe, lock, files>>

Acquire(p, from, to) ==
    /\ pc[p] = from
    /\ lock = NoProc
    /\ lock' = p
    /\ Goto(p, to)
    /\ UNCHANGED <<pipe, files, i, n>>

(***************************************************************************)
(* piperead()                                                              *)
(***************************************************************************)
ReadWait(p) ==
    /\ pc[p] = "r_test"
    /\ Empty /\ writeopen
    /\ lock' = NoProc
    /\ Goto(p, IF p \in killed THEN "user" ELSE "r_sleep")
    /\ UNCHANGED <<pipe, files, i, n>>

ReadReady(p) ==
    /\ pc[p] = "r_test"
    /\ ~(Empty /\ writeopen)
    /\ Goto(p, "r_copy")
    /\ UNCHANGED <<pipe, lock, files, i, n>>

\* One byte; when copyout() fails the loop ends and the byte is gone.
ReadByte(p, ok) ==
    /\ pc[p] = "r_copy"
    /\ i[p] < n[p] /\ ~Empty
    /\ nread' = (nread + 1) % UINT
    /\ IF ok THEN i' = [i EXCEPT ![p] = @ + 1] /\ UNCHANGED n
       ELSE n' = [n EXCEPT ![p] = i[p]] /\ UNCHANGED i
    /\ UNCHANGED <<data, nwrite, readopen, writeopen, lock, files, pc>>

\* Mutant of ReadDone: the writers are woken only when the ring is empty.
ReadDoneLazy(p) ==
    /\ pc[p] = "r_copy"
    /\ i[p] = n[p] \/ Empty
    /\ lock' = NoProc
    /\ IF i[p] = n[p] THEN Goto(p, "user") ELSE WakeWriters(p, "user")
    /\ UNCHANGED <<pipe, files, i, n>>

ReadDone(p) ==
    /\ pc[p] = "r_copy"
    /\ i[p] = n[p] \/ Empty
    /\ lock' = NoProc
    /\ WakeWriters(p, "user")
    /\ UNCHANGED <<pipe, files, i, n>>

(***************************************************************************)
(* pipewrite()                                                             *)
(***************************************************************************)
\* -1, without a wakeup() for the bytes already written.
WriteFails(p) ==
    /\ pc[p] = "w_loop"
    /\ i[p] < n[p]
    /\ ~readopen \/ p \in killed
    /\ lock' = NoProc
    /\ Goto(p, "user")
    /\ UNCHANGED <<pipe, files, i, n>>

CanWrite(p) == pc[p] = "w_loop" /\ i[p] < n[p] /\ readopen /\ p \notin killed

WriteFull(p) ==
    /\ CanWrite(p)
    /\ Full
    /\ lock' = NoProc
    /\ WakeReaders(p, "w_sleep")
    /\ UNCHANGED <<pipe, files, i, n>>

WriteByte(p, b) ==
    /\ CanWrite(p)
    /\ ~Full
    /\ data' = [data EXCEPT ![nwrite % PIPESIZE] = b]
    /\ nwrite' = (nwrite + 1) % UINT
    /\ i' = [i EXCEPT ![p] = @ + 1]
    /\ UNCHANGED <<nread, readopen, writeopen, lock, files, pc, n>>

\* The loop ends, or copyin() fails and ends it.
WriteEnd(p) ==
    /\ pc[p] = "w_loop"
    /\ i[p] = n[p] \/ (CanWrite(p) /\ ~Full)
    /\ Goto(p, "w_done")
    /\ UNCHANGED <<pipe, lock, files, i, n>>

WriteDone(p) ==
    /\ pc[p] = "w_done"
    /\ lock' = NoProc
    /\ WakeReaders(p, "user")
    /\ UNCHANGED <<pipe, files, i, n>>

(***************************************************************************)
(* close(), also of the descriptors of an exiting process: fileclose()     *)
(* drops a reference, and the last one calls pipeclose().                  *)
(***************************************************************************)
\* Mutant of CloseRead: every close of a descriptor closes the end.
CloseReadAny(p) ==
    /\ pc[p] = "user" /\ p \in rfd
    /\ rfd' = rfd \ {p}
    /\ Goto(p, "r_close")
    /\ UNCHANGED <<pipe, lock, freed, wfd, killed, i, n>>

CloseRead(p) ==
    /\ pc[p] = "user" /\ p \in rfd
    /\ rfd' = rfd \ {p}
    /\ Goto(p, IF rfd = {p} THEN "r_close" ELSE "user")
    /\ UNCHANGED <<pipe, lock, freed, wfd, killed, i, n>>

CloseWrite(p) ==
    /\ pc[p] = "user" /\ p \in wfd
    /\ wfd' = wfd \ {p}
    /\ Goto(p, IF wfd = {p} THEN "w_close" ELSE "user")
    /\ UNCHANGED <<pipe, lock, freed, rfd, killed, i, n>>

PipeCloseRead(p) ==
    /\ pc[p] = "r_close"
    /\ lock = NoProc
    /\ readopen' = FALSE
    /\ WakeWriters(p, "user")
    /\ freed' = ~writeopen
    /\ UNCHANGED <<data, nread, nwrite, writeopen, lock, rfd, wfd, killed, i, n>>

PipeCloseWrite(p) ==
    /\ pc[p] = "w_close"
    /\ lock = NoProc
    /\ writeopen' = FALSE
    /\ WakeReaders(p, "user")
    /\ freed' = ~readopen
    /\ UNCHANGED <<data, nread, nwrite, readopen, lock, rfd, wfd, killed, i, n>>

\* kill(): a sleeper is woken.
Kill(p) ==
    /\ p \notin killed
    /\ killed' = killed \cup {p}
    /\ pc' = [pc EXCEPT ![p] =
                IF @ = "r_sleep" THEN "r_acq" ELSE IF @ = "w_sleep" THEN "w_acq" ELSE @]
    /\ UNCHANGED <<pipe, lock, freed, rfd, wfd, i, n>>
-----------------------------------------------------------------------------
\* The steps of a process inside the pipe's code, apart from acquire().
Step(p) ==
    \/ ReadWait(p) \/ ReadReady(p) \/ ReadDone(p)
    \/ \E ok \in BOOLEAN : ReadByte(p, ok)
    \/ WriteFails(p) \/ WriteFull(p) \/ WriteEnd(p) \/ WriteDone(p)
    \/ \E b \in Byte : WriteByte(p, b)

Enter(p) ==
    \/ Acquire(p, "r_acq", "r_test") \/ Acquire(p, "w_acq", "w_loop")
    \/ PipeCloseRead(p) \/ PipeCloseWrite(p)

Next ==
    \E p \in Proc :
        \/ \E k \in 0 .. MaxN, s \in {"r_acq", "w_acq"} : Call(p, k, s)
        \/ Enter(p) \/ Step(p) \/ CloseRead(p) \/ CloseWrite(p) \/ Kill(p)

Spec == Init /\ [][Next]_vars
-----------------------------------------------------------------------------
TypeOK ==
    /\ data \in [0 .. PIPESIZE - 1 -> Byte]
    /\ nread \in 0 .. UINT - 1 /\ nwrite \in 0 .. UINT - 1
    /\ readopen \in BOOLEAN /\ writeopen \in BOOLEAN
    /\ lock \in Proc \cup {NoProc}
    /\ freed \in BOOLEAN
    /\ rfd \subseteq Proc /\ wfd \subseteq Proc /\ killed \subseteq Proc
    /\ pc \in [Proc -> Stages]
    /\ i \in [Proc -> 0 .. MaxN] /\ n \in [Proc -> 0 .. MaxN]

\* The bytes in the ring, oldest first; the counters may have wrapped.
Count == (UINT + nwrite - nread) % UINT
Queue == [k \in 1 .. Count |-> data[(nread + k - 1) % PIPESIZE]]

F == INSTANCE Fifo WITH queue <- Queue, Capacity <- PIPESIZE

\* The ring is a queue of at most PIPESIZE bytes, also when the counters
\* wrap (pipe.c:84-95, 115-122).
FifoSpec == F!Spec

InPipe(p) == pc[p] # "user"

\* The last close frees the pipe, once, and nobody is using it or still can
\* (pipe.c:58-74): its page goes back to the allocator.
NoUseAfterFree == freed => rfd = {} /\ wfd = {} /\ \A p \in Proc : ~InPipe(p)

\* The counters stay uints and the calls in their stages, and the pipe is out
\* of use when it is freed (pipe.c:58-122).
PipeInv == TypeOK /\ NoUseAfterFree

\* A reader sleeps only while there is nothing to read and somebody may
\* write, unless a killed writer left without waking it; a writer only while
\* the ring is full and somebody may read (pipe.c:80-90, 111-117).
SleepersJustified ==
    lock = NoProc =>
        \A p \in Proc :
            /\ pc[p] = "r_sleep" => writeopen /\ (Empty \/ killed # {})
            /\ pc[p] = "w_sleep" => readopen /\ Full
=============================================================================
