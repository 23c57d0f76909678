------------------------------ MODULE Console ------------------------------
(***************************************************************************)
(* The console (kernel/console.c) and its UART (kernel/uart.c): processes  *)
(* in consoleread() and consolewrite(), the interrupt handler with its     *)
(* line editing and echo, and the device.                                  *)
(*                                                                         *)
(* cons.lock is visible: while it is held the device, kill() and writers   *)
(* go on.  A critical section of uart_tx_lock is one step, with what the   *)
(* device does meanwhile.  Of the bytes on their way out only the number   *)
(* matters.                                                                *)
(***************************************************************************)
EXTENDS Naturals, Sequences

CONSTANTS
    Reader, Writer,      \* processes that read(), that write()
    Nobody, Handler,     \* holders of a lock: none, the interrupt handler
    Char,                \* characters that enter the line, with NL and EOF
    NL, EOF, CR,         \* '\n', C('D'), '\r'
    INPUT_BUF_SIZE,
    UART_TX_BUF_SIZE,
    UINT,                \* number of values of a uint, 2^32 in the source
    MaxN                 \* bound: bytes asked for in one read()

ASSUME SizeAssumption ==
    /\ INPUT_BUF_SIZE \in Nat \ {0} /\ UART_TX_BUF_SIZE \in Nat \ {0} /\ MaxN \in Nat
    /\ UINT \in Nat /\ UINT > INPUT_BUF_SIZE /\ UINT % INPUT_BUF_SIZE = 0
ASSUME CharAssumption == {NL, EOF} \subseteq Char /\ CR \notin Char

Key == Char \cup {CR}     \* besides C('H'), which erases, and C('U')

VARIABLES
    buf, r, w, e,        \* cons
    lock,                \* the holder of cons.lock
    rpc, n, target,      \* a reader: where it is, its variables
    taken,               \* the character that a reader took last
    killed,              \* readers that were killed
    waiting,             \* uart_tx_w - uart_tx_r
    wpc,                 \* a writer: where it is
    ipc,                 \* the handler: where it is, and
    echo,                \* how many characters it has yet to echo
    rx,                  \* device: a character has arrived
    thr,                 \* device: bytes to send; idle when there are none
    irq                  \* an interrupt of the UART is pending

cons == <<buf, r, w, e>>
read == <<rpc, n, target, taken, killed>>
out == <<waiting, wpc>>
handler == <<ipc, echo>>
device == <<rx, thr, irq>>
vars == <<cons, lock, read, out, handler, device>>

RStages == {"user", "acquire", "loop", "sleep", "sleeping"}
WStages == {"user", "acquire", "sleeping"}
IStages == {"none", "getc", "echo"}

Init ==
    /\ buf \in [0 .. INPUT_BUF_SIZE - 1 -> {NL}] /\ r = 0 /\ w = 0 /\ e = 0
    /\ lock = Nobody
    /\ rpc = [p \in Reader |-> "user"] /\ wpc = [p \in Writer |-> "user"]
    /\ n = [p \in Reader |-> 0] /\ target = [p \in Reader |-> 0]
    /\ taken = NL /\ killed = {}
    /\ waiting = 0 /\ echo = 0 /\ ipc = "none"
    /\ rx = FALSE /\ thr = 0 /\ irq = FALSE

Inc(x) == (x + 1) % UINT
Dec(x) == (x + UINT - 1) % UINT
Minus(x, y) == (x + UINT - y) % UINT
-----------------------------------------------------------------------------
(***************************************************************************)
(* consoleread()                                                           *)
(***************************************************************************)
RGoto(p, s) == rpc' = [rpc EXCEPT ![p] = s]

\* release() and return; a process that was killed exits, and another one
\* takes its place.
RReturn(p) ==
    /\ killed' = killed \ {p}
    /\ rpc' = [rpc EXCEPT ![p] = "user"]
    /\ n' = [n EXCEPT ![p] = 0] /\ target' = [target EXCEPT ![p] = 0]
    /\ lock' = Nobody

Read(p) ==
    /\ rpc[p] = "user" /\ lock = Nobody
    /\ \E k \in 0 .. MaxN : n' = [n EXCEPT ![p] = k] /\ target' = [target EXCEPT ![p] = k]
    /\ lock' = p
    /\ RGoto(p, "loop")
    /\ UNCHANGED <<cons, taken, killed, out, handler, device>>

\* Back in sleep().
RAcquire(p) ==
    /\ rpc[p] = "acquire" /\ lock = Nobody
    /\ lock' = p
    /\ RGoto(p, "loop")
    /\ UNCHANGED <<cons, n, target, taken, killed, out, handler, device>>

\* The test of killed(), and then sleep(): kill() may come in between.
RWait(p) ==
    /\ rpc[p] = "loop" /\ n[p] > 0 /\ r = w
    /\ IF p \in killed THEN RReturn(p) ELSE RGoto(p, "sleep") /\ UNCHANGED <<n, target, lock, killed>>
    /\ UNCHANGED <<cons, taken, out, handler, device>>

RSleep(p) ==
    /\ rpc[p] = "sleep"
    /\ RGoto(p, "sleeping")
    /\ lock' = Nobody
    /\ UNCHANGED <<cons, n, target, taken, killed, out, handler, device>>

\* An end of file after other characters is left for the next read().
REof(p) ==
    /\ rpc[p] = "loop" /\ n[p] > 0 /\ r # w
    /\ buf[r % INPUT_BUF_SIZE] = EOF
    /\ IF n[p] < target[p] THEN UNCHANGED <<r, taken>> ELSE r' = Inc(r) /\ taken' = EOF
    /\ RReturn(p)
    /\ UNCHANGED <<buf, w, e, out, handler, device>>

\* Another character is copied to the user, unless the address is bad.
RTake(p) ==
    LET c == buf[r % INPUT_BUF_SIZE] IN
    /\ rpc[p] = "loop" /\ n[p] > 0 /\ r # w
    /\ c # EOF
    /\ r' = Inc(r) /\ taken' = c
    /\ \/ c # NL /\ n' = [n EXCEPT ![p] = @ - 1] /\ UNCHANGED <<rpc, target, lock, killed>>
       \/ RReturn(p)
    /\ UNCHANGED <<buf, w, e, out, handler, device>>

RDone(p) ==
    /\ rpc[p] = "loop" /\ n[p] = 0
    /\ RReturn(p)
    /\ UNCHANGED <<cons, taken, out, handler, device>>

\* kill() of a process in read(), with the wakeup that it includes.
Kill(p) ==
    /\ rpc[p] # "user" /\ p \notin killed
    /\ killed' = killed \cup {p}
    /\ rpc' = [rpc EXCEPT ![p] = IF @ = "sleeping" THEN "acquire" ELSE @]
    /\ UNCHANGED <<cons, lock, n, target, taken, out, handler, device>>
-----------------------------------------------------------------------------
(***************************************************************************)
(* uartputc(), called by consolewrite() for each byte, and uartstart()     *)
(***************************************************************************)
\* uartstart() with m bytes in the buffer and writers at W: none is sent while
\* the UART is busy, and the loop sends a second one if the first is gone by
\* then.
Uartstart(m, W) ==
    \/ /\ thr # 0 \/ m = 0
       /\ waiting' = m /\ wpc' = W
       /\ UNCHANGED <<thr, irq>>
    \/ \E k \in 1 .. m :
       /\ thr = 0 /\ thr' = 1
       /\ waiting' = m - k
       /\ irq' = (irq \/ k > 1)
       /\ wpc' = [q \in Writer |-> IF W[q] = "sleeping" THEN "acquire" ELSE W[q]]

\* consolewrite() of a byte, or a writer back in sleep().
Uartputc(p) ==
    /\ wpc[p] \in {"user", "acquire"} /\ waiting < UART_TX_BUF_SIZE
    /\ Uartstart(waiting + 1, [wpc EXCEPT ![p] = "user"])
    /\ UNCHANGED <<cons, lock, read, handler, rx>>

UartputcSleep(p) ==
    /\ wpc[p] \in {"user", "acquire"} /\ waiting = UART_TX_BUF_SIZE
    /\ wpc' = [wpc EXCEPT ![p] = "sleeping"]
    /\ UNCHANGED <<cons, lock, read, waiting, handler, device>>
-----------------------------------------------------------------------------
(***************************************************************************)
(* uartintr() and consoleintr()                                            *)
(***************************************************************************)
Interrupt ==
    /\ ipc = "none" /\ irq
    /\ irq' = FALSE
    /\ ipc' = "getc"
    /\ UNCHANGED <<cons, lock, read, out, echo, rx, thr>>

\* consoleintr() takes cons.lock for a character and is about to echo k.
Handles(k) ==
    /\ ipc = "getc" /\ rx /\ lock = Nobody
    /\ rx' = FALSE
    /\ lock' = Handler
    /\ echo' = k
    /\ ipc' = "echo"
    /\ UNCHANGED <<n, target, taken, killed, out, thr, irq>>

\* Kill line: back to w, or to an end of line before that.
KillLine ==
    LET len == Minus(e, w)
        left == CHOOSE k \in 0 .. len :
                    /\ \A j \in k + 1 .. len : buf[(w + j - 1) % INPUT_BUF_SIZE] # NL
                    /\ k = 0 \/ buf[(w + k - 1) % INPUT_BUF_SIZE] = NL IN
    /\ Handles(len - left)
    /\ e' = (w + left) % UINT
    /\ UNCHANGED <<buf, r, w, rpc>>

\* Mutant of Backspace: no test for an empty line.
BackspaceAny ==
    /\ Handles(1)
    /\ e' = Dec(e)
    /\ UNCHANGED <<buf, r, w, rpc>>

Backspace ==
    /\ Handles(IF e # w THEN 1 ELSE 0)
    /\ e' = IF e # w THEN Dec(e) ELSE e
    /\ UNCHANGED <<buf, r, w, rpc>>

\* No room for a character: it is dropped.
Drop ==
    /\ Handles(0)
    /\ Minus(e, r) >= INPUT_BUF_SIZE
    /\ UNCHANGED <<cons, rpc>>

\* Key k, with '\r' made a '\n', enters the line.
Stored(k) == IF k = CR THEN NL ELSE k
Enter(k) ==
    /\ Handles(1)
    /\ Minus(e, r) < INPUT_BUF_SIZE
    /\ buf' = [buf EXCEPT ![e % INPUT_BUF_SIZE] = Stored(k)]
    /\ e' = Inc(e)
    /\ UNCHANGED r

WholeLine(k) == Stored(k) \in {NL, EOF}
FullBuffer == Minus(Inc(e), r) = INPUT_BUF_SIZE
WakeReaders == rpc' = [p \in Reader |-> IF rpc[p] = "sleeping" THEN "acquire" ELSE rpc[p]]

\* Mutants of Store: a full buffer is not handed over; nobody is told of it.
StoreLine(k) ==
    /\ Enter(k)
    /\ IF WholeLine(k) THEN w' = e' /\ WakeReaders ELSE UNCHANGED <<w, rpc>>

StoreSilent(k) ==
    /\ Enter(k)
    /\ w' = IF WholeLine(k) \/ FullBuffer THEN e' ELSE w
    /\ IF WholeLine(k) THEN WakeReaders ELSE UNCHANGED rpc

\* The line is handed over when it is whole, or the buffer full.
Store(k) ==
    /\ Enter(k)
    /\ IF WholeLine(k) \/ FullBuffer THEN w' = e' /\ WakeReaders ELSE UNCHANGED <<w, rpc>>

\* uartputc_sync() spins until the UART is idle, with cons.lock held.
EchoOne ==
    /\ ipc = "echo" /\ echo > 0 /\ thr = 0
    /\ thr' = 1
    /\ echo' = echo - 1
    /\ UNCHANGED <<cons, lock, read, out, ipc, rx, irq>>

EchoDone ==
    /\ ipc = "echo" /\ echo = 0
    /\ lock' = Nobody
    /\ ipc' = "getc"
    /\ UNCHANGED <<cons, read, out, echo, device>>

\* Mutant of UartintrSend: an interrupt is for input only.
UartintrNoSend ==
    /\ ipc = "getc" /\ ~rx
    /\ ipc' = "none"
    /\ UNCHANGED <<cons, lock, read, out, echo, device>>

\* No input is left.
UartintrSend ==
    /\ ipc = "getc" /\ ~rx
    /\ Uartstart(waiting, wpc)
    /\ ipc' = "none"
    /\ UNCHANGED <<cons, lock, read, echo, rx>>
-----------------------------------------------------------------------------
(***************************************************************************)
(* The device: it interrupts when a character has arrived and when it has  *)
(* become idle.                                                            *)
(***************************************************************************)
Receive ==
    /\ ~rx /\ rx' = TRUE
    /\ irq' = TRUE
    /\ UNCHANGED <<cons, lock, read, out, handler, thr>>

Transmit ==
    /\ thr > 0
    /\ thr' = thr - 1
    /\ irq' = (irq \/ thr = 1)
    /\ UNCHANGED <<cons, lock, read, out, handler, rx>>

ReadStep(p) == Read(p) \/ RAcquire(p) \/ RWait(p) \/ RSleep(p) \/ REof(p) \/ RTake(p) \/ RDone(p) \/ Kill(p)
WriteStep(p) == Uartputc(p) \/ UartputcSleep(p)
IntrStep ==
    \/ Interrupt \/ KillLine \/ Backspace \/ Drop \/ (\E k \in Key : Store(k))
    \/ EchoOne \/ EchoDone \/ UartintrSend

Next ==
    \/ \E p \in Reader : ReadStep(p)
    \/ \E p \in Writer : WriteStep(p)
    \/ IntrStep \/ Receive \/ Transmit

Spec == Init /\ [][Next]_vars
-----------------------------------------------------------------------------
TypeOK ==
    /\ buf \in [0 .. INPUT_BUF_SIZE - 1 -> Char]
    /\ {r, w, e} \subseteq 0 .. UINT - 1
    /\ lock \in Reader \cup {Nobody, Handler}
    /\ rpc \in [Reader -> RStages] /\ wpc \in [Writer -> WStages] /\ ipc \in IStages
    /\ n \in [Reader -> 0 .. MaxN] /\ target \in [Reader -> 0 .. MaxN]
    /\ taken \in Char /\ killed \subseteq Reader
    /\ waiting \in 0 .. UART_TX_BUF_SIZE /\ echo \in 0 .. INPUT_BUF_SIZE
    /\ rx \in BOOLEAN /\ thr \in 0 .. 1 /\ irq \in BOOLEAN

\* The characters from index x up to y.
Chars(x, y) == [k \in 1 .. Minus(y, x) |-> buf[(x + k - 1) % INPUT_BUF_SIZE]]

T == INSTANCE Terminal WITH line <- Chars(w, e), input <- Chars(r, w), given <- taken,
                            Capacity <- INPUT_BUF_SIZE

\* The ring with its three indices, which wrap, is an edited line and a queue
\* of input (console.c:88-123, 144-173).
TerminalSpec == T!Spec

\* A full buffer has input that can be read: typing does not stop for good
\* (console.c:159, 168).
FullIsReadable == Minus(e, r) = INPUT_BUF_SIZE => r # w

\* Indices and buffers stay within their bounds, and a full input buffer can
\* be read (console.c:159, 168, uart.c:95).
RingInv == TypeOK /\ FullIsReadable

\* A reader sleeps only while there is no input, and a writer only while the
\* output buffer is full (console.c:91-97, uart.c:95-99).
SleepersJustified ==
    /\ \A p \in Reader : rpc[p] = "sleeping" => r = w
    /\ \A p \in Writer : wpc[p] = "sleeping" => waiting = UART_TX_BUF_SIZE

\* Bytes in the output buffer are on their way: the device is busy, or it has
\* interrupted, or the handler is yet to call uartstart() (uart.c:134-156,
\* 186-189).
OutputMoves ==
    waiting > 0 => thr > 0 \/ irq \/ ipc # "none"
=============================================================================
