--------------------------------- MODULE Vm ---------------------------------
(***************************************************************************)
(* Physical pages and user address spaces: the page allocator              *)
(* (kernel/kalloc.c), the page table functions (kernel/vm.c) and their     *)
(* users fork(), exec() and sbrk(), with memory running out at any point.  *)
(*                                                                         *)
(* Each kalloc() and each kfree() is a step, since kmem.lock is all that   *)
(* the processes share here; in between they work on tables of their own.  *)
(* A user table has one level-1 and several level-0 tables for the user's  *)
(* pages, and one of each for the trampoline and the trapframe at the top. *)
(***************************************************************************)
EXTENDS Naturals, Sequences, FiniteSets

CONSTANTS
    Proc,       \* slots of the process table
    initproc,
    NPAGES,     \* pages of physical memory
    PGSIZE,
    NVA,        \* bound: pages of an address space
    NPTE,       \* pages that a level-0 table maps
    Spare,      \* how many pages may be free at first
    Images      \* what exec() is given: where the segments of a program end

ASSUME InitAssumption == initproc \in Proc
ASSUME SizeAssumption ==
    /\ {NPAGES, PGSIZE, NVA, NPTE} \subseteq Nat \ {0}
    /\ Spare # {} /\ \A k \in Spare : k \in Nat /\ 7 + k <= NPAGES
    /\ Images \subseteq Seq(0 .. (NVA - 2) * PGSIZE)   \* the stack fits too

Page == 1 .. NPAGES
NoPage == 0
Vpn == 0 .. NVA - 1
Region == 0 .. (NVA - 1) \div NPTE

PGROUNDUP(x) == ((x + PGSIZE - 1) \div PGSIZE) * PGSIZE

VARIABLES
    free,       \* kmem.freelist
    others,     \* pages that the rest of the system has
    state,      \* state[p]: UNUSED, USED while fork() fills it, or running
    frame,      \* frame[p]: p->trapframe
    table,      \* table[p]: p->pagetable
    sz,         \* sz[p]: p->sz
    new,        \* new[p]: the table that p is making or freeing
    w           \* w[p]: where p is in a call, and its local variables

vars == <<free, others, state, frame, table, sz, new, w>>

NoTable == [root |-> NoPage, top1 |-> NoPage, top0 |-> NoPage, low1 |-> NoPage,
            low0 |-> [r \in Region |-> NoPage], leaf |-> [v \in Vpn |-> NoPage], tramp |-> FALSE]

(***************************************************************************)
(* Stages of a call                                                        *)
(*   frame, root, top  pages of allocproc() and proc_pagetable()           *)
(*   mem, map, unmem   a page for address a: kalloc(), mappages(), kfree() *)
(*   unmap             uvmunmap() from a to end, with kfree()              *)
(*   next              a loop is over; ok tells whether it succeeded       *)
(*   unframe, freewalk kfree(p->trapframe); kfree() of page-table pages    *)
(* size is the size of the memory so far, want what it is to become and    *)
(* old where the loop began; free: exec() is in proc_freepagetable().      *)
(***************************************************************************)
Ops == {"none", "fork", "exec", "sbrk"}
Stages == {"idle", "frame", "root", "top", "mem", "map", "unmem", "unmap", "next", "unframe", "freewalk"}

Idle == [op |-> "none", st |-> "idle", a |-> 0, end |-> 0, old |-> 0, size |-> 0, want |-> 0,
         mem |-> NoPage, segs |-> <<>>, phase |-> "load", np |-> initproc, ok |-> TRUE]

\* The first process: one page of initcode.
Init ==
    /\ \E k \in Spare : free = 8 .. 7 + k
    /\ others = (8 .. NPAGES) \ free
    /\ state = [p \in Proc |-> IF p = initproc THEN "running" ELSE "unused"]
    /\ frame = [p \in Proc |-> IF p = initproc THEN 1 ELSE NoPage]
    /\ table = [p \in Proc |-> IF p # initproc THEN NoTable ELSE
          [NoTable EXCEPT !.root = 2, !.top1 = 3, !.top0 = 4, !.low1 = 5,
                          !.low0[0] = 6, !.leaf[0] = 7, !.tramp = TRUE]]
    /\ sz = [p \in Proc |-> IF p = initproc THEN PGSIZE ELSE 0]
    /\ new = [p \in Proc |-> NoTable]
    /\ w = [p \in Proc |-> Idle]
-----------------------------------------------------------------------------
\* kalloc() takes a page; which one makes no difference.
kalloc == CHOOSE g \in free : \A h \in free : g <= h
Kalloc == free # {} /\ free' = free \ {kalloc}
KallocFails == free = {} /\ UNCHANGED free
Kfree(g) == free' = free \cup {g}

\* The table that p works on: its own in sbrk().
Tab(p) == IF w[p].op = "sbrk" THEN table[p] ELSE new[p]
SetTab(p, t) ==
    IF w[p].op = "sbrk" THEN table' = [table EXCEPT ![p] = t] /\ UNCHANGED new
    ELSE new' = [new EXCEPT ![p] = t] /\ UNCHANGED table

Set(p, r) == w' = [w EXCEPT ![p] = r]
Stage(p, s) == Set(p, [w[p] EXCEPT !.st = s])
At(p, s) == w[p].st = s

Reg(a) == (a \div PGSIZE) \div NPTE
PGNUM(a) == a \div PGSIZE

\* Both loops over pages, and the error exit of the first: the pages that it
\* has mapped, from old on, are unmapped.
Allocate(r) == [r EXCEPT !.st = IF r.a < r.end THEN "mem" ELSE "next"]
Unmap(r) == [r EXCEPT !.st = IF r.a < r.end THEN "unmap" ELSE "next"]
UndoOver(r) == Unmap([r EXCEPT !.a = r.old, !.end = r.a + PGSIZE, !.ok = FALSE])   \* mutant: one page more
Undo(r) == Unmap([r EXCEPT !.a = r.old, !.end = r.a, !.ok = FALSE])

\* uvmalloc(): a size of 0 is the error.
Uvmalloc(r, newsz) ==
    LET from == PGROUNDUP(r.size)
        res == IF newsz < r.size THEN r.size ELSE newsz IN
    Allocate([r EXCEPT !.old = from, !.a = from, !.end = IF newsz < r.size THEN from ELSE newsz,
                       !.want = res, !.ok = res # 0])

\* uvmdealloc() to a smaller size.
Uvmdealloc(r, newsz) ==
    Unmap([r EXCEPT !.a = PGROUNDUP(newsz), !.end = PGROUNDUP(r.size), !.want = newsz])

\* proc_freepagetable(): the two top mappings are gone from its table.
Freeing(r, size) == Unmap([r EXCEPT !.a = 0, !.end = PGROUNDUP(size), !.phase = "free"])
-----------------------------------------------------------------------------
(***************************************************************************)
(* The calls                                                               *)
(***************************************************************************)
\* A slot that is UNUSED becomes USED.
Fork(p) ==
    /\ state[p] = "running" /\ At(p, "idle")
    /\ \E np \in Proc :
       /\ state[np] = "unused"
       /\ state' = [state EXCEPT ![np] = "used"]
       /\ Set(p, [Idle EXCEPT !.op = "fork", !.st = "frame", !.np = np])
    /\ UNCHANGED <<free, frame, table, sz, new>>

Exec(p) ==
    /\ state[p] = "running" /\ At(p, "idle")
    /\ \E img \in Images : Set(p, [Idle EXCEPT !.op = "exec", !.st = "root", !.segs = img])
    /\ UNCHANGED <<free, state, frame, table, sz, new>>

\* growproc() with n such that sz + n = newsz.
Sbrk(p) ==
    /\ state[p] = "running" /\ At(p, "idle")
    /\ \E newsz \in (0 .. NVA * PGSIZE) \ {sz[p]} :
       LET r == [Idle EXCEPT !.op = "sbrk", !.size = sz[p]] IN
       Set(p, IF newsz > sz[p] THEN Uvmalloc(r, newsz) ELSE Uvmdealloc(r, newsz))
    /\ UNCHANGED <<free, state, frame, table, sz, new>>

(***************************************************************************)
(* allocproc() and proc_pagetable()                                        *)
(***************************************************************************)
Frame(p) ==
    /\ At(p, "frame") /\ Kalloc
    /\ frame' = [frame EXCEPT ![w[p].np] = kalloc]
    /\ Stage(p, "root")
    /\ UNCHANGED <<state, table, sz, new>>

\* freeproc(np) has nothing to free yet.
FrameFails(p) ==
    /\ At(p, "frame") /\ KallocFails
    /\ state' = [state EXCEPT ![w[p].np] = "unused"]
    /\ Set(p, Idle)
    /\ UNCHANGED <<frame, table, sz, new>>

Root(p) ==
    /\ At(p, "root") /\ Kalloc
    /\ new' = [new EXCEPT ![p].root = kalloc]
    /\ Stage(p, "top")
    /\ UNCHANGED <<state, frame, table, sz>>

RootFails(p) ==
    /\ At(p, "root") /\ KallocFails
    /\ Set(p, IF w[p].op = "fork" THEN [w[p] EXCEPT !.st = "unframe"] ELSE Idle)
    /\ UNCHANGED <<state, frame, table, sz, new>>

\* mappages() of the trampoline makes two tables, that of the trapframe none.
Top(p) ==
    LET mapped == [new[p] EXCEPT !.top0 = kalloc, !.tramp = TRUE] IN
    /\ At(p, "top") /\ Kalloc
    /\ IF new[p].top1 = NoPage
       THEN new' = [new EXCEPT ![p].top1 = kalloc] /\ UNCHANGED w
       ELSE /\ new' = [new EXCEPT ![p] = mapped]
            /\ Set(p, IF w[p].op = "fork" THEN Allocate([w[p] EXCEPT !.end = sz[p]])
                      ELSE [w[p] EXCEPT !.st = "next"])
    /\ UNCHANGED <<state, frame, table, sz>>

TopFails(p) ==
    /\ At(p, "top") /\ KallocFails
    /\ Stage(p, "freewalk")
    /\ UNCHANGED <<state, frame, table, sz, new>>

(***************************************************************************)
(* The loops of uvmalloc() and uvmcopy(), and uvmunmap()                   *)
(***************************************************************************)
Mem(p) ==
    /\ At(p, "mem") /\ Kalloc
    /\ Set(p, [w[p] EXCEPT !.mem = kalloc, !.st = "map"])
    /\ UNCHANGED <<state, frame, table, sz, new>>

MemFails(p) ==
    /\ At(p, "mem") /\ KallocFails
    /\ Set(p, Undo(w[p]))
    /\ UNCHANGED <<state, frame, table, sz, new>>

Walked(p) == Tab(p).low1 # NoPage /\ Tab(p).low0[Reg(w[p].a)] # NoPage

\* walk() with alloc: a page-table page that is missing.
Walk(p) ==
    /\ At(p, "map") /\ ~Walked(p) /\ Kalloc
    /\ SetTab(p, IF Tab(p).low1 = NoPage THEN [Tab(p) EXCEPT !.low1 = kalloc]
                 ELSE [Tab(p) EXCEPT !.low0[Reg(w[p].a)] = kalloc])
    /\ UNCHANGED <<state, frame, sz, w>>

\* Mutant of WalkFails: no kfree(mem).
WalkFailsLeak(p) ==
    /\ At(p, "map") /\ ~Walked(p) /\ KallocFails
    /\ Set(p, Undo([w[p] EXCEPT !.mem = NoPage]))
    /\ UNCHANGED <<state, frame, table, sz, new>>

WalkFails(p) ==
    /\ At(p, "map") /\ ~Walked(p) /\ KallocFails
    /\ Stage(p, "unmem")
    /\ UNCHANGED <<state, frame, table, sz, new>>

Map(p) ==
    /\ At(p, "map") /\ Walked(p)
    /\ SetTab(p, [Tab(p) EXCEPT !.leaf[PGNUM(w[p].a)] = w[p].mem])
    /\ Set(p, Allocate([w[p] EXCEPT !.mem = NoPage, !.a = @ + PGSIZE]))
    /\ UNCHANGED <<free, state, frame, sz>>

Unmem(p) ==
    /\ At(p, "unmem") /\ Kfree(w[p].mem)
    /\ Set(p, Undo([w[p] EXCEPT !.mem = NoPage]))
    /\ UNCHANGED <<state, frame, table, sz, new>>

UnmapPage(p) ==
    LET v == PGNUM(w[p].a) IN
    /\ At(p, "unmap") /\ Kfree(Tab(p).leaf[v])
    /\ SetTab(p, [Tab(p) EXCEPT !.leaf[v] = NoPage])
    /\ Set(p, Unmap([w[p] EXCEPT !.a = @ + PGSIZE]))
    /\ UNCHANGED <<state, frame, sz>>
-----------------------------------------------------------------------------
(***************************************************************************)
(* What the calls do around the loops                                      *)
(***************************************************************************)
\* The child runs with a copy of the memory, or freeproc(np).
ForkNext(p) ==
    LET np == w[p].np IN
    /\ At(p, "next") /\ w[p].op = "fork"
    /\ IF w[p].ok
       THEN /\ table' = [table EXCEPT ![np] = new[p]]
            /\ new' = [new EXCEPT ![p] = NoTable]
            /\ sz' = [sz EXCEPT ![np] = sz[p]]
            /\ state' = [state EXCEPT ![np] = "running"]
            /\ Set(p, Idle)
       ELSE /\ new' = [new EXCEPT ![p].tramp = FALSE]
            /\ Stage(p, "unframe")
            /\ UNCHANGED <<table, sz, state>>
    /\ UNCHANGED <<free, frame>>

\* Mutant of SbrkNext: p->sz is set whether or not uvmalloc() succeeded.
SbrkNextSize(p) ==
    /\ At(p, "next") /\ w[p].op = "sbrk"
    /\ sz' = [sz EXCEPT ![p] = w[p].want]
    /\ Set(p, Idle)
    /\ UNCHANGED <<free, state, frame, table, new>>

SbrkNext(p) ==
    /\ At(p, "next") /\ w[p].op = "sbrk"
    /\ sz' = [sz EXCEPT ![p] = IF w[p].ok THEN w[p].want ELSE @]
    /\ Set(p, Idle)
    /\ UNCHANGED <<free, state, frame, table, new>>

\* goto bad: a failed uvmalloc(), or a bad header, a short read of the file or
\* arguments that do not fit.
ExecBad(p) ==
    /\ At(p, "next") /\ w[p].op = "exec" /\ w[p].phase # "free"
    /\ new' = [new EXCEPT ![p].tramp = FALSE]
    /\ \/ ~w[p].ok /\ Set(p, Freeing(w[p], w[p].size))
       \/ w[p].ok /\ Set(p, Freeing(w[p], w[p].want))
    /\ UNCHANGED <<free, state, frame, table, sz>>

\* The next segment, or the guard page and the stack.
ExecLoad(p) ==
    LET r == [w[p] EXCEPT !.size = w[p].want]
        s == [r EXCEPT !.size = PGROUNDUP(@), !.phase = "stack"] IN
    /\ At(p, "next") /\ w[p].op = "exec" /\ w[p].phase = "load" /\ w[p].ok
    /\ Set(p, IF r.segs # <<>> THEN Uvmalloc([r EXCEPT !.segs = Tail(@)], Head(r.segs))
              ELSE Uvmalloc(s, s.size + 2 * PGSIZE))
    /\ UNCHANGED <<free, state, frame, table, sz, new>>

\* Commit to the user image; then the old one is freed.
ExecCommit(p) ==
    /\ At(p, "next") /\ w[p].op = "exec" /\ w[p].phase = "stack" /\ w[p].ok
    /\ table' = [table EXCEPT ![p] = new[p]]
    /\ new' = [new EXCEPT ![p] = [table[p] EXCEPT !.tramp = FALSE]]
    /\ sz' = [sz EXCEPT ![p] = w[p].want]
    /\ Set(p, Freeing(w[p], sz[p]))
    /\ UNCHANGED <<free, state, frame>>

ExecFreed(p) ==
    /\ At(p, "next") /\ w[p].op = "exec" /\ w[p].phase = "free"
    /\ Stage(p, "freewalk")
    /\ UNCHANGED <<free, state, frame, table, sz, new>>

(***************************************************************************)
(* freeproc() and freewalk()                                               *)
(***************************************************************************)
\* The end of a call that failed, or of a successful exec().
End(p) ==
    /\ state' = IF w[p].op = "fork" THEN [state EXCEPT ![w[p].np] = "unused"] ELSE state
    /\ Set(p, Idle)

Unframe(p) ==
    LET np == w[p].np IN
    /\ At(p, "unframe") /\ Kfree(frame[np])
    /\ frame' = [frame EXCEPT ![np] = NoPage]
    /\ IF new[p].root # NoPage THEN Stage(p, "freewalk") /\ UNCHANGED state ELSE End(p)
    /\ UNCHANGED <<table, sz, new>>

\* A table goes when those below it are gone.
Freewalk(p) ==
    LET t == new[p]
        low == {r \in Region : t.low0[r] # NoPage}
        r0 == CHOOSE r \in low : \A s \in low : r <= s IN
    /\ At(p, "freewalk")
    /\ \/ /\ low # {}
          /\ Kfree(t.low0[r0]) /\ new' = [new EXCEPT ![p].low0[r0] = NoPage]
          /\ UNCHANGED <<state, w>>
       \/ /\ low = {} /\ t.low1 # NoPage
          /\ Kfree(t.low1) /\ new' = [new EXCEPT ![p].low1 = NoPage]
          /\ UNCHANGED <<state, w>>
       \/ /\ low = {} /\ t.low1 = NoPage /\ t.top0 # NoPage
          /\ Kfree(t.top0) /\ new' = [new EXCEPT ![p].top0 = NoPage]
          /\ UNCHANGED <<state, w>>
       \/ /\ low = {} /\ t.low1 = NoPage /\ t.top0 = NoPage /\ t.top1 # NoPage
          /\ Kfree(t.top1) /\ new' = [new EXCEPT ![p].top1 = NoPage]
          /\ UNCHANGED <<state, w>>
       \/ /\ low = {} /\ {t.low1, t.top0, t.top1} = {NoPage}
          /\ Kfree(t.root) /\ new' = [new EXCEPT ![p] = NoTable]
          /\ IF w[p].op = "fork" /\ frame[w[p].np] # NoPage
             THEN Stage(p, "unframe") /\ UNCHANGED state ELSE End(p)
    /\ UNCHANGED <<frame, table, sz>>
-----------------------------------------------------------------------------
Step(p) ==
    \/ Fork(p) \/ Exec(p) \/ Sbrk(p)
    \/ Frame(p) \/ FrameFails(p) \/ Root(p) \/ RootFails(p) \/ Top(p) \/ TopFails(p)
    \/ Mem(p) \/ MemFails(p) \/ Walk(p) \/ WalkFails(p) \/ Map(p) \/ Unmem(p) \/ UnmapPage(p)
    \/ ForkNext(p) \/ SbrkNext(p)
    \/ ExecBad(p) \/ ExecLoad(p) \/ ExecCommit(p) \/ ExecFreed(p)
    \/ Unframe(p) \/ Freewalk(p)

Next == (\E p \in Proc : Step(p)) /\ UNCHANGED others

Spec == Init /\ [][Next]_vars
-----------------------------------------------------------------------------
Table ==
    [root : Page \cup {NoPage}, top1 : Page \cup {NoPage}, top0 : Page \cup {NoPage},
     low1 : Page \cup {NoPage}, low0 : [Region -> Page \cup {NoPage}],
     leaf : [Vpn -> Page \cup {NoPage}], tramp : BOOLEAN]

TypeOK ==
    /\ free \subseteq Page /\ others \subseteq Page
    /\ state \in [Proc -> {"unused", "used", "running"}]
    /\ frame \in [Proc -> Page \cup {NoPage}]
    /\ table \in [Proc -> Table] /\ new \in [Proc -> Table]
    /\ sz \in [Proc -> 0 .. NVA * PGSIZE]
    /\ \A p \in Proc : w[p].op \in Ops /\ w[p].st \in Stages /\ w[p].mem \in Page \cup {NoPage}

\* The places in a table that hold page g.
Holders(t, g) ==
    {x \in {<<"root", t.root>>, <<"top1", t.top1>>, <<"top0", t.top0>>, <<"low1", t.low1>>} : x[2] = g}
        \cup {r \in Region : t.low0[r] = g} \X {"low0"}
        \cup {v \in Vpn : t.leaf[v] = g} \X {"leaf"}

\* A page is free, or it has one use in one process: no page is lost, freed
\* twice or shared, at whatever kalloc() a call fails (kalloc.c:42-82,
\* vm.c:223-333, proc.c:120-177).
OwnedOnce ==
    \A g \in Page \ others :
        (IF g \in free THEN 1 ELSE 0)
        + Cardinality({p \in Proc : frame[p] = g}) + Cardinality({p \in Proc : w[p].mem = g})
        + Cardinality(UNION {{p} \X Holders(table[p], g) : p \in Proc})
        + Cardinality(UNION {{p} \X Holders(new[p], g) : p \in Proc}) = 1

\* Page tables, sizes and calls keep their types, and every page has one
\* owner (kalloc.c:42-82, vm.c:223-333).
MemoryInv == TypeOK /\ OwnedOnce

\* A process has exactly the pages below p->sz, all through exec() and after
\* every sbrk() and fork(), failed or not (exec.c:123-137, proc.c:264-281).
ImageWhole ==
    \A p \in Proc : state[p] = "running" /\ w[p].op # "sbrk" =>
        /\ frame[p] # NoPage /\ table[p].root # NoPage /\ table[p].tramp
        /\ \A v \in Vpn : (table[p].leaf[v] # NoPage) <=> v * PGSIZE < sz[p]

\* No panic of vm.c: "mappages: remap", "uvmunmap: walk" and "not mapped",
\* "uvmcopy: page not present" and "freewalk: leaf" (vm.c:157-283, 315-317).
NoPanic ==
    \A p \in Proc :
        LET v == PGNUM(w[p].a) IN
        /\ At(p, "mem") => Tab(p).leaf[v] = NoPage
        /\ At(p, "mem") /\ w[p].op = "fork" => table[p].leaf[v] # NoPage
        /\ At(p, "unmap") => Walked(p) /\ Tab(p).leaf[v] # NoPage
        /\ At(p, "freewalk") => ~new[p].tramp /\ \A u \in Vpn : new[p].leaf[u] = NoPage
=============================================================================
