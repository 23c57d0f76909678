------------------------------- MODULE Inode -------------------------------
(***************************************************************************)
(* Inodes, directories and the system calls that link and unlink them      *)
(* (kernel/fs.c, kernel/sysfile.c): the table of in-memory inodes, their   *)
(* locks and reference counts, the walk along a path, and open(), mkdir(), *)
(* link(), unlink(), chdir() and close() by several processes at once.     *)
(*                                                                         *)
(* A critical section of itable.lock is one step, and so is what a process *)
(* does under the sleep lock of an inode that it takes and releases with   *)
(* no other such section in between.  A lock that is kept while another    *)
(* lock or section is entered is visible.  File contents are left out.     *)
(***************************************************************************)
EXTENDS Naturals, Sequences, FiniteSets

CONSTANTS
    Proc,
    NINODES,   \* inodes on the disk; the root is inode 1
    NINODE,    \* entries of itable
    Name,      \* names of directory entries, without "." and ".."
    Calls,     \* the calls, with their arguments, and
    MaxCalls,  \* bound: how many are made by each process
    NoProc

Inum == 1 .. NINODES
Slot == 1 .. NINODE
ROOTINO == 1
None == 0      \* no inode, no entry
Entry == Name \cup {".."}

ASSUME SizeAssumption == NINODES \in Nat \ {0} /\ NINODE \in Nat \ {0} /\ MaxCalls \in Nat
ASSUME NameAssumption == Name \cap {"..", "/"} = {}
ASSUME CallsAssumption ==
    \A c \in Calls :
        /\ c.op \in {"open", "create", "mkdir", "link", "unlink", "chdir"}
        /\ {c.path, c.new} \subseteq Seq(Entry \cup {"/"})

VARIABLES
    dinode,    \* dinode[i]: type and nlink on the disk
    dir,       \* dir[i]: the entries of inode i
    itable,    \* itable[s]: struct inode
    cwd,       \* cwd[p], file[p]: entries that p->cwd and p's open file refer to
    file,
    pc,        \* where p is in a call
    l,         \* l[p]: its local variables
    puts,      \* puts[p]: entries on which p has yet to call iput()
    iputs,     \* where p is in iput()
    calls,     \* calls[p]: the calls it has made
    lost       \* inodes whose name went away with a directory that was removed

disk == <<dinode, dir, lost>>
vars == <<disk, itable, cwd, file, pc, l, puts, iputs, calls>>

NoEntries == [n \in Entry |-> None]
NoLocals == [op |-> "none", path |-> <<>>, new |-> <<>>, parent |-> FALSE,
             cur |-> None, name |-> "..", ip |-> None, dp |-> None, inum |-> None]

Free(i) == dinode[i].type = "none"

\* The links to inode i in the directories E: its names, and the ".." of the
\* directories that have a name.  The root has one more, from mkfs.
Named(E, i) == i = ROOTINO \/ \E d \in Inum, n \in Name : E[d][n] = i
Links(E, i) ==
    Cardinality({x \in Inum \X Name : E[x[1]][x[2]] = i})
        + Cardinality({d \in Inum \ {ROOTINO} : Named(E, d) /\ E[d][".."] = i})
        + (IF i = ROOTINO THEN 1 ELSE 0)
-----------------------------------------------------------------------------
(***************************************************************************)
(* Initially nobody is in a call and the disk holds any tree that earlier  *)
(* calls can have made.  One process may be in another directory than the  *)
(* root, or have a file open, and either may have been unlinked since.     *)
(***************************************************************************)
\* The directory of i's entry; a removed one was in the root.
Parent(E, i) == IF \E d \in Inum, n \in Name : E[d][n] = i
                THEN CHOOSE d \in Inum : \E n \in Name : E[d][n] = i ELSE ROOTINO

\* E[d][n] for names n: entries are in directories, a directory has one name
\* at most and is below the root; what has no name is in use, a directory is
\* then empty.  Inodes but the root are interchangeable: the first are taken.
IsTree(t, E, used) ==
    /\ t[ROOTINO] = "dir"
    /\ \A d \in Inum, n \in Name : E[d][n] # None =>
          /\ t[d] = "dir" /\ t[E[d][n]] # "none" /\ E[d][n] # ROOTINO
          /\ Named(E, d)
          /\ t[E[d][n]] = "dir" => E[d][n] # d /\ Parent(E, d) # E[d][n]
                /\ \A e \in Inum, m \in Name : E[e][m] = E[d][n] => e = d /\ m = n
    /\ \A i \in Inum : t[i] # "none" => Named(E, i) \/ i \in used
    /\ \A i \in used : t[i] # "none"
    /\ \A i \in Inum \ {1} : t[i] # "none" => t[i - 1] # "none"

Init ==
    /\ \E t \in [Inum -> {"none", "file", "dir"}],
          E \in [Inum -> [Name -> Inum \cup {None}]],
          q \in Proc, c \in Inum, f \in Inum \cup {None} :
       LET used == {ROOTINO, c, f} \ {None}
           slot(i) == IF i = None THEN None ELSE Cardinality({j \in used : j <= i}) IN
       /\ IsTree(t, E, used) /\ t[c] = "dir" /\ (c = ROOTINO \/ f = None)
       /\ dir = [i \in Inum |-> [n \in Entry |->
             IF n # ".." THEN E[i][n] ELSE IF t[i] = "dir" THEN Parent(E, i) ELSE None]]
       /\ dinode = [i \in Inum |-> [type |-> t[i], nlink |-> Links(dir, i)]]
       /\ cwd = [p \in Proc |-> IF p = q THEN slot(c) ELSE slot(ROOTINO)]
       /\ file = [p \in Proc |-> IF p = q THEN slot(f) ELSE None]
       /\ itable = [s \in Slot |->
             IF \E i \in used : slot(i) = s
             THEN LET i == CHOOSE i \in used : slot(i) = s IN
                  [inum |-> i, valid |-> TRUE, type |-> t[i], nlink |-> Links(dir, i), lock |-> NoProc,
                   ref |-> Cardinality({p \in Proc : cwd[p] = s}) + Cardinality({p \in Proc : file[p] = s})]
             ELSE [inum |-> None, valid |-> FALSE, type |-> "none", nlink |-> 0, lock |-> NoProc,
                   ref |-> 0]]
    /\ pc = [p \in Proc |-> "idle"]
    /\ l = [p \in Proc |-> NoLocals]
    /\ puts = [p \in Proc |-> <<>>]
    /\ iputs = [p \in Proc |-> "test"]
    /\ calls = [p \in Proc |-> 0]
    /\ lost = {}
-----------------------------------------------------------------------------
(***************************************************************************)
(* iget(), ilock(), iunlock() on a table T                                 *)
(***************************************************************************)
\* Mutant of InTable: the scan stops at the first entry that is empty.
InTableFirst(T, i) ==
    {s \in Slot : T[s].ref > 0 /\ T[s].inum = i /\ \A t \in Slot : t < s => T[t].ref > 0}

InTable(T, i) == {s \in Slot : T[s].ref > 0 /\ T[s].inum = i}
Empty(T) == {s \in Slot : T[s].ref = 0}
First(S) == CHOOSE s \in S : \A t \in S : s <= t

IgetSlot(T, i) == First(IF InTable(T, i) # {} THEN InTable(T, i) ELSE Empty(T))

Iget(T, i) ==
    LET s == IgetSlot(T, i) IN
    IF InTable(T, i) # {} THEN [T EXCEPT ![s].ref = @ + 1]
    ELSE [T EXCEPT ![s] = [@ EXCEPT !.inum = i, !.ref = 1, !.valid = FALSE]]

Idup(T, s) == [T EXCEPT ![s].ref = @ + 1]

\* ilock() reads the inode from the disk; one that is free would panic.
CanLock(s) == itable[s].lock = NoProc /\ (itable[s].valid \/ ~Free(itable[s].inum))

Load(s) ==
    IF itable[s].valid THEN itable
    ELSE [itable EXCEPT ![s] = [@ EXCEPT !.valid = TRUE,
             !.type = dinode[itable[s].inum].type, !.nlink = dinode[itable[s].inum].nlink]]

Lock(T, s, p) == [T EXCEPT ![s].lock = p]
Unlock(T, s) == [T EXCEPT ![s].lock = NoProc]

\* ip->nlink = n and iupdate(ip), in memory and on the disk.
SetNlink(T, s, n) == [T EXCEPT ![s].nlink = n]
Iupdate(D, T, s) == [D EXCEPT ![T[s].inum] = [type |-> T[s].type, nlink |-> T[s].nlink]]

\* The entry that dirlookup() finds in the directory of slot s.
Dirlookup(s, n) == dir[itable[s].inum][n]
Isdirempty(s) == \A n \in Name : Dirlookup(s, n) = None
-----------------------------------------------------------------------------
(***************************************************************************)
(* Where a process goes, with the iput()s that it calls on its way         *)
(***************************************************************************)
Goto(p, s, locals, ps) ==
    /\ pc' = [pc EXCEPT ![p] = s]
    /\ l' = [l EXCEPT ![p] = IF s = "done" THEN NoLocals ELSE locals]
    /\ puts' = [puts EXCEPT ![p] = ps]
    /\ UNCHANGED <<iputs, calls>>

At(p, s) == pc[p] = s /\ puts[p] = <<>>

\* A lookup that fails ends the call, except for the second one of link().
Failed(p) == IF l[p].op = "link" /\ l[p].ip # None THEN "link_bad" ELSE "done"

\* namex() starts at the root, for a path that begins with "/", or at the
\* current directory; v are the locals.
StartNamex(p, T, path, v) ==
    LET root == Head(path) = "/" IN
    /\ itable' = IF root THEN Iget(T, ROOTINO) ELSE Idup(T, cwd[p])
    /\ Goto(p, "namex", [v EXCEPT !.cur = IF root THEN IgetSlot(T, ROOTINO) ELSE cwd[p],
                                  !.path = IF root THEN Tail(path) ELSE path], <<>>)

Begin(p) ==
    /\ At(p, "idle") /\ calls[p] < MaxCalls
    /\ \E c \in Calls :
          StartNamex(p, itable, c.path,
             [NoLocals EXCEPT !.op = c.op, !.new = c.new, !.parent = c.op \in {"create", "mkdir", "unlink"}])
    /\ UNCHANGED <<disk, cwd, file>>

\* One turn of the loop of namex(), or its end.
Walk(p) ==
    LET v == l[p]
        s == v.cur
        then == CASE v.op = "open" -> "open"
                  [] v.op \in {"create", "mkdir"} -> "create"
                  [] v.op = "link" -> IF v.ip = None THEN "link" ELSE "link_dp"
                  [] v.op = "unlink" -> "unlink"
                  [] v.op = "chdir" -> "chdir"
        T == Load(s)
        elem == Head(v.path)
        i == Dirlookup(s, elem)
    IN
    /\ At(p, "namex")
    /\ \/ /\ v.path = <<>>
          /\ IF v.parent THEN Goto(p, Failed(p), v, <<s>>) ELSE Goto(p, then, v, <<>>)
          /\ UNCHANGED itable
       \/ /\ v.path # <<>> /\ CanLock(s)
          /\ T[s].type # "dir"
          /\ Goto(p, Failed(p), v, <<s>>)
          /\ itable' = T
       \/ /\ v.path # <<>> /\ CanLock(s)
          /\ T[s].type = "dir" /\ v.parent /\ Len(v.path) = 1
          /\ Goto(p, then, [v EXCEPT !.path = <<>>, !.name = elem], <<>>)
          /\ itable' = T
       \/ /\ v.path # <<>> /\ CanLock(s)
          /\ T[s].type = "dir" /\ ~(v.parent /\ Len(v.path) = 1)
          /\ IF i = None
             THEN Goto(p, Failed(p), v, <<s>>) /\ itable' = T
             ELSE /\ Goto(p, "namex", [v EXCEPT !.path = Tail(@), !.cur = IgetSlot(T, i)], <<s>>)
                  /\ itable' = Iget(T, i)
    /\ UNCHANGED <<disk, cwd, file>>
-----------------------------------------------------------------------------

Unneeded(s) == itable[s].ref = 1 /\ itable[s].valid /\ itable[s].nlink = 0

InIput(p, stage) == puts[p] # <<>> /\ iputs[p] = stage

\* ref--, and the end of iput().
DropRef(p) ==
    LET s == Head(puts[p]) IN
    /\ \/ InIput(p, "test") /\ ~Unneeded(s)
       \/ InIput(p, "freed")
    /\ itable' = [itable EXCEPT ![s].ref = @ - 1]
    /\ puts' = [puts EXCEPT ![p] = Tail(@)]
    /\ iputs' = [iputs EXCEPT ![p] = "test"]
    /\ UNCHANGED <<disk, cwd, file, pc, l, calls>>

\* acquiresleep() with itable.lock held.
IputLock(p) ==
    LET s == Head(puts[p]) IN
    /\ InIput(p, "test") /\ Unneeded(s)
    /\ itable[s].lock = NoProc
    /\ itable' = Lock(itable, s, p)
    /\ iputs' = [iputs EXCEPT ![p] = "free"]
    /\ UNCHANGED <<disk, cwd, file, pc, l, puts, calls>>

\* itrunc(), type = 0, iupdate(), valid = 0, releasesleep().
IputFree(p) ==
    LET s == Head(puts[p])
        i == itable[s].inum
        T == [itable EXCEPT ![s] = [@ EXCEPT !.type = "none", !.valid = FALSE, !.lock = NoProc]] IN
    /\ InIput(p, "free")
    /\ itable' = T
    /\ dinode' = Iupdate(dinode, T, s)
    /\ dir' = [dir EXCEPT ![i] = NoEntries]
    /\ lost' = (lost \ {i}) \cup ({dir[i][n] : n \in Name} \ {None})
    /\ iputs' = [iputs EXCEPT ![p] = "freed"]
    /\ UNCHANGED <<cwd, file, pc, l, puts, calls>>
-----------------------------------------------------------------------------
(***************************************************************************)
(* create()                                                                *)
(***************************************************************************)
\* ilock(dp) and dirlookup(); dp stays locked when the name is new.
CreateLookup(p) ==
    LET v == l[p]
        s == v.cur
        i == Dirlookup(s, v.name)
        T == Load(s) IN
    /\ At(p, "create") /\ CanLock(s)
    /\ IF i # None
       THEN /\ itable' = Iget(T, i)
            /\ Goto(p, "create_old", [v EXCEPT !.ip = IgetSlot(T, i)], <<s>>)
       ELSE /\ itable' = Lock(T, s, p)
            /\ Goto(p, "ialloc", [v EXCEPT !.dp = s], <<>>)
    /\ UNCHANGED <<disk, cwd, file>>

\* Mutant of CreateOld: no iput() when the type is wrong.
CreateOldLeak(p) ==
    LET s == l[p].ip
        T == Load(s) IN
    /\ At(p, "create_old") /\ CanLock(s)
    /\ IF l[p].op = "create" /\ T[s].type = "file"
       THEN itable' = Lock(T, s, p) /\ Goto(p, "open_file", l[p], <<>>)
       ELSE itable' = T /\ Goto(p, "done", l[p], <<>>)
    /\ UNCHANGED <<disk, cwd, file>>

\* The file exists: open() takes it, locked.
CreateOld(p) ==
    LET s == l[p].ip
        T == Load(s) IN
    /\ At(p, "create_old") /\ CanLock(s)
    /\ IF l[p].op = "create" /\ T[s].type = "file"
       THEN itable' = Lock(T, s, p) /\ Goto(p, "open_file", l[p], <<>>)
       ELSE itable' = T /\ Goto(p, "done", l[p], <<s>>)
    /\ UNCHANGED <<disk, cwd, file>>

\* ialloc() marks an inode that it finds free.
Ialloc(p) ==
    /\ At(p, "ialloc")
    /\ \E i \in Inum :
       /\ Free(i)
       /\ dinode' = [dinode EXCEPT ![i] =
             [type |-> IF l[p].op = "mkdir" THEN "dir" ELSE "file", nlink |-> 0]]
       /\ Goto(p, "create_new", [l[p] EXCEPT !.inum = i], <<>>)
    /\ UNCHANGED <<dir, lost, itable, cwd, file>>

IallocFails(p) ==
    /\ At(p, "ialloc")
    /\ \A i \in Inum : ~Free(i)
    /\ itable' = Unlock(itable, l[p].dp)
    /\ Goto(p, "done", l[p], <<l[p].dp>>)
    /\ UNCHANGED <<disk, cwd, file>>

\* The table after iget() and ilock() of the new inode.
WithNew(p) ==
    LET s == IgetSlot(itable, l[p].inum) IN
    Lock([Iget(itable, l[p].inum) EXCEPT ![s].valid = TRUE,
             ![s].type = dinode[l[p].inum].type, ![s].nlink = 1], s, p)

\* iget() of ialloc() and the rest of create(), under both locks.
CreateNew(p) ==
    LET i == l[p].inum
        d == l[p].dp
        s == IgetSlot(itable, i)
        up == dinode[i].type = "dir"
        T == SetNlink(WithNew(p), d, itable[d].nlink + (IF up THEN 1 ELSE 0)) IN
    /\ At(p, "create_new")
    /\ itable' = Unlock(T, d)
    /\ dinode' = Iupdate(Iupdate(dinode, T, s), T, d)
    /\ dir' = [dir EXCEPT ![T[d].inum][l[p].name] = i,
                          ![i][".."] = IF up THEN T[d].inum ELSE None]
    /\ Goto(p, IF up THEN "made" ELSE "open_file", [l[p] EXCEPT !.ip = s], <<d>>)
    /\ UNCHANGED <<lost, cwd, file>>

\* dirlink() finds no disk block: nlink = 0, iunlockput(ip).
CreateFails(p) ==
    LET s == IgetSlot(itable, l[p].inum)
        T == SetNlink(WithNew(p), s, 0) IN
    /\ At(p, "create_new")
    /\ itable' = Unlock(T, s)
    /\ dinode' = Iupdate(dinode, T, s)
    /\ Goto(p, "unlock_dp", l[p], <<s>>)
    /\ UNCHANGED <<dir, lost, cwd, file>>

\* iunlockput(dp), after a failure of create() or unlink().
UnlockDp(p) ==
    /\ At(p, "unlock_dp")
    /\ itable' = Unlock(itable, l[p].dp)
    /\ Goto(p, "done", l[p], <<l[p].dp>>)
    /\ UNCHANGED <<disk, cwd, file>>

\* mkdir(): iunlockput(ip).
Made(p) ==
    /\ At(p, "made")
    /\ itable' = Unlock(itable, l[p].ip)
    /\ Goto(p, "done", l[p], <<l[p].ip>>)
    /\ UNCHANGED <<disk, cwd, file>>
-----------------------------------------------------------------------------
(***************************************************************************)
(* open(): a process has one descriptor, so that a second open() fails at  *)
(* fdalloc().                                                              *)
(***************************************************************************)
\* ip->lock is held until the file refers to the inode.
OpenFile(p) ==
    LET s == l[p].ip IN
    /\ At(p, "open_file")
    /\ itable' = Unlock(itable, s)
    /\ IF file[p] = None
       THEN file' = [file EXCEPT ![p] = s] /\ Goto(p, "done", l[p], <<>>)
       ELSE UNCHANGED file /\ Goto(p, "done", l[p], <<s>>)
    /\ UNCHANGED <<disk, cwd>>

\* Without O_CREATE; a directory opens only for reading.
Open(p) ==
    LET s == l[p].cur
        T == Load(s) IN
    /\ At(p, "open") /\ CanLock(s)
    /\ \/ itable' = Lock(T, s, p) /\ Goto(p, "open_file", [l[p] EXCEPT !.ip = s], <<>>)
       \/ T[s].type = "dir" /\ itable' = T /\ Goto(p, "done", l[p], <<s>>)
    /\ UNCHANGED <<disk, cwd, file>>

\* close(): the last reference to the file goes.
Close(p) ==
    /\ At(p, "idle") /\ calls[p] < MaxCalls /\ file[p] # None
    /\ file' = [file EXCEPT ![p] = None]
    /\ Goto(p, "done", NoLocals, <<file[p]>>)
    /\ UNCHANGED <<disk, itable, cwd>>

(***************************************************************************)
(* link()                                                                  *)
(***************************************************************************)
\* nlink++ before there is an entry; then the second lookup.
LinkCount(p) ==
    LET s == l[p].cur
        T == Load(s)
        U == SetNlink(T, s, T[s].nlink + 1) IN
    /\ At(p, "link") /\ CanLock(s)
    /\ IF T[s].type = "dir"
       THEN itable' = T /\ Goto(p, "done", l[p], <<s>>) /\ UNCHANGED dinode
       ELSE /\ dinode' = Iupdate(dinode, U, s)
            /\ StartNamex(p, U, l[p].new,
                  [l[p] EXCEPT !.ip = s, !.new = <<>>, !.parent = TRUE])
    /\ UNCHANGED <<dir, lost, cwd, file>>

\* dirlink() into the directory, when the name is new.
LinkEntry(p) ==
    LET s == l[p].cur IN
    /\ At(p, "link_dp") /\ CanLock(s)
    /\ Dirlookup(s, l[p].name) = None
    /\ itable' = Load(s)
    /\ dir' = [dir EXCEPT ![itable[s].inum][l[p].name] = itable[l[p].ip].inum]
    /\ Goto(p, "done", l[p], <<s, l[p].ip>>)
    /\ UNCHANGED <<dinode, lost, cwd, file>>

\* The name exists, or there is no disk block for the entry.
LinkFails(p) ==
    LET s == l[p].cur IN
    /\ At(p, "link_dp") /\ CanLock(s)
    /\ itable' = Load(s)
    /\ Goto(p, "link_bad", l[p], <<s>>)
    /\ UNCHANGED <<disk, cwd, file>>

\* Mutant of LinkBad: no iupdate().
LinkBadUnsaved(p) ==
    LET s == l[p].ip IN
    /\ At(p, "link_bad") /\ CanLock(s)
    /\ itable' = SetNlink(Load(s), s, Load(s)[s].nlink - 1)
    /\ Goto(p, "done", l[p], <<s>>)
    /\ UNCHANGED <<disk, cwd, file>>

LinkBad(p) ==
    LET s == l[p].ip
        T == SetNlink(Load(s), s, Load(s)[s].nlink - 1) IN
    /\ At(p, "link_bad") /\ CanLock(s)
    /\ itable' = T
    /\ dinode' = Iupdate(dinode, T, s)
    /\ Goto(p, "done", l[p], <<s>>)
    /\ UNCHANGED <<dir, lost, cwd, file>>

(***************************************************************************)
(* unlink()                                                                *)
(***************************************************************************)
\* ilock(dp) and dirlookup(); dp stays locked when there is an entry.
UnlinkLookup(p) ==
    LET s == l[p].cur
        T == Load(s)
        i == Dirlookup(s, l[p].name) IN
    /\ At(p, "unlink") /\ CanLock(s)
    /\ IF l[p].name = ".." \/ i = None
       THEN itable' = T /\ Goto(p, "done", l[p], <<s>>)
       ELSE /\ itable' = Lock(Iget(T, i), s, p)
            /\ Goto(p, "unlink_ip", [l[p] EXCEPT !.dp = s, !.ip = IgetSlot(T, i)], <<>>)
    /\ UNCHANGED <<disk, cwd, file>>

\* ilock(ip) under dp's lock; the entry goes first.
UnlinkEntry(p) ==
    LET s == l[p].ip
        d == l[p].dp
        T == Load(s)
        U == SetNlink(T, d, T[d].nlink - (IF T[s].type = "dir" THEN 1 ELSE 0)) IN
    /\ At(p, "unlink_ip") /\ CanLock(s)
    /\ IF T[s].type = "dir" /\ ~Isdirempty(s)
       THEN itable' = T /\ Goto(p, "unlock_dp", l[p], <<s>>) /\ UNCHANGED <<dinode, dir>>
       ELSE /\ itable' = Lock(Unlock(U, d), s, p)
            /\ dinode' = Iupdate(dinode, U, d)
            /\ dir' = [dir EXCEPT ![T[d].inum][l[p].name] = None]
            /\ Goto(p, "unlink_nlink", l[p], <<d>>)
    /\ UNCHANGED <<lost, cwd, file>>

\* Then the link count.
UnlinkCount(p) ==
    LET s == l[p].ip
        T == SetNlink(itable, s, itable[s].nlink - 1) IN
    /\ At(p, "unlink_nlink")
    /\ itable' = Unlock(T, s)
    /\ dinode' = Iupdate(dinode, T, s)
    /\ Goto(p, "done", l[p], <<s>>)
    /\ UNCHANGED <<dir, lost, cwd, file>>

(***************************************************************************)
(* chdir()                                                                 *)
(***************************************************************************)
Chdir(p) ==
    LET s == l[p].cur
        T == Load(s) IN
    /\ At(p, "chdir") /\ CanLock(s)
    /\ itable' = T
    /\ IF T[s].type = "dir"
       THEN Goto(p, "chdir_set", [l[p] EXCEPT !.ip = s], <<cwd[p]>>)
       ELSE Goto(p, "done", l[p], <<s>>)
    /\ UNCHANGED <<disk, cwd, file>>

\* end_op(), and p->cwd = ip.
ChdirSet(p) ==
    /\ At(p, "chdir_set")
    /\ cwd' = [cwd EXCEPT ![p] = l[p].ip]
    /\ Goto(p, "done", l[p], <<>>)
    /\ UNCHANGED <<disk, itable, file>>

\* end_op() and return.
Return(p) ==
    /\ At(p, "done")
    /\ pc' = [pc EXCEPT ![p] = "idle"]
    /\ calls' = [calls EXCEPT ![p] = @ + 1]
    /\ UNCHANGED <<disk, itable, cwd, file, l, puts, iputs>>

\* Everybody has made the calls that the bound allows.
Finished ==
    /\ \A p \in Proc : At(p, "idle") /\ calls[p] = MaxCalls
    /\ UNCHANGED vars
-----------------------------------------------------------------------------
Call(p) ==
    \/ Begin(p) \/ Close(p) \/ Walk(p) \/ Return(p)
    \/ DropRef(p) \/ IputLock(p) \/ IputFree(p)
    \/ CreateLookup(p) \/ CreateOld(p) \/ Ialloc(p) \/ IallocFails(p)
    \/ CreateNew(p) \/ CreateFails(p) \/ UnlockDp(p) \/ Made(p)
    \/ OpenFile(p) \/ Open(p)
    \/ LinkCount(p) \/ LinkEntry(p) \/ LinkFails(p) \/ LinkBad(p)
    \/ UnlinkLookup(p) \/ UnlinkEntry(p) \/ UnlinkCount(p)
    \/ Chdir(p) \/ ChdirSet(p)

Next == Finished \/ \E p \in Proc : Call(p)

Spec == Init /\ [][Next]_vars
-----------------------------------------------------------------------------
TypeOK ==
    /\ dinode \in [Inum -> [type : {"none", "file", "dir"}, nlink : Nat]]
    /\ dir \in [Inum -> [Entry -> Inum \cup {None}]]
    /\ itable \in [Slot -> [inum : Inum \cup {None}, ref : Nat, valid : BOOLEAN,
                            type : {"none", "file", "dir"}, nlink : Nat, lock : Proc \cup {NoProc}]]
    /\ cwd \in [Proc -> Slot] /\ file \in [Proc -> Slot \cup {None}]
    /\ \A p \in Proc : puts[p] \in Seq(Slot)
    /\ iputs \in [Proc -> {"test", "free", "freed"}]
    /\ lost \subseteq Inum

\* The pointers to table entries that p has, in its structure and its locals.
Pointers(p) ==
    puts[p] \o <<
        IF pc[p] = "chdir_set" THEN None ELSE cwd[p],
        file[p],
        IF pc[p] \in {"namex", "open", "create", "link", "link_dp", "unlink", "chdir"}
        THEN l[p].cur ELSE None,
        IF \/ pc[p] \in {"create_old", "open_file", "made", "unlink_ip", "unlink_nlink", "chdir_set"}
           \/ l[p].op = "link" /\ pc[p] \in {"namex", "link_dp", "link_bad"}
        THEN l[p].ip ELSE None,
        IF pc[p] \in {"ialloc", "create_new", "unlock_dp", "unlink_ip"} THEN l[p].dp ELSE None >>

\* "ip->ref tracks the number of in-memory pointers to the entry" (fs.c:133),
\* through every failure path of every call.
RefsCounted ==
    \A s \in Slot : itable[s].ref =
        Cardinality({x \in Proc \X (1 .. 8) :
            x[2] \in DOMAIN Pointers(x[1]) /\ Pointers(x[1])[x[2]] = s})

\* iget() never makes a second entry for an inode (fs.c:253-277).
OneEntry ==
    \A s, t \in Slot : itable[s].ref > 0 /\ itable[t].ref > 0 /\ itable[s].inum = itable[t].inum => s = t

\* The table's fields and the link counts keep their types, and an inode has
\* one entry (fs.c:253-277).
TableInv == TypeOK /\ OneEntry


\* What a transaction leaves on the disk: entries name allocated inodes, and
\* nlink is "the number of links referring to it" (fs.c:112), unless a name
\* was lost with a removed directory.
LinksCounted ==
    (\A p \in Proc : pc[p] = "idle") =>
        /\ \A d \in Inum, n \in Name : dir[d][n] # None => ~Free(dir[d][n])
        /\ \A i \in Inum \ lost : ~Free(i) => dinode[i].nlink = Links(dir, i)
=============================================================================
