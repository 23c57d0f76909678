----------------------------- MODULE LogProofs ------------------------------
(***************************************************************************)
(* Proofs about the write-ahead log for any number of processes, blocks    *)
(* and values, any log size and any number of crashes: LogInv is an        *)
(* invariant, and from it the write-ahead rule, durability at quiescence   *)
(* and the implementation of AtomicDisk.                                   *)
(***************************************************************************)
EXTENDS Log, FiniteSetTheorems, SequenceTheorems, TLAPS

USE DEF Stages, CommitStages, Phases

\* Finite sets of processes: admitting one, or ending one, counts by one.
LEMMA ActiveFinite == IsFiniteSet(Active) /\ Cardinality(Active) \in Nat
BY ProcAssumption, FS_Subset, FS_CardinalityType DEF Active

\* begin_op() counts the call it admits.
LEMMA CountJoin ==
    ASSUME NEW p \in Proc, p \notin Active, Active' = Active \cup {p}
    PROVE  Cardinality(Active') = Cardinality(Active) + 1
BY ActiveFinite, FS_AddElement

\* end_op() counts the call it ends.
LEMMA CountLeave ==
    ASSUME NEW p \in Proc, p \in Active, Active' = Active \ {p}
    PROVE  Cardinality(Active') = Cardinality(Active) - 1
BY ActiveFinite, FS_RemoveElement

\* A process counted alone is the only one active.
LEMMA CountLast ==
    ASSUME NEW p \in Proc, p \in Active, Cardinality(Active) = 1
    PROVE  Active = {p}
<1>1. Cardinality(Active \ {p}) = 0 /\ IsFiniteSet(Active \ {p})
  BY ActiveFinite, FS_RemoveElement
<1>. QED  BY <1>1, FS_EmptySet

\* The blocks that a list names, and none for the empty list.
LEMMA RangeIs ==
    ASSUME NEW s \in Seq(Block)
    PROVE  /\ Range(s) = {s[i] : i \in 1 .. Len(s)}
           /\ \A i \in 1 .. Len(s) : s[i] \in Range(s) /\ s[i] \in Block
<1>1. DOMAIN s = 1 .. Len(s) /\ \A i \in 1 .. Len(s) : s[i] \in Block
  OBVIOUS
<1>2. Range(s) = {s[i] : i \in 1 .. Len(s)}
  BY ONLY <1>1 DEF Range
<1>. QED  BY ONLY <1>1, <1>2

LEMMA RangeEmpty == Range(<<>>) = {}
BY DEF Range

\* The state that initlog() finds on a fresh disk satisfies the invariant.
LEMMA InitInv == Init => LogInv
<1>. SUFFICES ASSUME Init PROVE LogInv
  OBVIOUS
<1>1. TypeOK
  <2>1. lh \in Seq(Block) /\ hdr \in Seq(Block)
    BY DEF Init
  <2>2. logged \in [Proc -> SUBSET Block]
    BY DEF Init
  <2>3. /\ pc \in [Proc -> Stages] /\ hold \in [Proc -> Block \cup {NoBlock}]
        /\ cache \in [Block -> Value \cup {NotCached}]
    BY DEF Init
  <2>4. /\ home \in [Block -> Value] /\ logblk \in [1 .. LOGSIZE -> Value]
        /\ pinned \subseteq Block /\ outstanding \in Nat /\ tail \in Nat
        /\ committing \in BOOLEAN /\ phase \in Phases
    BY DEF Init
  <2>5. crashes \in 0 .. MaxCrash
    BY SizeAssumption DEF Init
  <2>. QED  BY <2>1, <2>2, <2>3, <2>4, <2>5 DEF TypeOK
<1>2. ListsOK
  BY SizeAssumption DEF Init, ListsOK, Distinct
<1>3. Active = {} /\ Held = {}
  BY DEF Init, Active, Held
<1>4. CallsOK
  BY <1>3, FS_EmptySet DEF Init, CallsOK
<1>5. CacheOK
  BY <1>3 DEF Init, CacheOK, Bread
<1>6. RecoveryOK
  BY DEF Init, RecoveryOK, HomeHolds
<1>. QED  BY <1>1, <1>2, <1>4, <1>5, <1>6 DEF LogInv, Init

\* Appending a block that the list does not name keeps it free of repeats.
LEMMA AppendFresh ==
    ASSUME NEW s \in Seq(Block), NEW b \in Block, b \notin Range(s), Distinct(s)
    PROVE  /\ Append(s, b) \in Seq(Block)
           /\ Len(Append(s, b)) = Len(s) + 1
           /\ Distinct(Append(s, b))
           /\ Range(Append(s, b)) = Range(s) \cup {b}
<1>. DEFINE t == Append(s, b)
<1>1. /\ t \in Seq(Block) /\ Len(t) = Len(s) + 1 /\ Len(s) \in Nat
      /\ DOMAIN s = 1 .. Len(s) /\ DOMAIN t = 1 .. Len(t)
      /\ \A i \in 1 .. Len(s) : t[i] = s[i]
      /\ t[Len(s) + 1] = b
  BY AppendProperties, LenProperties
<1>. HIDE DEF t
<1>2. \A i \in 1 .. Len(s) : s[i] # b
  BY <1>1 DEF Range
<1>3. Distinct(t)
  BY <1>1, <1>2 DEF Distinct
<1>4. Range(t) = Range(s) \cup {b}
  BY <1>1 DEF Range
<1>. QED  BY <1>1, <1>3, <1>4 DEF t

\* A step that touches neither the lists, the disk nor what reads return, and
\* no committing process, keeps where the commit stands.
LEMMA CommitFrame ==
    ASSUME CommitOK,
           UNCHANGED <<home, logblk, hdr, lh, tail, pinned>>,
           \A b \in Block : Bread(b)' = Bread(b),
           TypeOK,
           \A q \in Proc : pc[q] \in CommitStages \/ pc'[q] \in CommitStages
                               => pc'[q] = pc[q],
           ~committing' /\ Active' = {} => ~committing /\ Active = {}
    PROVE  CommitOK'
<1>1. \A q \in Proc : \A c \in CommitStages : pc'[q] = c <=> pc[q] = c
  OBVIOUS
<1>2. ASSUME NEW q \in Proc, pc'[q] = "write_log"
      PROVE  tail' < Len(lh') /\ LogHolds(lh, tail)'
  BY <1>1, <1>2 DEF CommitOK, LogHolds, TypeOK
<1>3. ASSUME NEW q \in Proc, pc'[q] = "write_head"
      PROVE  tail' = 0 /\ Len(lh') > 0 /\ LogHolds(lh, Len(lh))'
  BY <1>1, <1>3 DEF CommitOK, LogHolds, TypeOK
<1>4. ASSUME NEW q \in Proc, pc'[q] = "install"
      PROVE  /\ hdr' = lh' /\ tail' < Len(lh')
             /\ LogHolds(lh, Len(lh))' /\ HomeHolds(lh, tail)'
             /\ pinned' = {lh'[i] : i \in tail' + 1 .. Len(lh')}
  BY <1>1, <1>4 DEF CommitOK, LogHolds, HomeHolds, TypeOK
<1>5. ASSUME NEW q \in Proc, pc'[q] = "clear"
      PROVE  HomeHolds(hdr, Len(hdr))'
  BY <1>1, <1>5 DEF CommitOK, HomeHolds
<1>6. /\ \A q \in Proc : pc'[q] \in {"clear", "wake"} => lh' = <<>>
      /\ hdr' # <<>> => \E q \in Proc : pc'[q] \in {"install", "clear"}
      /\ ~committing' /\ Active' = {} => lh' = <<>>
      /\ (\A q \in Proc : pc'[q] # "install") => pinned' = Range(lh')
  BY <1>1 DEF CommitOK, Range
<1>. QED  BY <1>2, <1>3, <1>4, <1>5, <1>6 DEF CommitOK

-----------------------------------------------------------------------------
(***************************************************************************)
(* One lemma per action: a step that starts in LogInv ends in LogInv.      *)
(***************************************************************************)
Steady == LogInv /\ phase = "up" /\ UNCHANGED <<phase, crashes>>

\* Steps that only move a process in or out of its sleep in begin_op().
LEMMA SleepInv ==
    ASSUME Steady, NEW p \in Proc, BeginSleep(p) \/ SpuriousWakeup(p)
    PROVE  LogInv'
<1>. USE DEF Steady, LogInv, BeginSleep, SpuriousWakeup, disk, memory
<1>1. TypeOK'
  BY DEF TypeOK
<1>2. ListsOK'
  BY DEF ListsOK
<1>3. Active' = Active /\ Held' = Held
  BY DEF Active, Held, TypeOK
<1>4. CallsOK'
  <2>1. \A q \in Proc : /\ hold'[q] = hold[q] /\ pc'[q] = "dirty" <=> pc[q] = "dirty"
                        /\ pc'[q] \in CommitStages <=> pc[q] \in CommitStages
    BY DEF TypeOK
  <2>. QED  BY <1>3, <2>1 DEF CallsOK
<1>5. CacheOK'
  BY <1>3 DEF CacheOK, Bread
<1>6. CommitOK'
  BY <1>3, CommitFrame DEF Bread, TypeOK
<1>. QED  BY <1>1, <1>2, <1>4, <1>5, <1>6

\* begin_op() admits a call: nobody is committing.
LEMMA BeginAdmitInv ==
    ASSUME Steady, NEW p \in Proc, BeginAdmit(p)
    PROVE  LogInv'
<1>. USE DEF Steady, LogInv, BeginAdmit, disk
<1>1. TypeOK'
  BY DEF TypeOK
<1>2. ListsOK'
  BY DEF ListsOK
<1>3. Active' = Active \cup {p} /\ p \notin Active /\ Held' = Held
  BY DEF Active, Held, TypeOK
<1>4. CallsOK'
  BY <1>3, CountJoin DEF CallsOK, TypeOK
<1>5. CacheOK'
  BY <1>3 DEF CacheOK, Bread
<1>6. CommitOK'
  BY <1>3 DEF CommitOK, CallsOK, LogHolds, HomeHolds, Bread, TypeOK
<1>. QED  BY <1>1, <1>2, <1>4, <1>5, <1>6

\* A call changes a buffer it holds: no commit is reading it.
LEMMA ModifyInv ==
    ASSUME Steady, NEW p \in Proc, NEW b \in Block, NEW v \in Value,
           Modify(p, b, v)
    PROVE  LogInv'
<1>. USE DEF Steady, LogInv, Modify, disk
<1>1. TypeOK'
  BY DEF TypeOK
<1>2. ListsOK'
  BY DEF ListsOK
<1>3. Active' = Active /\ Held' = Held \cup {b} /\ p \in Active
  BY BlockAssumption DEF Active, Held, TypeOK, CallsOK
<1>4. CallsOK'
  BY <1>3, BlockAssumption DEF CallsOK, TypeOK, Held
<1>5. CacheOK'
  BY <1>3, ValueAssumption DEF CacheOK, Bread, TypeOK
<1>6. CommitOK'
  BY <1>3 DEF CommitOK, CallsOK, TypeOK
<1>. QED  BY <1>1, <1>2, <1>4, <1>5, <1>6

\* log_write() pins what it appends, and absorbs what is there already.
LEMMA LogWriteInv ==
    ASSUME Steady, NEW p \in Proc, LogWrite(p)
    PROVE  LogInv'
<1>. DEFINE b == hold[p]
<1>1. /\ b \in Block /\ p \in Active /\ ~committing
      /\ \A q \in Proc : pc[q] \notin CommitStages
      /\ pinned = Range(lh) /\ hdr = <<>>
  BY DEF Steady, LogInv, LogWrite, CallsOK, TypeOK, Active, CommitOK
<1>2. /\ hold' = [hold EXCEPT ![p] = NoBlock] /\ pc' = [pc EXCEPT ![p] = "op"]
      /\ UNCHANGED <<home, logblk, hdr, cache, outstanding, committing, tail>>
      /\ logged' = [logged EXCEPT ![p] = logged[p] \cup {b}]
      /\ pc[p] = "dirty" /\ Len(lh) < LOGSIZE
  BY SizeAssumption DEF Steady, LogInv, LogWrite, disk, TooBig, TypeOK
<1>3. /\ lh' \in Seq(Block) /\ Len(lh') <= LOGSIZE /\ Distinct(lh')
      /\ Range(lh') = Range(lh) \cup {b} /\ pinned' = Range(lh')
  <2>1. CASE b \in Range(lh)
    BY <1>1, <2>1 DEF Steady, LogInv, LogWrite, ListsOK, TypeOK
  <2>2. CASE b \notin Range(lh)
    <3>1. lh' = Append(lh, b) /\ pinned' = pinned \cup {b}
      BY <2>2 DEF LogWrite
    <3>. QED  BY <1>1, <1>2, <2>2, <3>1, AppendFresh, SizeAssumption
              DEF Steady, LogInv, ListsOK, TypeOK
  <2>. QED  BY <2>1, <2>2
<1>. HIDE DEF b
<1>4. TypeOK'
  BY <1>1, <1>2, <1>3 DEF Steady, LogInv, TypeOK
<1>5. ListsOK'
  BY <1>2, <1>3 DEF Steady, LogInv, ListsOK
<1>6. Active' = Active /\ Held' = Held \ {b}
  BY <1>1, <1>2, BlockAssumption DEF b, Active, Held, Steady, LogInv, TypeOK, CallsOK
<1>7. CallsOK'
  BY <1>2, <1>6, BlockAssumption DEF Steady, LogInv, CallsOK, TypeOK
<1>8. CacheOK'
  <2>1. b \in Held
    BY <1>1, BlockAssumption DEF Held, b
  <2>2. pinned' \cup Held' = pinned \cup Held
    BY <1>1, <1>3, <1>6, <2>1
  <2>. QED  BY <1>2, <2>2 DEF Steady, LogInv, CacheOK, Bread
<1>9. CommitOK'
  <2>1. \A q \in Proc : pc'[q] \notin CommitStages
    BY <1>1, <1>2 DEF Steady, LogInv, TypeOK
  <2>. QED  BY <1>1, <1>2, <1>3, <1>6, <2>1 DEF CommitOK
<1>. QED  BY <1>4, <1>5, <1>7, <1>8, <1>9 DEF Steady, LogInv

\* wakeup(&log) after a change of p's stage: only sleepers move.
LEMMA WakeupPc ==
    ASSUME TypeOK, NEW p \in Proc, pc' = Wakeup([pc EXCEPT ![p] = "idle"])
    PROVE  /\ pc' \in [Proc -> Stages]
           /\ pc'[p] = "idle"
           /\ \A q \in Proc \ {p} : \A c \in Stages \ {"sleeping", "woken"} :
                  pc'[q] = c <=> pc[q] = c
BY DEF Wakeup, TypeOK

\* end_op() of a call that is not the last: the others go on.
LEMMA EndOpInv ==
    ASSUME Steady, NEW p \in Proc, EndOp(p)
    PROVE  LogInv'
<1>. USE DEF Steady, LogInv
<1>1. /\ p \in Active /\ ~committing /\ pc[p] = "op" /\ outstanding # 1
      /\ outstanding' = outstanding - 1
      /\ UNCHANGED <<home, logblk, hdr, cache, pinned, lh, committing, tail, hold, logged>>
      /\ \A q \in Proc : pc[q] \notin CommitStages
  BY DEF EndOp, disk, Active, CallsOK
<1>2. /\ pc' \in [Proc -> Stages] /\ pc'[p] = "idle"
      /\ \A q \in Proc \ {p} : \A c \in Stages \ {"sleeping", "woken"} :
                  pc'[q] = c <=> pc[q] = c
  BY WakeupPc DEF EndOp
<1>3. Active' = Active \ {p} /\ Held' = Held
  BY <1>1, <1>2 DEF Active, Held
<1>4. outstanding' = Cardinality(Active') /\ outstanding' \in Nat /\ Active' # {}
  <2>1. outstanding = Cardinality(Active)
    BY DEF CallsOK
  <2>2. Cardinality(Active') = Cardinality(Active) - 1
    BY <1>1, <1>3, CountLeave
  <2>3. Cardinality(Active) # 0
    BY <1>1, ActiveFinite, FS_EmptySet
  <2>4. Active' # {}
    BY <1>1, <2>1, <2>2, FS_EmptySet, ActiveFinite
  <2>. QED  BY <1>1, <2>1, <2>2, <2>3, <2>4, ActiveFinite
<1>5. TypeOK'
  BY <1>1, <1>2, <1>4 DEF TypeOK
<1>6. ListsOK'
  BY <1>1 DEF ListsOK
<1>7. CallsOK'
  BY <1>1, <1>2, <1>3, <1>4 DEF CallsOK
<1>8. CacheOK'
  BY <1>1, <1>3 DEF CacheOK, Bread
<1>9. CommitOK'
  BY <1>1, <1>2, <1>4, CommitFrame DEF Bread
<1>. QED  BY <1>5, <1>6, <1>7, <1>8, <1>9

\* The last end_op() starts the commit, with nobody left in a call.
LEMMA EndOpLastInv ==
    ASSUME Steady, NEW p \in Proc, EndOpLast(p)
    PROVE  LogInv'
<1>. USE DEF Steady, LogInv
<1>1. /\ p \in Active /\ ~committing /\ pc[p] = "op" /\ outstanding = 1
      /\ outstanding' = 0 /\ committing' = TRUE /\ tail' = 0
      /\ UNCHANGED <<home, logblk, hdr, cache, pinned, lh, hold, logged>>
      /\ pc' = [pc EXCEPT ![p] = IF Len(lh) > 0 THEN "write_log" ELSE "wake"]
      /\ \A q \in Proc : pc[q] \notin CommitStages
  BY DEF EndOpLast, disk, Active, CallsOK
<1>2. Active = {p} /\ Active' = {} /\ Held' = Held
  <2>1. Active = {p}
    BY <1>1, CountLast DEF CallsOK
  <2>. QED  BY <1>1, <2>1 DEF Active, Held, TypeOK
<1>3. TypeOK'
  BY <1>1 DEF TypeOK
<1>4. ListsOK'
  BY <1>1 DEF ListsOK
<1>5. CallsOK'
  BY <1>1, <1>2, FS_EmptySet DEF CallsOK, TypeOK
<1>6. CacheOK'
  BY <1>1, <1>2 DEF CacheOK, Bread
<1>7. /\ hdr = <<>> /\ pinned = Range(lh)
  BY <1>1 DEF CommitOK
<1>8. CommitOK'
  <2>1. CASE Len(lh) > 0
    BY <1>1, <1>7, <2>1 DEF CommitOK, TypeOK, LogHolds, Range
  <2>2. CASE Len(lh) = 0
    BY <1>1, <1>7, <2>2 DEF CommitOK, TypeOK, LogHolds, Range
  <2>. QED  BY <2>1, <2>2 DEF TypeOK
<1>. QED  BY <1>3, <1>4, <1>5, <1>6, <1>8

\* write_log() copies one more block from the cache to the log.
LEMMA WriteLogInv ==
    ASSUME Steady, NEW p \in Proc, WriteLog(p)
    PROVE  LogInv'
<1>. USE DEF Steady, LogInv
<1>. DEFINE k == tail + 1
<1>0. /\ pc[p] = "write_log" /\ committing /\ Active = {}
      /\ logblk' = [logblk EXCEPT ![k] = Bread(lh[k])]
      /\ UNCHANGED <<home, hdr, cache, pinned, lh, outstanding, committing, hold, logged>>
      /\ \A q \in Proc : pc[q] \in CommitStages => q = p
  BY DEF WriteLog, memory, CallsOK
<1>1. /\ hdr = <<>> /\ pinned = Range(lh) /\ LogHolds(lh, tail)
      /\ k \in 1 .. Len(lh) /\ k \in 1 .. LOGSIZE /\ lh[k] \in Block
  <2>1. tail < Len(lh) /\ LogHolds(lh, tail) /\ Len(lh) <= LOGSIZE
    BY <1>0 DEF CommitOK, ListsOK
  <2>2. \A q \in Proc : pc[q] \notin {"install", "clear"}
    BY <1>0
  <2>. QED  BY <2>1, <2>2, SizeAssumption DEF CommitOK, TypeOK
<1>2. Bread(lh[k]) \in Value
  BY <1>0, <1>1 DEF TypeOK, Bread
<1>3. /\ pc' = [pc EXCEPT ![p] = IF k < Len(lh) THEN "write_log" ELSE "write_head"]
      /\ tail' = IF k < Len(lh) THEN k ELSE 0
  BY <1>0, <1>1 DEF WriteLog, TypeOK
<1>4. TypeOK'
  BY <1>0, <1>1, <1>2, <1>3 DEF TypeOK
<1>5. ListsOK'
  BY <1>0, <1>1 DEF ListsOK
<1>6. Active' = Active /\ Held' = Held
  BY <1>0, <1>1, <1>3 DEF Active, Held, TypeOK
<1>7. CallsOK'
  <2>1. \A q \in Proc : /\ pc'[q] = "dirty" <=> pc[q] = "dirty"
                        /\ pc'[q] \in CommitStages => q = p
    BY <1>0, <1>3 DEF TypeOK
  <2>. QED  BY <1>0, <1>6, <2>1 DEF CallsOK
<1>8. CacheOK'
  BY <1>0, <1>1, <1>6 DEF CacheOK, Bread
<1>9. ASSUME NEW i \in 1 .. k
      PROVE  logblk'[i] = Bread(lh[i])'
  <2>1. Bread(lh[i])' = Bread(lh[i])
    BY <1>0 DEF Bread
  <2>2. CASE i = k
    BY <1>0, <1>1, <2>1, <2>2 DEF TypeOK
  <2>3. CASE i # k
    <3>1. tail \in Nat
      BY DEF TypeOK
    <3>2. i \in 1 .. tail /\ i \in 1 .. LOGSIZE
      BY <1>1, <2>3, <3>1, SizeAssumption
    <3>. QED  BY <1>0, <1>1, <2>1, <2>3, <3>2 DEF LogHolds, TypeOK
  <2>. QED  BY <2>2, <2>3
<1>10. CommitOK'
  <2>1. /\ hdr' = <<>> /\ lh' = lh /\ pinned' = Range(lh') /\ committing'
        /\ k \in 1 .. Len(lh) /\ Len(lh) \in Nat
    BY <1>0, <1>1 DEF TypeOK
  <2>2. /\ \A q \in Proc : pc'[q] \in CommitStages => q = p
        /\ pc'[p] = IF k < Len(lh) THEN "write_log" ELSE "write_head"
    BY <1>0, <1>3 DEF TypeOK
  <2>3. \A i \in 1 .. k : logblk'[i] = Bread(lh[i])'
    BY <1>9
  <2>4. CASE k < Len(lh)
    <3>1. tail' = k /\ LogHolds(lh, tail)'
      BY ONLY <1>3, <2>3, <2>4 DEF LogHolds
    <3>. QED  BY ONLY <2>1, <2>2, <2>4, <3>1 DEF CommitOK, CommitStages
  <2>5. CASE k = Len(lh)
    <3>1. tail' = 0 /\ LogHolds(lh, Len(lh))'
      BY ONLY <1>3, <2>1, <2>3, <2>5 DEF LogHolds
    <3>. QED  BY ONLY <2>1, <2>2, <2>5, <3>1 DEF CommitOK, CommitStages
  <2>. QED  BY ONLY <2>1, <2>4, <2>5
<1>. QED  BY <1>4, <1>5, <1>7, <1>8, <1>10

\* The process that runs a commit is alone in it.
LEMMA CommitterAlone ==
    ASSUME Steady, NEW p \in Proc, pc[p] \in CommitStages,
           NEW c \in CommitStages, pc' = [pc EXCEPT ![p] = c],
           UNCHANGED <<hold, outstanding, committing>>
    PROVE  /\ committing /\ Active = {} /\ Active' = {} /\ Held' = Held
           /\ \A q \in Proc : pc[q] \in CommitStages => q = p
           /\ \A q \in Proc : pc'[q] \in CommitStages => q = p
           /\ pc'[p] = c
           /\ CallsOK'
<1>. USE DEF Steady, LogInv
<1>1. /\ committing /\ Active = {}
      /\ \A q \in Proc : pc[q] \in CommitStages => q = p
  BY DEF CallsOK
<1>2. /\ pc'[p] = c /\ \A q \in Proc : pc'[q] \in CommitStages => q = p
      /\ \A q \in Proc : pc'[q] = "dirty" <=> pc[q] = "dirty"
  BY <1>1 DEF TypeOK
<1>3. Active' = {} /\ Held' = Held
  BY <1>1 DEF Active, Held, TypeOK
<1>4. CallsOK'
  BY <1>1, <1>2, <1>3 DEF CallsOK
<1>. QED  BY <1>1, <1>2, <1>3, <1>4

\* write_head() with the log complete: the header names what the log holds.
LEMMA WriteHeadInv ==
    ASSUME Steady, NEW p \in Proc, WriteHead(p)
    PROVE  LogInv'
<1>. USE DEF Steady, LogInv
<1>1. /\ pc[p] = "write_head" /\ pc' = [pc EXCEPT ![p] = "install"] /\ hdr' = lh
      /\ UNCHANGED <<home, logblk, cache, pinned, lh, outstanding, committing,
                     tail, hold, logged>>
  BY DEF WriteHead, memory
<1>2. /\ Active' = {} /\ Held' = Held /\ CallsOK' /\ committing
      /\ \A q \in Proc : pc[q] \in CommitStages => q = p
      /\ \A q \in Proc : pc'[q] \in CommitStages => q = p
      /\ pc'[p] = "install"
  BY <1>1, CommitterAlone
<1>3. /\ tail = 0 /\ Len(lh) > 0 /\ LogHolds(lh, Len(lh)) /\ pinned = Range(lh)
  BY <1>1, <1>2 DEF CommitOK
<1>4. TypeOK'
  BY <1>1 DEF TypeOK
<1>5. ListsOK'
  BY <1>1 DEF ListsOK
<1>6. CacheOK'
  BY <1>1, <1>2 DEF CacheOK, Bread
<1>7. CommitOK'
  <2>1. LogHolds(lh, Len(lh))'
    BY ONLY <1>1, <1>3 DEF LogHolds, Bread
  <2>2. HomeHolds(lh, tail)'
    <3>1. tail' = 0
      BY <1>1, <1>3
    <3>. QED  BY ONLY <3>1 DEF HomeHolds
  <2>3. pinned' = {lh'[i] : i \in tail' + 1 .. Len(lh')}
    <3>1. lh \in Seq(Block)
      BY DEF TypeOK
    <3>2. pinned = {lh[i] : i \in 1 .. Len(lh)}
      BY ONLY <1>3, <3>1, RangeIs
    <3>3. tail' + 1 = 1 /\ pinned' = pinned /\ lh' = lh
      BY <1>1, <1>3
    <3>. QED  BY ONLY <3>2, <3>3
  <2>. QED  BY <1>1, <1>2, <1>3, <2>1, <2>2, <2>3 DEF CommitOK
<1>. QED  BY <1>2, <1>4, <1>5, <1>6, <1>7

\* One block copied home: it stays as reads return it, the rest is untouched.
LEMMA CopyHomeStep ==
    ASSUME TypeOK, ListsOK, CacheOK, CopyHome, tail < Len(lh)
    PROVE  /\ tail + 1 \in 1 .. Len(lh) /\ lh[tail + 1] \in Block
           /\ home' \in [Block -> Value]
           /\ cache' \in [Block -> Value \cup {NotCached}]
           /\ UNCHANGED <<logblk, hdr>>
           /\ home'[lh[tail + 1]] = logblk[tail + 1]
           /\ cache'[lh[tail + 1]] = logblk[tail + 1]
           /\ logblk[tail + 1] \in Value
           /\ \A b \in Block \ {lh[tail + 1]} : home'[b] = home[b] /\ cache'[b] = cache[b]
           /\ HomeHolds(lh, tail) =>
                  \A i \in 1 .. tail + 1 : home'[lh[i]] = logblk[i]
<1>. DEFINE k == tail + 1
            b == lh[k]
<1>1. k \in 1 .. Len(lh) /\ k \in 1 .. LOGSIZE /\ b \in Block /\ tail \in Nat
  BY SizeAssumption DEF TypeOK, ListsOK
<1>2. logblk[k] \in Value
  BY <1>1 DEF TypeOK
<1>3. /\ home' = [home EXCEPT ![b] = logblk[k]]
      /\ cache' = [cache EXCEPT ![b] = logblk[k]]
      /\ UNCHANGED <<logblk, hdr>>
  BY DEF CopyHome
<1>. HIDE DEF b
<1>4. /\ home' \in [Block -> Value] /\ cache' \in [Block -> Value \cup {NotCached}]
      /\ home'[b] = logblk[k] /\ cache'[b] = logblk[k]
      /\ \A c \in Block \ {b} : home'[c] = home[c] /\ cache'[c] = cache[c]
  BY <1>1, <1>2, <1>3 DEF TypeOK
<1>5. ASSUME HomeHolds(lh, tail), NEW i \in 1 .. k
      PROVE  home'[lh[i]] = logblk[i]
  <2>1. CASE i = k
    BY <1>4, <2>1 DEF b
  <2>2. CASE i # k
    <3>1. i \in 1 .. tail /\ i \in 1 .. Len(lh)
      BY <1>1, <2>2
    <3>2. lh[i] \in Block /\ lh[i] # b
      BY <1>1, <2>2, <3>1 DEF ListsOK, Distinct, TypeOK, b
    <3>. QED  BY <1>4, <1>5, <3>1, <3>2 DEF HomeHolds
  <2>. QED  BY <2>1, <2>2
<1>. QED  BY <1>1, <1>2, <1>3, <1>4, <1>5 DEF b

\* What one iteration of install_trans(0) does: no read can tell.
LEMMA InstallStep ==
    ASSUME Steady, NEW p \in Proc, InstallTrans(p)
    PROVE  /\ hdr = lh /\ tail < Len(lh) /\ LogHolds(lh, Len(lh)) /\ HomeHolds(lh, tail)
           /\ pinned = {lh[i] : i \in tail + 1 .. Len(lh)}
           /\ tail + 1 \in 1 .. Len(lh) /\ lh[tail + 1] \in Block /\ Len(lh) \in Nat
           /\ home' \in [Block -> Value] /\ cache' \in [Block -> Value \cup {NotCached}]
           /\ UNCHANGED <<logblk, hdr>>
           /\ home'[lh[tail + 1]] = logblk[tail + 1]
           /\ \A c \in Block \ {lh[tail + 1]} : home'[c] = home[c] /\ cache'[c] = cache[c]
           /\ \A i \in 1 .. tail + 1 : home'[lh[i]] = logblk[i]
           /\ \A c \in Block : Bread(c)' = Bread(c)
           /\ \A c \in Block : c = lh[tail + 1] => Bread(c)' = home'[c]
<1>. USE DEF Steady, LogInv
<1>. DEFINE k == tail + 1
            b == lh[k]
<1>1. pc[p] = "install" /\ CopyHome
  BY DEF InstallTrans
<1>2. /\ hdr = lh /\ tail < Len(lh) /\ LogHolds(lh, Len(lh)) /\ HomeHolds(lh, tail)
      /\ pinned = {lh[i] : i \in k .. Len(lh)}
  BY <1>1 DEF CommitOK
<1>3. /\ k \in 1 .. Len(lh) /\ b \in Block /\ Len(lh) \in Nat
      /\ home' \in [Block -> Value] /\ cache' \in [Block -> Value \cup {NotCached}]
      /\ UNCHANGED <<logblk, hdr>>
      /\ home'[b] = logblk[k] /\ cache'[b] = logblk[k] /\ logblk[k] \in Value
      /\ \A c \in Block \ {b} : home'[c] = home[c] /\ cache'[c] = cache[c]
      /\ \A i \in 1 .. k : home'[lh[i]] = logblk[i]
  <2>1. TypeOK /\ ListsOK /\ CacheOK /\ Len(lh) \in Nat
    BY DEF TypeOK
  <2>. QED  BY ONLY <1>1, <1>2, <2>1, CopyHomeStep
<1>4. ASSUME NEW c \in Block
      PROVE  Bread(c)' = Bread(c) /\ (c = b => Bread(c)' = home'[c])
  <2>1. CASE c = b
    BY <1>2, <1>3, <2>1, ValueAssumption DEF LogHolds, Bread
  <2>2. CASE c # b
    BY <1>3, <2>2 DEF Bread
  <2>. QED  BY <2>1, <2>2
<1>. QED  BY <1>2, <1>3, <1>4

\* install_trans(0) copies one more block home and unpins it.
LEMMA InstallTransInv ==
    ASSUME Steady, NEW p \in Proc, InstallTrans(p)
    PROVE  LogInv'
<1>. USE DEF Steady, LogInv
<1>. DEFINE k == tail + 1
            b == lh[k]
            more == k < Len(lh)
<1>1. /\ pc[p] = "install" /\ pinned' = pinned \ {b}
      /\ UNCHANGED <<outstanding, committing, hold, logged>>
  BY DEF InstallTrans
<1>2. /\ hdr = lh /\ tail < Len(lh) /\ LogHolds(lh, Len(lh)) /\ HomeHolds(lh, tail)
      /\ pinned = {lh[i] : i \in k .. Len(lh)}
  BY InstallStep
<1>3. /\ k \in 1 .. Len(lh) /\ b \in Block /\ Len(lh) \in Nat
      /\ home' \in [Block -> Value] /\ cache' \in [Block -> Value \cup {NotCached}]
      /\ UNCHANGED <<logblk, hdr>>
      /\ home'[b] = logblk[k]
      /\ \A c \in Block \ {b} : home'[c] = home[c] /\ cache'[c] = cache[c]
      /\ \A i \in 1 .. k : home'[lh[i]] = logblk[i]
  BY InstallStep
<1>4. /\ pc' = [pc EXCEPT ![p] = IF more THEN "install" ELSE "clear"]
      /\ tail' = IF more THEN k ELSE 0
      /\ lh' = IF more THEN lh ELSE <<>>
  BY <1>1 DEF InstallTrans, TypeOK
<1>5. /\ Active' = {} /\ Held' = Held /\ CallsOK' /\ committing /\ Held = {}
      /\ \A q \in Proc : pc'[q] \in CommitStages => q = p
      /\ pc'[p] = IF more THEN "install" ELSE "clear"
  <2>1. (IF more THEN "install" ELSE "clear") \in CommitStages
    OBVIOUS
  <2>2. /\ Active' = {} /\ Held' = Held /\ CallsOK' /\ committing /\ Active = {}
        /\ \A q \in Proc : pc'[q] \in CommitStages => q = p
        /\ pc'[p] = IF more THEN "install" ELSE "clear"
    BY <1>1, <1>4, <2>1, CommitterAlone
  <2>3. Held = {}
    BY <2>2 DEF CallsOK, Active, Held
  <2>. QED  BY <2>2, <2>3
<1>6. TypeOK'
  BY <1>1, <1>3, <1>4 DEF TypeOK
<1>7. ListsOK'
  BY <1>1, <1>3, <1>4, SizeAssumption DEF ListsOK, Distinct
<1>8. /\ \A c \in Block : Bread(c)' = Bread(c)
      /\ \A c \in Block : c = b => Bread(c)' = home'[c]
  BY InstallStep
<1>9. CacheOK'
  <2>1. ASSUME NEW c \in pinned' \cup Held'
        PROVE  cache'[c] # NotCached
    <3>1. c \in pinned /\ c # b /\ c \in Block
      BY <1>1, <1>5, <2>1 DEF TypeOK
    <3>. QED  BY <1>3, <3>1 DEF CacheOK
  <2>2. ASSUME NEW c \in Block, Bread(c)' # home'[c]
        PROVE  c \in pinned' \cup Held'
    <3>1. c # b /\ Bread(c) # home[c]
      BY <1>3, <1>8, <2>2
    <3>. QED  BY <1>1, <1>5, <3>1 DEF CacheOK
  <2>. QED  BY <2>1, <2>2 DEF CacheOK
<1>10. pinned' = {lh[i] : i \in k + 1 .. Len(lh)}
  <2>1. \A i \in k + 1 .. Len(lh) : lh[i] # b
    <3>1. lh \in Seq(Block) /\ Distinct(lh) /\ k \in 1 .. Len(lh)
      BY <1>3 DEF ListsOK, TypeOK
    <3>. QED  BY ONLY <3>1 DEF Distinct, b
  <2>2. k \in 1 .. Len(lh) /\ Len(lh) \in Nat
    BY <1>3
  <2>. QED  BY ONLY <1>1, <1>2, <2>1, <2>2
<1>11. CommitOK'
  <2>1. CASE more
    <3>1. LogHolds(lh, Len(lh))'
      BY <1>2, <1>3, <1>4, <1>8, <2>1 DEF LogHolds, TypeOK
    <3>2. HomeHolds(lh, tail)'
      BY <1>3, <1>4, <2>1 DEF HomeHolds
    <3>3. /\ lh' = lh /\ hdr' = lh /\ tail' = k /\ k < Len(lh)
          /\ pinned' = {lh'[i] : i \in tail' + 1 .. Len(lh')}
      BY <1>2, <1>3, <1>4, <1>10, <2>1
    <3>. QED  BY <1>1, <1>5, <2>1, <3>1, <3>2, <3>3 DEF CommitOK
  <2>2. CASE ~more
    <3>0. k = Len(lh) /\ k \in Nat
      BY <1>3, <2>2
    <3>1. k = Len(lh) /\ pinned' = {}
      BY ONLY <3>0, <1>10
    <3>2. HomeHolds(hdr, Len(hdr))'
      BY <1>2, <1>3, <3>1 DEF HomeHolds
    <3>3. Range(lh') = {}
      BY <1>4, <2>2 DEF Range
    <3>. QED  BY <1>4, <1>5, <2>2, <3>1, <3>2, <3>3 DEF CommitOK
  <2>. QED  BY <2>1, <2>2
<1>. QED  BY <1>5, <1>6, <1>7, <1>9, <1>11

\* The second write_head(): every block is home, the header is erased.
LEMMA ClearHeadInv ==
    ASSUME Steady, NEW p \in Proc, ClearHead(p)
    PROVE  LogInv'
<1>. USE DEF Steady, LogInv
<1>1. /\ pc[p] = "clear" /\ pc' = [pc EXCEPT ![p] = "wake"] /\ hdr' = lh
      /\ UNCHANGED <<home, logblk, cache, pinned, lh, outstanding, committing,
                     tail, hold, logged>>
  BY DEF ClearHead, memory
<1>2. /\ Active' = {} /\ Held' = Held /\ CallsOK' /\ committing
      /\ \A q \in Proc : pc[q] \in CommitStages => q = p
      /\ \A q \in Proc : pc'[q] \in CommitStages => q = p
      /\ pc'[p] = "wake"
  BY <1>1, CommitterAlone
<1>3. lh = <<>> /\ pinned = Range(lh)
  BY <1>1, <1>2 DEF CommitOK
<1>4. TypeOK'
  BY <1>1 DEF TypeOK
<1>5. ListsOK'
  BY <1>1 DEF ListsOK
<1>6. CacheOK'
  BY <1>1, <1>2 DEF CacheOK, Bread
<1>7. CommitOK'
  BY <1>1, <1>2, <1>3 DEF CommitOK, Range
<1>. QED  BY <1>2, <1>4, <1>5, <1>6, <1>7

\* The end of end_op(): the sleepers are woken, nothing is left to do.
LEMMA CommitDoneInv ==
    ASSUME Steady, NEW p \in Proc, CommitDone(p)
    PROVE  LogInv'
<1>. USE DEF Steady, LogInv
<1>1. /\ pc[p] = "wake" /\ committing' = FALSE /\ committing
      /\ UNCHANGED <<home, logblk, hdr, cache, pinned, lh, outstanding, tail,
                     hold, logged>>
      /\ \A q \in Proc : pc[q] \in CommitStages => q = p
  BY DEF CommitDone, disk, CallsOK
<1>2. /\ pc' \in [Proc -> Stages] /\ pc'[p] = "idle"
      /\ \A q \in Proc \ {p} : \A c \in Stages \ {"sleeping", "woken"} :
                  pc'[q] = c <=> pc[q] = c
  BY WakeupPc DEF CommitDone
<1>3. Active' = Active /\ Held' = Held
  BY <1>1, <1>2 DEF Active, Held
<1>4. \A q \in Proc : pc'[q] \notin CommitStages
  BY <1>1, <1>2
<1>5. lh = <<>> /\ hdr = <<>> /\ pinned = Range(lh)
  BY <1>1 DEF CommitOK
<1>6. TypeOK'
  BY <1>1, <1>2 DEF TypeOK
<1>7. ListsOK'
  BY <1>1 DEF ListsOK
<1>8. CallsOK'
  <2>1. CallsOK /\ \A q \in Proc : pc'[q] = "dirty" <=> pc[q] = "dirty"
    BY <1>1, <1>2
  <2>. QED  BY ONLY <1>1, <1>3, <1>4, <2>1 DEF CallsOK
<1>9. CacheOK'
  BY <1>1, <1>3 DEF CacheOK, Bread
<1>10. CommitOK'
  BY <1>1, <1>4, <1>5 DEF CommitOK, Range
<1>. QED  BY <1>6, <1>7, <1>8, <1>9, <1>10

\* Recycling or loading an unreferenced buffer changes no read.
LEMMA BufferReads ==
    ASSUME LogInv, NEW b \in Block, Buffer(b)
    PROVE  /\ Steady /\ phase' = "up"
           /\ UNCHANGED <<home, logblk, hdr, pinned, lh, outstanding, committing, tail,
                          pc, hold, logged>>
           /\ b \notin pinned \cup Held
           /\ \/ cache' = [cache EXCEPT ![b] = NotCached]
              \/ cache' = [cache EXCEPT ![b] = home[b]]
           /\ \A c \in Block : Bread(c)' = Bread(c)
<1>1. /\ UNCHANGED <<home, logblk, hdr, pinned, lh, outstanding, committing, tail,
                     pc, hold, logged>>
      /\ b \notin pinned \cup Held
      /\ cache' = [cache EXCEPT ![b] = NotCached] \/ cache' = [cache EXCEPT ![b] = home[b]]
  BY DEF Buffer, Recycle, Load, disk, calls, LogInv, CacheOK
<1>2. ASSUME NEW c \in Block
      PROVE  Bread(c)' = Bread(c)
  <2>1. CASE c = b
    BY <1>1, <2>1 DEF Bread, LogInv, CacheOK, TypeOK
  <2>2. CASE c # b
    BY <1>1, <2>2 DEF Bread, LogInv, TypeOK
  <2>. QED  BY <2>1, <2>2
<1>3. Steady /\ phase' = "up"
  BY DEF Buffer, Steady
<1>. QED  BY <1>1, <1>2, <1>3

\* bget() and bread() recycle and load buffers that nobody needs.
LEMMA BufferInv ==
    ASSUME LogInv, NEW b \in Block, Buffer(b)
    PROVE  LogInv'
<1>. USE DEF Steady, LogInv
<1>1. /\ Steady /\ phase' = "up"
      /\ UNCHANGED <<home, logblk, hdr, pinned, lh, outstanding, committing, tail,
                     pc, hold, logged>>
      /\ b \notin pinned \cup Held
      /\ cache' = [cache EXCEPT ![b] = NotCached] \/ cache' = [cache EXCEPT ![b] = home[b]]
  BY BufferReads
<1>2. \A c \in Block : Bread(c)' = Bread(c)
  BY BufferReads
<1>3. Active' = Active /\ Held' = Held
  BY <1>1 DEF Active, Held
<1>4. TypeOK'
  BY <1>1 DEF TypeOK
<1>5. ListsOK'
  BY <1>1 DEF ListsOK
<1>6. CallsOK'
  BY <1>1, <1>3 DEF CallsOK
<1>7. CacheOK'
  <2>1. ASSUME NEW c \in pinned' \cup Held'
        PROVE  cache'[c] # NotCached
    <3>0. pinned \cup Held \subseteq Block
      BY DEF TypeOK, Held
    <3>1. c \in pinned \cup Held /\ c # b /\ c \in Block
      BY ONLY <1>1, <1>3, <2>1, <3>0
    <3>. QED  BY <1>1, <3>1 DEF CacheOK, TypeOK
  <2>. QED  BY <1>1, <1>2, <1>3, <2>1 DEF CacheOK
<1>8. CommitOK'
  BY <1>1, <1>2, <1>3, CommitFrame
<1>. QED  BY <1>1, <1>4, <1>5, <1>6, <1>7, <1>8

\* A crash leaves the disk; every stage it can hit leaves a log that the
\* recovery can replay or ignore.
LEMMA CrashInv ==
    ASSUME LogInv, Crash
    PROVE  LogInv'
<1>. USE DEF LogInv, Crash, disk
<1>1. TypeOK'
  <2>1. /\ lh' \in Seq(Block) /\ pc' \in [Proc -> Stages]
        /\ cache' \in [Block -> Value \cup {NotCached}]
        /\ hold' \in [Proc -> Block \cup {NoBlock}] /\ logged' \in [Proc -> SUBSET Block]
    OBVIOUS
  <2>2. crashes' \in 0 .. MaxCrash
    BY SizeAssumption DEF TypeOK
  <2>. QED  BY <2>1, <2>2 DEF TypeOK
<1>2. ListsOK'
  BY SizeAssumption DEF ListsOK, Distinct
<1>3. Active' = {} /\ Held' = {}
  BY DEF Active, Held
<1>4. CallsOK'
  BY <1>3, FS_EmptySet DEF CallsOK
<1>5. CacheOK'
  BY <1>3 DEF CacheOK, Bread
<1>6. RecoveryOK'
  BY DEF RecoveryOK
<1>. QED  BY <1>1, <1>2, <1>4, <1>5, <1>6

\* While the recovery runs there is no call and no reference to a buffer.
LEMMA RecoveringCalls ==
    ASSUME LogInv, phase # "up", UNCHANGED <<pc, hold, outstanding, committing>>
    PROVE  Held = {} /\ Held' = {} /\ CallsOK' /\ RecoveryOK
<1>1. RecoveryOK
  BY DEF LogInv
<1>2. Held = {} /\ Held' = {}
  BY <1>1 DEF LogInv, CallsOK, RecoveryOK, Held
<1>3. Active' = Active
  BY DEF Active
<1>4. CallsOK'
  BY <1>3 DEF LogInv, CallsOK
<1>. QED  BY <1>1, <1>2, <1>4

\* read_head()
LEMMA ReadHeadInv ==
    ASSUME LogInv, ReadHead, UNCHANGED <<calls, crashes>>
    PROVE  LogInv'
<1>. USE DEF LogInv
<1>1. /\ phase = "read_head" /\ lh' = hdr
      /\ phase' = IF Len(hdr) > 0 THEN "install" ELSE "clear"
      /\ UNCHANGED <<home, logblk, hdr, cache, pinned, outstanding, committing,
                     tail, pc, hold, logged, crashes>>
  BY DEF ReadHead, disk, calls
<1>2. Held = {} /\ Held' = {} /\ CallsOK' /\ RecoveryOK
  BY <1>1, RecoveringCalls
<1>3. TypeOK'
  BY <1>1 DEF TypeOK
<1>4. ListsOK'
  BY <1>1 DEF ListsOK
<1>5. CacheOK'
  BY <1>1, <1>2 DEF CacheOK, Bread
<1>6. RecoveryOK'
  <2>1. CASE Len(hdr) > 0
    BY <1>1, <1>2, <2>1 DEF RecoveryOK, HomeHolds
  <2>2. CASE Len(hdr) = 0
    <3>1. hdr = <<>>
      BY <2>2, EmptySeq DEF TypeOK
    <3>2. HomeHolds(hdr, Len(hdr))'
      BY ONLY <1>1, <2>2 DEF HomeHolds
    <3>. QED  BY <1>1, <1>2, <2>2, <3>1, <3>2 DEF RecoveryOK
  <2>. QED  BY <2>1, <2>2 DEF TypeOK
<1>7. phase' # "up"
  BY <1>1
<1>. QED  BY <1>2, <1>3, <1>4, <1>5, <1>6, <1>7

\* install_trans(1): like the commit's, with nothing pinned.
LEMMA RecoverInstallInv ==
    ASSUME LogInv, RecoverInstall, UNCHANGED <<calls, crashes>>
    PROVE  LogInv'
<1>. USE DEF LogInv
<1>. DEFINE k == tail + 1
            b == lh[k]
            more == k < Len(lh)
<1>1. /\ phase = "install" /\ CopyHome
      /\ UNCHANGED <<pinned, outstanding, committing, pc, hold, logged, crashes>>
      /\ tail' = IF more THEN k ELSE 0
      /\ lh' = IF more THEN lh ELSE <<>>
      /\ phase' = IF more THEN "install" ELSE "clear"
  BY DEF RecoverInstall, calls
<1>2. Held = {} /\ Held' = {} /\ CallsOK' /\ RecoveryOK
  BY <1>1, RecoveringCalls
<1>3. lh = hdr /\ tail < Len(lh) /\ HomeHolds(lh, tail)
  BY <1>1, <1>2 DEF RecoveryOK
<1>4. /\ k \in 1 .. Len(lh) /\ b \in Block /\ Len(lh) \in Nat
      /\ home' \in [Block -> Value] /\ cache' \in [Block -> Value \cup {NotCached}]
      /\ UNCHANGED <<logblk, hdr>>
      /\ home'[b] = logblk[k] /\ cache'[b] = logblk[k]
      /\ \A c \in Block \ {b} : home'[c] = home[c] /\ cache'[c] = cache[c]
      /\ \A i \in 1 .. k : home'[lh[i]] = logblk[i]
  <2>1. TypeOK /\ ListsOK /\ CacheOK /\ Len(lh) \in Nat
    BY DEF TypeOK
  <2>. QED  BY ONLY <1>1, <1>3, <2>1, CopyHomeStep
<1>5. TypeOK'
  <2>1. lh' \in Seq(Block) /\ tail' \in Nat /\ phase' \in Phases
    BY <1>1 DEF TypeOK
  <2>. QED  BY <1>1, <1>4, <2>1 DEF TypeOK
<1>6. ListsOK'
  BY <1>1, <1>4, SizeAssumption DEF ListsOK, Distinct
<1>7. CacheOK'
  <2>1. pinned' = {}
    BY <1>1, <1>2 DEF RecoveryOK
  <2>2. ASSUME NEW c \in Block
        PROVE  Bread(c)' = home'[c]
    <3>1. CASE c = b
      BY <1>4, <3>1 DEF Bread
    <3>2. CASE c # b
      BY <1>2, <1>4, <3>2 DEF Bread, CacheOK, RecoveryOK
    <3>. QED  BY <3>1, <3>2
  <2>. QED  BY <1>2, <2>1, <2>2 DEF CacheOK
<1>8. RecoveryOK'
  <2>1. CASE more
    BY <1>1, <1>2, <1>3, <1>4, <2>1 DEF RecoveryOK, HomeHolds
  <2>2. CASE ~more
    <3>1. k = Len(hdr)
      BY <1>3, <1>4, <2>2
    <3>2. HomeHolds(hdr, Len(hdr))'
      BY <1>3, <1>4, <3>1 DEF HomeHolds
    <3>. QED  BY <1>1, <1>2, <2>2, <3>2 DEF RecoveryOK
  <2>. QED  BY <2>1, <2>2
<1>9. phase' # "up"
  BY <1>1
<1>. QED  BY <1>2, <1>5, <1>6, <1>7, <1>8, <1>9

\* The recovery's write_head(): the log is empty, calls may begin.
LEMMA RecoverClearInv ==
    ASSUME LogInv, RecoverClear, UNCHANGED <<calls, crashes>>
    PROVE  LogInv'
<1>. USE DEF LogInv
<1>1. /\ phase = "clear" /\ phase' = "up" /\ hdr' = lh
      /\ UNCHANGED <<home, logblk, cache, pinned, lh, outstanding, committing,
                     tail, pc, hold, logged, crashes>>
  BY DEF RecoverClear, memory, calls
<1>2. Held = {} /\ Held' = {} /\ CallsOK' /\ RecoveryOK
  BY <1>1, RecoveringCalls
<1>3. TypeOK'
  BY <1>1 DEF TypeOK
<1>4. ListsOK'
  BY <1>1 DEF ListsOK
<1>5. CacheOK'
  BY <1>1, <1>2 DEF CacheOK, Bread
<1>6. CommitOK'
  <2>1. /\ lh' = <<>> /\ hdr' = <<>> /\ pinned' = Range(lh') /\ ~committing'
        /\ \A p \in Proc : pc'[p] = "idle"
    BY <1>1, <1>2, RangeEmpty DEF RecoveryOK
  <2>. QED  BY ONLY <2>1 DEF CommitOK
<1>. QED  BY <1>1, <1>2, <1>3, <1>4, <1>5, <1>6

\* A step that changes nothing.
LEMMA StutterInv ==
    ASSUME LogInv, UNCHANGED vars
    PROVE  LogInv'
<1>1. /\ UNCHANGED <<home, logblk, hdr, cache, pinned, lh, outstanding, committing>>
      /\ UNCHANGED <<tail, phase, pc, hold, logged, crashes>>
  BY DEF vars, disk, memory, calls
<1>2. Active' = Active /\ Held' = Held
  BY <1>1 DEF Active, Held
<1>3. TypeOK' /\ ListsOK'
  BY <1>1 DEF LogInv, TypeOK, ListsOK
<1>4. CallsOK' /\ CacheOK'
  BY <1>1, <1>2 DEF LogInv, CallsOK, CacheOK, Bread
<1>5. phase = "up" => CommitOK'
  BY <1>1, <1>2, CommitFrame DEF LogInv, Bread
<1>6. phase # "up" => RecoveryOK'
  BY <1>1 DEF LogInv, RecoveryOK, HomeHolds
<1>. QED  BY <1>1, <1>3, <1>4, <1>5, <1>6 DEF LogInv

\* Every step of the log, the crash and the recovery keeps the invariant.
LEMMA StepInv == LogInv /\ [Next]_vars => LogInv'
<1>. SUFFICES ASSUME LogInv, [Next]_vars PROVE LogInv'
  OBVIOUS
<1>1. ASSUME NEW p \in Proc, Call(p) PROVE LogInv'
  <2>1. Steady
    BY <1>1 DEF Call, Steady
  <2>. QED  BY <1>1, <2>1, SleepInv, BeginAdmitInv, ModifyInv, LogWriteInv,
               EndOpInv, EndOpLastInv, WriteLogInv, WriteHeadInv,
               InstallTransInv, ClearHeadInv, CommitDoneInv DEF Call
<1>2. ASSUME NEW b \in Block, Buffer(b) PROVE LogInv'
  BY <1>2, BufferInv
<1>3. CASE Recover
  BY <1>3, ReadHeadInv, RecoverInstallInv, RecoverClearInv DEF Recover
<1>4. CASE Crash
  BY <1>4, CrashInv
<1>5. CASE UNCHANGED vars
  BY <1>5, StutterInv
<1>. QED  BY <1>1, <1>2, <1>3, <1>4, <1>5 DEF Next

\* LogInv is an invariant of log.c: every stage of a commit and of a recovery,
\* with crashes anywhere, leaves the log, the cache and the disk as the next
\* stage needs them.
THEOREM LogInvariant == Spec => []LogInv
<1>. QED  BY InitInv, StepInv, PTL DEF Spec

\* Every variable keeps its type.
THEOREM TypeCorrect == Spec => []TypeOK
<1>1. LogInv => TypeOK
  BY DEF LogInv
<1>. QED  BY <1>1, LogInvariant, PTL

\* An update that is not yet at its home location is in a buffer that bget()
\* cannot recycle.
THEOREM PinnedCorrect == Spec => []UninstalledPinned
<1>1. LogInv => UninstalledPinned
  BY DEF LogInv, CacheOK, UninstalledPinned
<1>. QED  BY <1>1, LogInvariant, PTL

\* When no call is active and no commit runs, a crash loses nothing.
THEOREM DurableCorrect == Spec => []QuiescentDurable
<1>1. LogInv => QuiescentDurable
  <2>. SUFFICES ASSUME LogInv, phase = "up", Active = {}, ~committing
                PROVE  Current = Committed
    BY DEF QuiescentDurable
  <2>1. CommitOK /\ CallsOK /\ CacheOK
    BY DEF LogInv
  <2>2. Held = {} /\ \A p \in Proc : pc[p] \notin CommitStages
    BY <2>1 DEF CallsOK, Active, Held
  <2>3. lh = <<>> /\ hdr = <<>> /\ pinned = {}
    BY <2>1, <2>2 DEF CommitOK, Range
  <2>4. \A b \in Block : Bread(b) = home[b]
    BY <2>1, <2>2, <2>3 DEF CacheOK
  <2>5. Range(hdr) = {}
    BY <2>3 DEF Range
  <2>. QED  BY <2>4, <2>5 DEF Current, Committed, Overlay
<1>. QED  BY <1>1, LogInvariant, PTL
-----------------------------------------------------------------------------
(***************************************************************************)
(* The refinement: Committed changes only at write_head(), Current only by *)
(* a call's own updates and by a crash.                                    *)
(***************************************************************************)
LEMMA OverlayAt ==
    ASSUME NEW h \in Seq(Block), Distinct(h), NEW l, NEW d
    PROVE  /\ \A i \in 1 .. Len(h) : Overlay(h, l, d)[h[i]] = l[i]
           /\ \A b \in Block \ Range(h) : Overlay(h, l, d)[b] = d[b]
<1>1. DOMAIN h = 1 .. Len(h) /\ \A i \in 1 .. Len(h) : h[i] \in Block
  OBVIOUS
<1>2. ASSUME NEW i \in 1 .. Len(h)
      PROVE  (CHOOSE j \in DOMAIN h : h[j] = h[i]) = i
  BY <1>1 DEF Distinct
<1>3. \A i \in 1 .. Len(h) : h[i] \in Range(h)
  BY <1>1 DEF Range
<1>. QED  BY <1>1, <1>2, <1>3 DEF Overlay

\* Any home that agrees with the log where the header says so is what a crash
\* leaves.
LEMMA OverlayIs ==
    ASSUME NEW h \in Seq(Block), Distinct(h), NEW l, NEW d,
           NEW e \in [Block -> Value],
           \A i \in 1 .. Len(h) : l[i] = e[h[i]],
           \A b \in Block \ Range(h) : d[b] = e[b]
    PROVE  Overlay(h, l, d) = e
<1>0. /\ \A i \in 1 .. Len(h) : Overlay(h, l, d)[h[i]] = l[i]
      /\ \A b \in Block \ Range(h) : Overlay(h, l, d)[b] = d[b]
  BY OverlayAt
<1>1. ASSUME NEW b \in Block
      PROVE  Overlay(h, l, d)[b] = e[b]
  <2>1. CASE b \in Range(h)
    <3>0. Range(h) = {h[i] : i \in 1 .. Len(h)}
      BY RangeIs
    <3>1. PICK i \in 1 .. Len(h) : h[i] = b
      BY ONLY <2>1, <3>0
    <3>2. l[i] = e[h[i]]
      OBVIOUS
    <3>. QED  BY ONLY <1>0, <3>1, <3>2
  <2>2. CASE b \notin Range(h)
    <3>1. d[b] = e[b]
      BY <2>2
    <3>. QED  BY ONLY <1>0, <1>1, <2>2, <3>1
  <2>. QED  BY <2>1, <2>2
<1>. QED  BY <1>1 DEF Overlay

\* An empty header leaves the home locations.
LEMMA OverlayEmpty ==
    ASSUME NEW l, NEW d
    PROVE  Overlay(<<>>, l, d) = [b \in Block |-> d[b]]
BY RangeEmpty DEF Overlay

\* With every logged block home, the disk itself is the committed state.
LEMMA HomeIsCommitted ==
    ASSUME LogInv, HomeHolds(hdr, Len(hdr))
    PROVE  Committed = home
<1>1. /\ hdr \in Seq(Block) /\ Distinct(hdr) /\ home \in [Block -> Value]
      /\ \A i \in 1 .. Len(hdr) : logblk[i] = home[hdr[i]]
      /\ \A b \in Block \ Range(hdr) : home[b] = home[b]
  <2>1. hdr \in Seq(Block) /\ Distinct(hdr) /\ home \in [Block -> Value]
    BY DEF LogInv, TypeOK, ListsOK
  <2>. QED  BY ONLY HomeHolds(hdr, Len(hdr)), <2>1 DEF HomeHolds
<1>2. Overlay(hdr, logblk, home) = home
  BY ONLY <1>1, OverlayIs
<1>. QED  BY <1>2 DEF Committed

\* What is committed depends on the disk alone.
LEMMA CommittedFrame ==
    ASSUME UNCHANGED <<home, logblk, hdr>>
    PROVE  Committed' = Committed
BY DEF Committed

\* Copying home a block that the header names changes nothing.
LEMMA CommittedInstall ==
    ASSUME UNCHANGED <<logblk, hdr>>, NEW b \in Range(hdr),
           \A c \in Block \ {b} : home'[c] = home[c]
    PROVE  Committed' = Committed
<1>1. Range(hdr)' = Range(hdr) /\ \A c \in Block \ Range(hdr) : home'[c] = home[c]
  OBVIOUS
<1>. QED  BY <1>1 DEF Committed, Overlay

\* What is current is what bread() returns, while the system is up.
LEMMA CurrentFrame ==
    ASSUME phase = "up", phase' = "up", \A b \in Block : Bread(b)' = Bread(b)
    PROVE  Current' = Current
BY DEF Current

\* A call's own steps are the abstract disk's Begin, Write and End.
LEMMA CallRefines ==
    ASSUME Steady, NEW p \in Proc,
           \/ BeginSleep(p) \/ BeginAdmit(p) \/ SpuriousWakeup(p)
           \/ \E b \in Block, v \in Value : Modify(p, b, v)
           \/ LogWrite(p) \/ EndOp(p) \/ EndOpLast(p) \/ CommitDone(p)
    PROVE  [AD!Next]_(AD!vars)
<1>. USE DEF Steady, LogInv
<1>1. Committed' = Committed
  BY CommittedFrame DEF BeginSleep, BeginAdmit, SpuriousWakeup, Modify, LogWrite,
     EndOp, EndOpLast, CommitDone, disk
<1>2. CASE BeginSleep(p) \/ SpuriousWakeup(p)
  <2>1. Current' = Current
    BY <1>2, CurrentFrame DEF BeginSleep, SpuriousWakeup, Bread, disk, memory
  <2>2. Active' = Active
    BY <1>2 DEF BeginSleep, SpuriousWakeup, Active, TypeOK
  <2>. QED  BY <1>1, <2>1, <2>2 DEF AD!vars
<1>3. CASE BeginAdmit(p)
  <2>1. Current' = Current
    BY <1>3, CurrentFrame DEF BeginAdmit, Bread, disk
  <2>2. p \notin Active /\ Active' = Active \cup {p}
    BY <1>3 DEF BeginAdmit, Active, TypeOK
  <2>. QED  BY <1>1, <2>1, <2>2 DEF AD!Next, AD!Begin
<1>4. ASSUME NEW b \in Block, NEW v \in Value, Modify(p, b, v)
      PROVE  [AD!Next]_(AD!vars)
  <2>1. Current' = [Current EXCEPT ![b] = v]
    <3>1. cache' = [cache EXCEPT ![b] = v] /\ home' = home
      BY <1>4 DEF Modify, disk
    <3>2. \A c \in Block : Bread(c)' = IF c = b THEN v ELSE Bread(c)
      BY <3>1, ValueAssumption DEF Bread, TypeOK
    <3>. QED  BY <3>2 DEF Current
  <2>2. p \in Active /\ Active' = Active
    BY <1>4 DEF Modify, Active, TypeOK
  <2>. QED  BY <1>1, <2>1, <2>2 DEF AD!Next, AD!Write
<1>5. CASE LogWrite(p)
  <2>1. Current' = Current
    BY <1>5, CurrentFrame DEF LogWrite, Bread, disk
  <2>2. Active' = Active
    BY <1>5 DEF LogWrite, Active, TypeOK
  <2>. QED  BY <1>1, <2>1, <2>2 DEF AD!vars
<1>6. CASE EndOp(p)
  <2>1. Current' = Current
    BY <1>6, CurrentFrame DEF EndOp, Bread, disk
  <2>2. /\ pc[p] = "op" /\ pc'[p] = "idle"
        /\ \A q \in Proc \ {p} : \A c \in Stages \ {"sleeping", "woken"} :
               pc'[q] = c <=> pc[q] = c
    BY <1>6, WakeupPc DEF EndOp
  <2>3. p \in Active /\ Active' = Active \ {p}
    BY <2>2 DEF Active
  <2>. QED  BY <1>1, <2>1, <2>3 DEF AD!Next, AD!End
<1>7. CASE EndOpLast(p)
  <2>1. Current' = Current
    BY <1>7, CurrentFrame DEF EndOpLast, Bread, disk
  <2>2. p \in Active /\ Active' = Active \ {p}
    BY <1>7 DEF EndOpLast, Active, TypeOK
  <2>. QED  BY <1>1, <2>1, <2>2 DEF AD!Next, AD!End
<1>8. CASE CommitDone(p)
  <2>1. Current' = Current
    BY <1>8, CurrentFrame DEF CommitDone, Bread, disk
  <2>2. Active' = Active
    BY <1>8, WakeupPc DEF CommitDone, Active
  <2>. QED  BY <1>1, <2>1, <2>2 DEF AD!vars
<1>. QED  BY <1>2, <1>3, <1>4, <1>5, <1>6, <1>7, <1>8

\* The steps of a commit: write_head() is the abstract Commit, the others are
\* invisible.
LEMMA CommitRefines ==
    ASSUME Steady, NEW p \in Proc,
           WriteLog(p) \/ WriteHead(p) \/ InstallTrans(p) \/ ClearHead(p)
    PROVE  [AD!Next]_(AD!vars)
<1>. USE DEF Steady, LogInv
<1>1. pc[p] \in CommitStages /\ committing /\ Active = {}
  BY DEF WriteLog, WriteHead, InstallTrans, ClearHead, CallsOK
<1>2. LogInv'
  BY WriteLogInv, WriteHeadInv, InstallTransInv, ClearHeadInv
<1>3. Active' = {}
  BY <1>1 DEF WriteLog, WriteHead, InstallTrans, ClearHead, Active, TypeOK
<1>4. CASE WriteLog(p)
  <2>1. hdr = <<>> /\ hdr' = <<>> /\ home' = home
    BY <1>1, <1>4 DEF WriteLog, CallsOK, CommitOK
  <2>2. Committed' = Committed
    BY ONLY <2>1, OverlayEmpty DEF Committed
  <2>3. Current' = Current
    BY <1>4, CurrentFrame DEF WriteLog, memory, Bread
  <2>. QED  BY <1>1, <1>3, <2>2, <2>3 DEF AD!vars
<1>5. CASE WriteHead(p)
  <2>1. /\ hdr' = lh /\ UNCHANGED <<home, logblk, cache, lh>>
        /\ LogHolds(lh, Len(lh)) /\ pinned = Range(lh) /\ Held = {}
    BY <1>1, <1>5 DEF WriteHead, memory, CommitOK, CallsOK, Active, Held
  <2>2. Current' = Current
    BY <2>1, CurrentFrame DEF Bread
  <2>3. /\ Current \in [Block -> Value]
        /\ \A i \in 1 .. Len(lh) : logblk[i] = Current[lh[i]]
        /\ \A b \in Block \ Range(lh) : home[b] = Current[b]
    <3>1. \A b \in Block : Bread(b) \in Value /\ Current[b] = Bread(b)
      BY DEF Bread, TypeOK, Current
    <3>2. \A i \in 1 .. Len(lh) : lh[i] \in Block
      BY DEF TypeOK
    <3>. QED  BY <2>1, <3>1, <3>2 DEF Current, LogHolds, CacheOK
  <2>4. Committed' = Current
    <3>1. lh \in Seq(Block) /\ Distinct(lh)
      BY DEF TypeOK, ListsOK
    <3>2. Overlay(lh, logblk, home) = Current
      BY ONLY <2>3, <3>1, OverlayIs
    <3>. QED  BY <2>1, <3>2 DEF Committed
  <2>. QED  BY <1>1, <1>3, <2>2, <2>4 DEF AD!Next, AD!Commit
<1>6. CASE InstallTrans(p)
  <2>1. /\ hdr = lh /\ UNCHANGED <<logblk, hdr>>
        /\ tail + 1 \in 1 .. Len(lh)
        /\ \A b \in Block : Bread(b)' = Bread(b)
        /\ \A c \in Block \ {lh[tail + 1]} : home'[c] = home[c]
    BY <1>6, InstallStep
  <2>2. lh[tail + 1] \in Range(hdr)
    BY <2>1, RangeIs DEF TypeOK
  <2>3. Committed' = Committed
    BY <2>1, <2>2, CommittedInstall
  <2>4. Current' = Current
    BY <2>1, CurrentFrame
  <2>. QED  BY <1>1, <1>3, <2>3, <2>4 DEF AD!vars
<1>7. CASE ClearHead(p)
  <2>1. lh = <<>> /\ hdr' = <<>> /\ UNCHANGED <<home, logblk, cache>> /\ HomeHolds(hdr, Len(hdr))
    BY <1>7 DEF ClearHead, memory, CommitOK
  <2>2. Current' = Current
    BY <2>1, CurrentFrame DEF Bread
  <2>3. Committed = home
    BY <2>1, HomeIsCommitted
  <2>4. Committed' = home'
    BY <2>1 DEF Committed, Overlay, Range, TypeOK
  <2>. QED  BY <1>1, <1>3, <2>1, <2>2, <2>3, <2>4 DEF AD!vars
<1>. QED  BY <1>4, <1>5, <1>6, <1>7

\* A crash is the abstract Crash and the recovery is invisible.
LEMMA RecoverRefines ==
    ASSUME LogInv, Crash \/ (Recover /\ UNCHANGED <<calls, crashes>>)
    PROVE  [AD!Next]_(AD!vars)
<1>. USE DEF LogInv
<1>1. CASE Crash
  <2>1. Committed' = Committed
    BY <1>1, CommittedFrame DEF Crash, disk
  <2>2. Current' = Committed' /\ Active' = {}
    BY <1>1 DEF Crash, Current, Active
  <2>. QED  BY <2>1, <2>2 DEF AD!Next, AD!Crash
<1>2. CASE ReadHead /\ UNCHANGED <<calls, crashes>>
  <2>1. Committed' = Committed /\ Active' = Active /\ phase # "up" /\ phase' # "up"
    BY <1>2, CommittedFrame DEF ReadHead, disk, calls, Active
  <2>. QED  BY <2>1 DEF Current, AD!vars
<1>3. CASE RecoverInstall /\ UNCHANGED <<calls, crashes>>
  <2>1. lh = hdr /\ tail < Len(lh) /\ CopyHome
    BY <1>3 DEF RecoverInstall, RecoveryOK
  <2>2. /\ UNCHANGED <<logblk, hdr>> /\ tail + 1 \in 1 .. Len(lh)
        /\ \A c \in Block \ {lh[tail + 1]} : home'[c] = home[c]
    BY <2>1, CopyHomeStep
  <2>3. lh[tail + 1] \in Range(hdr)
    BY <2>1, <2>2, RangeIs DEF TypeOK
  <2>4. Committed' = Committed
    BY <2>2, <2>3, CommittedInstall
  <2>5. Active' = Active /\ phase # "up" /\ phase' # "up"
    BY <1>3 DEF RecoverInstall, calls, Active
  <2>. QED  BY <2>4, <2>5 DEF Current, AD!vars
<1>4. CASE RecoverClear /\ UNCHANGED <<calls, crashes>>
  <2>1. /\ lh = <<>> /\ hdr' = <<>> /\ UNCHANGED <<home, logblk, cache, pc>>
        /\ HomeHolds(hdr, Len(hdr)) /\ phase = "clear" /\ phase' = "up" /\ pinned = {}
    BY <1>4 DEF RecoverClear, memory, calls, RecoveryOK
  <2>2. Committed = home
    BY <2>1, HomeIsCommitted
  <2>3. Committed' = home'
    BY <2>1 DEF Committed, Overlay, Range, TypeOK
  <2>4. \A b \in Block : Bread(b)' = home[b]
    <3>1. Held = {}
      BY <2>1 DEF RecoveryOK, CallsOK, Held
    <3>. QED  BY <2>1, <3>1 DEF CacheOK, Bread
  <2>5. Current = home /\ Current' = home
    BY <2>1, <2>2, <2>4 DEF Current, TypeOK
  <2>6. Active' = Active
    BY <2>1 DEF Active
  <2>. QED  BY <2>1, <2>2, <2>3, <2>5, <2>6 DEF AD!vars
<1>. QED  BY <1>1, <1>2, <1>3, <1>4 DEF Recover

\* log.c implements the atomic disk: for any processes, blocks and log size,
\* a crash at any step of any call, commit or recovery leaves all the updates
\* of the last committed group of calls and none of any other.
THEOREM LogImplementsAtomicDisk == Spec => AtomicDiskSpec
<1>1. Init => AD!Init
  <2>. SUFFICES ASSUME Init PROVE AD!Init
    OBVIOUS
  <2>1. LogInv
    BY InitInv
  <2>2. Committed = home /\ Current = Committed /\ Active = {}
    BY <2>1 DEF Init, LogInv, TypeOK, Committed, Overlay, Range, Current, Active
  <2>. QED  BY <2>2 DEF Init, AD!Init
<1>2. LogInv /\ [Next]_vars => [AD!Next]_(AD!vars)
  <2>. SUFFICES ASSUME LogInv, [Next]_vars PROVE [AD!Next]_(AD!vars)
    OBVIOUS
  <2>1. ASSUME NEW p \in Proc, Call(p) PROVE [AD!Next]_(AD!vars)
    <3>1. Steady
      BY <2>1 DEF Call, Steady
    <3>. QED  BY <2>1, <3>1, CallRefines, CommitRefines DEF Call
  <2>2. ASSUME NEW b \in Block, Buffer(b) PROVE [AD!Next]_(AD!vars)
    <3>1. /\ phase = "up" /\ phase' = "up" /\ UNCHANGED <<home, logblk, hdr, pc>>
          /\ \A c \in Block : Bread(c)' = Bread(c)
      BY <2>2, BufferReads DEF Steady
    <3>2. Committed' = Committed /\ Current' = Current
      BY <3>1, CommittedFrame, CurrentFrame
    <3>3. Active' = Active
      BY <3>1 DEF Active
    <3>. QED  BY <3>2, <3>3 DEF AD!vars
  <2>3. CASE Recover \/ Crash
    BY <2>3, RecoverRefines DEF Recover
  <2>4. CASE UNCHANGED vars
    <3>1. Committed' = Committed /\ Active' = Active
      BY <2>4, CommittedFrame DEF vars, disk, calls, Active
    <3>2. Current' = Current
      BY <2>4, <3>1, CurrentFrame DEF vars, disk, memory, Bread, Current
    <3>. QED  BY <3>1, <3>2 DEF AD!vars
  <2>. QED  BY <2>1, <2>2, <2>3, <2>4 DEF Next
<1>. QED  BY <1>1, <1>2, LogInvariant, PTL DEF Spec, AtomicDiskSpec, AD!Spec

\* The write-ahead rule: install_trans(), in a commit or in a recovery, is the
\* only writer of home locations, and it writes what the log holds under a
\* header that is on the disk.
THEOREM WriteAheadCorrect == Spec => WriteAhead
<1>. DEFINE Rule == \A b \in Block : home'[b] # home[b] =>
                        \E i \in DOMAIN hdr : hdr[i] = b /\ home'[b] = logblk[i]
<1>1. LogInv /\ [Next]_vars => [Rule]_vars
  <2>. SUFFICES ASSUME LogInv, Next PROVE Rule
    OBVIOUS
  <2>1. ASSUME CopyHome, tail < Len(lh), hdr = lh PROVE Rule
    <3>1. /\ tail + 1 \in 1 .. Len(lh) /\ home'[lh[tail + 1]] = logblk[tail + 1]
          /\ \A c \in Block \ {lh[tail + 1]} : home'[c] = home[c]
      BY <2>1, CopyHomeStep DEF LogInv
    <3>2. DOMAIN hdr = 1 .. Len(hdr)
      BY DEF LogInv, TypeOK
    <3>. QED  BY <2>1, <3>1, <3>2
  <2>2. ASSUME NEW p \in Proc, Call(p) PROVE Rule
    <3>1. CASE InstallTrans(p)
      <4>1. CopyHome /\ tail < Len(lh) /\ hdr = lh
        BY <2>2, <3>1 DEF InstallTrans, Call, LogInv, CommitOK
      <4>. QED  BY <2>1, <4>1
    <3>2. CASE ~InstallTrans(p)
      BY <2>2, <3>2 DEF Call, BeginSleep, BeginAdmit, SpuriousWakeup, Modify, LogWrite,
         EndOp, EndOpLast, WriteLog, WriteHead, ClearHead, CommitDone, disk
    <3>. QED  BY <3>1, <3>2
  <2>3. ASSUME NEW b \in Block, Buffer(b) PROVE Rule
    BY <2>3 DEF Buffer, Recycle, Load, disk
  <2>4. CASE Recover
    <3>1. CASE RecoverInstall
      <4>1. CopyHome /\ tail < Len(lh) /\ hdr = lh
        BY <3>1 DEF RecoverInstall, LogInv, RecoveryOK
      <4>. QED  BY <2>1, <4>1
    <3>2. CASE ReadHead \/ RecoverClear
      BY <3>2 DEF ReadHead, RecoverClear, disk
    <3>. QED  BY <2>4, <3>1, <3>2 DEF Recover
  <2>5. CASE Crash
    BY <2>5 DEF Crash, disk
  <2>. QED  BY <2>2, <2>3, <2>4, <2>5 DEF Next
<1>. QED  BY <1>1, LogInvariant, PTL DEF Spec, WriteAhead
=============================================================================
