----------------------------- MODULE ProcProofs -----------------------------
(***************************************************************************)
(* Proofs about Proc, for a process table and a supply of pids of any size.*)
(***************************************************************************)
EXTENDS Proc, TLAPS

\* The table that userinit() leaves satisfies the invariant.
LEMMA InitInv == Init => ProcInv
<1> SUFFICES ASSUME Init PROVE ProcInv
  OBVIOUS
<1> USE TableAssumption DEF Init, Slot, None, initproc
<1>1. TypeOK
  <2>1. 1 \in Slot /\ 2 \in 1 .. MaxPid + 1 /\ 0 \in 0 .. MaxPid /\ 1 \in 0 .. MaxPid
    OBVIOUS
  <2>2. pid \in [Slot -> 0 .. MaxPid]
    BY <2>1
  <2> QED
    BY <2>1, <2>2 DEF TypeOK, States, Stages
<1>2. UniquePids /\ PidOK
  BY DEF UniquePids, PidOK
<1>3. ForkOK
  BY DEF ForkOK
<1>4. StageOK /\ ParentAlive /\ NoLostExit
  BY DEF StageOK, ParentAlive, NoLostExit, Children, ZombieChildren
<1> QED
  BY <1>1, <1>2, <1>3, <1>4 DEF ProcInv

\* What exit() does to the table on its way: no parent is s any more, and
\* whoever sleeps in wait() has been woken if a child of s or s is its own.
LEMMA ExitFacts ==
  ASSUME ProcInv, NEW s \in Slot, s # initproc, state[s] = "RUNNABLE", pc[s] = "user"
  PROVE  /\ initproc \in Slot
         /\ Reparent(s) \in [Slot -> Slot \cup {None}]
         /\ Wakeup(Woken(s)) \in [Slot -> States]
         /\ \A c \in Slot : Reparent(s)[c] = IF parent[c] = s THEN initproc ELSE parent[c]
         /\ \A t \in Slot : Wakeup(Woken(s))[t] # state[t] =>
                /\ state[t] = "SLEEPING" /\ Wakeup(Woken(s))[t] = "RUNNABLE"
         /\ \A t \in Slot : state[t] = "SLEEPING" /\ t = parent[s] => Wakeup(Woken(s))[t] = "RUNNABLE"
         /\ state[initproc] = "SLEEPING" /\ Children(s) # {} => Wakeup(Woken(s))[initproc] = "RUNNABLE"
<1>1. initproc \in Slot
  BY TableAssumption DEF initproc, Slot
<1>2. TypeOK /\ StageOK
  BY DEF ProcInv
<1> QED
  BY <1>1, <1>2 DEF TypeOK, StageOK, Reparent, Wakeup, Woken, States, None

\* Every step of fork(), exit(), wait() and kill() keeps the invariant.
LEMMA InvStep == ProcInv /\ [Next]_vars => ProcInv'
<1> SUFFICES ASSUME ProcInv, [Next]_vars PROVE ProcInv'
  OBVIOUS
<1> USE TableAssumption DEF None
<1>1. ASSUME NEW s \in Slot, ForkAlloc(s) PROVE ProcInv'
  <2>p. PICK c \in Slot : /\ c \in Unused
                        /\ pid' = [pid EXCEPT ![c] = nextpid]
                        /\ state' = [state EXCEPT ![c] = "USED"]
                        /\ np' = [np EXCEPT ![s] = c]
    BY <1>1 DEF ForkAlloc, First
  <2>0. TypeOK /\ UniquePids /\ PidOK /\ ForkOK /\ StageOK /\ ParentAlive /\ NoLostExit
        /\ state[initproc] \in {"RUNNABLE", "SLEEPING"} /\ initproc \in Slot
    BY DEF ProcInv, initproc, Slot
  <2>1. /\ state[s] = "RUNNABLE" /\ panicked = "no" /\ pc[s] = "user"
        /\ pid' = [pid EXCEPT ![c] = nextpid]
        /\ state' = [state EXCEPT ![c] = "USED"]
        /\ np' = [np EXCEPT ![s] = c]
        /\ state[c] = "UNUSED"
        /\ nextpid <= MaxPid /\ nextpid' = nextpid + 1
        /\ pc' = [pc EXCEPT ![s] = "fork_parent"]
        /\ parent' = parent /\ killed' = killed /\ waitlock' = waitlock /\ collected' = collected /\ panicked' = panicked
    BY <1>1, <2>p DEF ForkAlloc, CanFork, Live, Goto, Unused
  <2>2. TypeOK'
    BY <2>0, <2>1 DEF TypeOK, States, Stages, Slot
  <2>3. UniquePids' /\ PidOK'
    BY <2>0, <2>1 DEF TypeOK, UniquePids, PidOK, Slot
  <2>4. ForkOK'
    <3>1. \A t \in Slot : np[t] # c /\ parent[c] = None /\ s # c
      BY <2>0, <2>1 DEF ForkOK, StageOK, Slot
    <3>2. np[s] = None
      BY <2>0, <2>1 DEF ForkOK
    <3>3. ASSUME NEW t \in Slot, t # s
          PROVE  /\ pc'[t] = pc[t] /\ np'[t] = np[t] /\ np[t] # c
                 /\ np[t] # None => state'[np[t]] = state[np[t]] /\ np[t] \in Slot
      BY <2>0, <2>1, <3>1, <3>3 DEF TypeOK
    <3>4. np'[s] = c /\ pc'[s] = "fork_parent" /\ state'[c] = "USED" /\ state'[s] = "RUNNABLE"
      BY <2>0, <2>1, <3>1 DEF TypeOK
    <3>5. \A t \in Slot : t # c => state'[t] = state[t]
      BY <2>0, <2>1 DEF TypeOK
    <3>6. c # None /\ c \in Slot
      BY <2>0, <2>1 DEF Slot
    <3> QED
      BY <2>0, <2>1, <3>1, <3>2, <3>3, <3>4, <3>5, <3>6 DEF ForkOK
  <2>5. StageOK'
    BY <2>0, <2>1 DEF TypeOK, StageOK, Children, ForkOK, NoLostExit, ZombieChildren
  <2>6. ParentAlive'
    BY <2>0, <2>1 DEF TypeOK, ParentAlive, ForkOK
  <2>7. NoLostExit'
    BY <2>0, <2>1 DEF TypeOK, NoLostExit, ZombieChildren, Children, ForkOK
  <2>8. (state[initproc] \in {"RUNNABLE", "SLEEPING"})'
    BY <2>0, <2>1 DEF TypeOK, ForkOK, initproc, Slot
  <2> QED
    BY <2>2, <2>3, <2>4, <2>5, <2>6, <2>7, <2>8 DEF ProcInv
<1>2. ASSUME NEW s \in Slot, ForkNoMemory(s) PROVE ProcInv'
  <2>p. PICK c \in Slot : /\ c \in Unused
                        /\ pid' = [pid EXCEPT ![c] = 0]
                        /\ parent' = [parent EXCEPT ![c] = None]
                        /\ killed' = [killed EXCEPT ![c] = FALSE]
    BY <1>2 DEF ForkNoMemory, First
  <2>0. TypeOK /\ UniquePids /\ PidOK /\ ForkOK /\ StageOK /\ ParentAlive /\ NoLostExit
        /\ state[initproc] \in {"RUNNABLE", "SLEEPING"} /\ initproc \in Slot
    BY DEF ProcInv, initproc, Slot
  <2>1. /\ state[s] = "RUNNABLE" /\ panicked = "no"
        /\ pid' = [pid EXCEPT ![c] = 0]
        /\ parent' = [parent EXCEPT ![c] = None]
        /\ killed' = [killed EXCEPT ![c] = FALSE]
        /\ state[c] = "UNUSED"
        /\ nextpid <= MaxPid /\ nextpid' = nextpid + 1
        /\ state' = state /\ waitlock' = waitlock /\ pc' = pc /\ np' = np /\ collected' = collected /\ panicked' = panicked
    BY <1>2, <2>p DEF ForkNoMemory, CanFork, Live, Unused
  <2>2. TypeOK'
    BY <2>0, <2>1 DEF TypeOK, States, Stages, Slot
  <2>3. UniquePids' /\ PidOK'
    BY <2>0, <2>1 DEF TypeOK, UniquePids, PidOK, Slot
  <2>4. ForkOK'
    BY <2>0, <2>1 DEF TypeOK, ForkOK, UniquePids, StageOK
  <2>5. StageOK'
    BY <2>0, <2>1 DEF TypeOK, StageOK, Children, ForkOK, NoLostExit, ZombieChildren
  <2>6. ParentAlive'
    BY <2>0, <2>1 DEF TypeOK, ParentAlive, ForkOK
  <2>7. NoLostExit'
    BY <2>0, <2>1 DEF TypeOK, NoLostExit, ZombieChildren, Children, ForkOK
  <2>8. (state[initproc] \in {"RUNNABLE", "SLEEPING"})'
    BY <2>0, <2>1 DEF TypeOK, ForkOK, initproc, Slot
  <2> QED
    BY <2>2, <2>3, <2>4, <2>5, <2>6, <2>7, <2>8 DEF ProcInv
<1>3. ASSUME NEW s \in Slot, ForkParent(s) PROVE ProcInv'
  <2>0. TypeOK /\ UniquePids /\ PidOK /\ ForkOK /\ StageOK /\ ParentAlive /\ NoLostExit
        /\ state[initproc] \in {"RUNNABLE", "SLEEPING"} /\ initproc \in Slot
    BY DEF ProcInv, initproc, Slot
  <2>1. /\ state[s] = "RUNNABLE" /\ panicked = "no" /\ pc[s] = "fork_parent"
        /\ waitlock = None
        /\ parent' = [parent EXCEPT ![np[s]] = s]
        /\ pc' = [pc EXCEPT ![s] = "fork_run"]
        /\ state' = state /\ pid' = pid /\ killed' = killed /\ nextpid' = nextpid /\ waitlock' = waitlock /\ np' = np /\ collected' = collected /\ panicked' = panicked
    BY <1>3 DEF ForkParent, Live, Goto
  <2>2. TypeOK'
    BY <2>0, <2>1 DEF TypeOK, States, Stages, Slot
  <2>3. UniquePids' /\ PidOK'
    BY <2>0, <2>1 DEF TypeOK, UniquePids, PidOK, Slot
  <2>4. ForkOK'
    BY <2>0, <2>1 DEF TypeOK, ForkOK, UniquePids, StageOK
  <2>5. StageOK'
    <3>1. parent[np[s]] = None /\ np[s] \in Slot /\ state[np[s]] = "USED"
      BY <2>0, <2>1 DEF TypeOK, ForkOK
    <3>2. \A t \in Slot : Children(t) \subseteq Children(t)'
      BY <2>0, <2>1, <3>1 DEF TypeOK, Children, Slot
    <3>3. \A t \in Slot : state[t] = "UNUSED" => parent'[t] = parent[t]
      BY <2>0, <2>1, <3>1 DEF TypeOK
    <3> QED
      BY <2>0, <2>1, <3>2, <3>3 DEF TypeOK, StageOK
  <2>6. ParentAlive'
    BY <2>0, <2>1 DEF TypeOK, ParentAlive, ForkOK
  <2>7. NoLostExit'
    BY <2>0, <2>1 DEF TypeOK, NoLostExit, ZombieChildren, Children, ForkOK
  <2>8. (state[initproc] \in {"RUNNABLE", "SLEEPING"})'
    BY <2>0, <2>1 DEF TypeOK, ForkOK, initproc, Slot
  <2> QED
    BY <2>2, <2>3, <2>4, <2>5, <2>6, <2>7, <2>8 DEF ProcInv
<1>4. ASSUME NEW s \in Slot, ForkRun(s) PROVE ProcInv'
  <2>0. TypeOK /\ UniquePids /\ PidOK /\ ForkOK /\ StageOK /\ ParentAlive /\ NoLostExit
        /\ state[initproc] \in {"RUNNABLE", "SLEEPING"} /\ initproc \in Slot
    BY DEF ProcInv, initproc, Slot
  <2>1. /\ state[s] = "RUNNABLE" /\ panicked = "no" /\ pc[s] = "fork_run"
        /\ state' = [state EXCEPT ![np[s]] = "RUNNABLE"]
        /\ np' = [np EXCEPT ![s] = None]
        /\ pc' = [pc EXCEPT ![s] = "user"]
        /\ parent' = parent /\ pid' = pid /\ killed' = killed /\ nextpid' = nextpid /\ waitlock' = waitlock /\ collected' = collected /\ panicked' = panicked
    BY <1>4 DEF ForkRun, Live, Goto
  <2>2. TypeOK'
    BY <2>0, <2>1 DEF TypeOK, States, Stages, Slot
  <2>3. UniquePids' /\ PidOK'
    BY <2>0, <2>1 DEF TypeOK, UniquePids, PidOK, Slot, ForkOK
  <2>4. ForkOK'
    BY <2>0, <2>1 DEF TypeOK, ForkOK, UniquePids, StageOK
  <2>5. StageOK'
    BY <2>0, <2>1 DEF TypeOK, StageOK, Children, ForkOK, NoLostExit, ZombieChildren
  <2>6. ParentAlive'
    BY <2>0, <2>1 DEF TypeOK, ParentAlive, ForkOK
  <2>7. NoLostExit'
    BY <2>0, <2>1 DEF TypeOK, NoLostExit, ZombieChildren, Children, ForkOK
  <2>8. (state[initproc] \in {"RUNNABLE", "SLEEPING"})'
    BY <2>0, <2>1 DEF TypeOK, ForkOK, initproc, Slot
  <2> QED
    BY <2>2, <2>3, <2>4, <2>5, <2>6, <2>7, <2>8 DEF ProcInv
<1>5. ASSUME NEW s \in Slot, Exit(s) PROVE ProcInv'
  <2>0. TypeOK /\ UniquePids /\ PidOK /\ ForkOK /\ StageOK /\ ParentAlive /\ NoLostExit
        /\ state[initproc] \in {"RUNNABLE", "SLEEPING"} /\ initproc \in Slot
    BY DEF ProcInv, initproc, Slot
  <2>1. /\ state[s] = "RUNNABLE" /\ panicked = "no" /\ pc[s] = "user" /\ s # initproc /\ waitlock = None
        /\ parent' = Reparent(s)
        /\ state' = [Wakeup(Woken(s)) EXCEPT ![s] = "ZOMBIE"]
        /\ pid' = pid /\ killed' = killed /\ nextpid' = nextpid /\ waitlock' = waitlock /\ pc' = pc /\ np' = np
        /\ collected' = collected /\ panicked' = panicked
    BY <1>5 DEF Exit, Live
  <2> DEFINE W == Wakeup(Woken(s))
  <2>a. /\ Reparent(s) \in [Slot -> Slot \cup {None}]
        /\ W \in [Slot -> States]
        /\ \A c \in Slot : parent'[c] = IF parent[c] = s THEN initproc ELSE parent[c]
        /\ \A t \in Slot : W[t] # state[t] => state[t] = "SLEEPING" /\ W[t] = "RUNNABLE"
    BY <2>1, ExitFacts
  <2>c. /\ \A t \in Slot : state[t] = "SLEEPING" /\ t = parent[s] => W[t] = "RUNNABLE"
        /\ state[initproc] = "SLEEPING" /\ Children(s) # {} => W[initproc] = "RUNNABLE"
    BY <2>0, <2>1, ExitFacts
  <2> HIDE DEF W
  <2>b. \A t \in Slot : state'[t] = IF t = s THEN "ZOMBIE" ELSE W[t]
    BY <2>0, <2>1, <2>a DEF TypeOK, W
  <2>2. TypeOK'
    BY <2>0, <2>1, <2>a DEF TypeOK, States, W
  <2>3. UniquePids' /\ PidOK'
    BY <2>0, <2>1, <2>a, <2>b DEF TypeOK, UniquePids, PidOK
  <2>4. ForkOK'
    <3>1. \A t \in Slot : np[t] # None => np[t] \in Slot /\ t # s /\ np[t] # s
      BY <2>0, <2>1 DEF TypeOK, ForkOK
    <3>2. \A t \in Slot : state[t] # "SLEEPING" /\ t # s => state'[t] = state[t]
      BY <2>a, <2>b
    <3>3. \A t \in Slot : state'[t] = "USED" => state[t] = "USED"
      BY <2>a, <2>b
    <3>4. \A t \in Slot : pc[t] = "fork_parent" => parent'[np[t]] = parent[np[t]]
      BY <2>0, <2>1, <2>a, <3>1 DEF ForkOK, Slot
    <3>5. \A t \in Slot : pc[t] = "fork_run" => parent'[np[t]] = parent[np[t]]
      BY <2>0, <2>1, <2>a, <3>1 DEF ForkOK
    <3> QED
      BY <2>0, <2>1, <3>1, <3>2, <3>3, <3>4, <3>5 DEF ForkOK
  <2>5. StageOK'
    <3>1. \A t \in Slot : t # s => Children(t) \subseteq Children(t)'
      BY <2>a DEF Children
    <3>2. \A t \in Slot : state'[t] = "UNUSED" => state[t] = "UNUSED" /\ parent'[t] = parent[t]
      BY <2>0, <2>a, <2>b DEF StageOK, Slot
    <3>3. \A t \in Slot : state'[t] = "SLEEPING" => state[t] = "SLEEPING"
      BY <2>a, <2>b
    <3>4. \A t \in Slot : state[t] \in {"RUNNABLE", "SLEEPING"} /\ t # s =>
              state'[t] \in {"RUNNABLE", "SLEEPING"}
      BY <2>a, <2>b
    <3>5. \A t \in Slot : pc'[t] = pc[t] /\ pc[t] # "wait_sleep"
      BY <2>0, <2>1 DEF StageOK, Slot
    <3> QED
      BY <2>0, <2>1, <3>1, <3>2, <3>3, <3>4, <3>5 DEF StageOK, Slot
  <2>6. ParentAlive'
    <3>1. ASSUME NEW c \in Slot, parent'[c] # None PROVE state'[parent'[c]] \in {"RUNNABLE", "SLEEPING"}
      <4>1. parent'[c] \in Slot /\ parent'[c] # s /\ state[parent'[c]] \in {"RUNNABLE", "SLEEPING"}
        BY <2>0, <2>1, <2>a, <3>1 DEF TypeOK, ParentAlive
      <4> QED
        BY <2>a, <2>b, <4>1
    <3> QED
      BY <3>1 DEF ParentAlive
  <2>7. NoLostExit'
    <3>1. ASSUME NEW t \in Slot, state'[t] = "SLEEPING", NEW c \in Slot, parent'[c] = t, state'[c] = "ZOMBIE"
          PROVE  FALSE
      <4>1. state[t] = "SLEEPING" /\ W[t] = "SLEEPING" /\ t # s
        BY <2>a, <2>b, <2>1, <3>1
      <4>2. CASE parent[c] = s
        BY <2>a, <2>c, <3>1, <4>1, <4>2 DEF Children
      <4>3. CASE parent[c] # s
        <5>1. parent[c] = t
          BY <2>a, <3>1, <4>3
        <5>2. CASE c = s
          BY <2>c, <4>1, <5>1, <5>2
        <5>3. CASE c # s
          BY <2>0, <2>a, <2>b, <3>1, <4>1, <5>1, <5>3 DEF NoLostExit, ZombieChildren, Children
        <5> QED
          BY <5>2, <5>3
      <4> QED
        BY <4>2, <4>3
    <3>2. \A t \in Slot : pc'[t] # "wait_sleep"
      BY <2>0, <2>1 DEF StageOK, Slot
    <3> QED
      BY <3>1, <3>2 DEF NoLostExit, ZombieChildren, Children
  <2>8. (state[initproc] \in {"RUNNABLE", "SLEEPING"})'
    BY <2>0, <2>1, <2>a, <2>b DEF initproc
  <2> QED
    BY <2>2, <2>3, <2>4, <2>5, <2>6, <2>7, <2>8 DEF ProcInv
<1>6. ASSUME NEW s \in Slot, ExitKilled(s), s # initproc PROVE ProcInv'
  <2>0. TypeOK /\ UniquePids /\ PidOK /\ ForkOK /\ StageOK /\ ParentAlive /\ NoLostExit
        /\ state[initproc] \in {"RUNNABLE", "SLEEPING"} /\ initproc \in Slot
    BY DEF ProcInv, initproc, Slot
  <2>1. /\ state[s] = "RUNNABLE" /\ panicked = "no" /\ pc[s] = "user" /\ s # initproc /\ waitlock = None
        /\ parent' = Reparent(s)
        /\ state' = Wakeup(Woken(s)) /\ waitlock' = s /\ panicked' = "kerneltrap"
        /\ pid' = pid /\ killed' = killed /\ nextpid' = nextpid /\ pc' = pc /\ np' = np
        /\ collected' = collected
    BY <1>6 DEF ExitKilled, Live
  <2> DEFINE W == Wakeup(Woken(s))
  <2>a. /\ Reparent(s) \in [Slot -> Slot \cup {None}]
        /\ W \in [Slot -> States]
        /\ \A c \in Slot : parent'[c] = IF parent[c] = s THEN initproc ELSE parent[c]
        /\ \A t \in Slot : W[t] # state[t] => state[t] = "SLEEPING" /\ W[t] = "RUNNABLE"
    BY <2>1, ExitFacts
  <2>c. /\ \A t \in Slot : state[t] = "SLEEPING" /\ t = parent[s] => W[t] = "RUNNABLE"
        /\ state[initproc] = "SLEEPING" /\ Children(s) # {} => W[initproc] = "RUNNABLE"
    BY <2>0, <2>1, ExitFacts
  <2> HIDE DEF W
  <2>b. \A t \in Slot : state'[t] = W[t]
    BY <2>0, <2>1, <2>a DEF TypeOK, W
  <2>2. TypeOK'
    BY <2>0, <2>1, <2>a DEF TypeOK, States, W
  <2>3. UniquePids' /\ PidOK'
    BY <2>0, <2>1, <2>a, <2>b DEF TypeOK, UniquePids, PidOK
  <2>4. ForkOK'
    <3>1. \A t \in Slot : np[t] # None => np[t] \in Slot /\ t # s /\ np[t] # s
      BY <2>0, <2>1 DEF TypeOK, ForkOK
    <3>2. \A t \in Slot : state[t] # "SLEEPING" /\ t # s => state'[t] = state[t]
      BY <2>a, <2>b
    <3>3. \A t \in Slot : state'[t] = "USED" => state[t] = "USED"
      BY <2>a, <2>b
    <3>4. \A t \in Slot : pc[t] = "fork_parent" => parent'[np[t]] = parent[np[t]]
      BY <2>0, <2>1, <2>a, <3>1 DEF ForkOK, Slot
    <3>5. \A t \in Slot : pc[t] = "fork_run" => parent'[np[t]] = parent[np[t]]
      BY <2>0, <2>1, <2>a, <3>1 DEF ForkOK
    <3> QED
      BY <2>0, <2>1, <3>1, <3>2, <3>3, <3>4, <3>5 DEF ForkOK
  <2>5. StageOK'
    <3>1. \A t \in Slot : t # s => Children(t) \subseteq Children(t)'
      BY <2>a DEF Children
    <3>2. \A t \in Slot : state'[t] = "UNUSED" => state[t] = "UNUSED" /\ parent'[t] = parent[t]
      BY <2>0, <2>a, <2>b DEF StageOK, Slot
    <3>3. \A t \in Slot : state'[t] = "SLEEPING" => state[t] = "SLEEPING"
      BY <2>a, <2>b
    <3>4. \A t \in Slot : state[t] \in {"RUNNABLE", "SLEEPING"} /\ t # s =>
              state'[t] \in {"RUNNABLE", "SLEEPING"}
      BY <2>a, <2>b
    <3>5. \A t \in Slot : pc'[t] = pc[t] /\ pc[t] # "wait_sleep"
      BY <2>0, <2>1 DEF StageOK, Slot
    <3> QED
      BY <2>0, <2>1, <3>1, <3>2, <3>3, <3>4, <3>5 DEF StageOK, Slot
  <2>6. ParentAlive'
    <3>1. ASSUME NEW c \in Slot, parent'[c] # None PROVE state'[parent'[c]] \in {"RUNNABLE", "SLEEPING"}
      <4>1. parent'[c] \in Slot /\ parent'[c] # s /\ state[parent'[c]] \in {"RUNNABLE", "SLEEPING"}
        BY <2>0, <2>1, <2>a, <3>1 DEF TypeOK, ParentAlive
      <4> QED
        BY <2>a, <2>b, <4>1
    <3> QED
      BY <3>1 DEF ParentAlive
  <2>7. NoLostExit'
    <3>1. ASSUME NEW t \in Slot, state'[t] = "SLEEPING", NEW c \in Slot, parent'[c] = t, state'[c] = "ZOMBIE"
          PROVE  FALSE
      <4>1. state[t] = "SLEEPING" /\ W[t] = "SLEEPING" /\ t # s
        BY <2>a, <2>b, <2>1, <3>1
      <4>2. CASE parent[c] = s
        BY <2>a, <2>c, <3>1, <4>1, <4>2 DEF Children
      <4>3. CASE parent[c] # s
        <5>1. parent[c] = t
          BY <2>a, <3>1, <4>3
        <5>2. CASE c = s
          BY <2>c, <4>1, <5>1, <5>2
        <5>3. CASE c # s
          BY <2>0, <2>a, <2>b, <3>1, <4>1, <5>1, <5>3 DEF NoLostExit, ZombieChildren, Children
        <5> QED
          BY <5>2, <5>3
      <4> QED
        BY <4>2, <4>3
    <3>2. \A t \in Slot : pc'[t] # "wait_sleep"
      BY <2>0, <2>1 DEF StageOK, Slot
    <3> QED
      BY <3>1, <3>2 DEF NoLostExit, ZombieChildren, Children
  <2>8. (state[initproc] \in {"RUNNABLE", "SLEEPING"})'
    BY <2>0, <2>1, <2>a, <2>b DEF initproc
  <2> QED
    BY <2>2, <2>3, <2>4, <2>5, <2>6, <2>7, <2>8 DEF ProcInv
<1>6a. ASSUME ExitKilled(initproc) PROVE ProcInv'
  <2>1. /\ panicked' = "init exiting"
        /\ state' = state /\ parent' = parent /\ waitlock' = waitlock /\ pid' = pid
        /\ killed' = killed /\ nextpid' = nextpid /\ pc' = pc /\ np' = np /\ collected' = collected
    BY <1>6a DEF ExitKilled
  <2>2. TypeOK' /\ UniquePids' /\ PidOK'
    BY <2>1 DEF ProcInv, TypeOK, UniquePids, PidOK
  <2>3. ForkOK'
    <3>1. ForkOK
      BY DEF ProcInv
    <3>2. UNCHANGED <<pc, np, state, parent>>
      BY <2>1
    <3>3. ForkOK' = ForkOK
      BY ONLY <3>2 DEF ForkOK
    <3> QED
      BY <3>1, <3>3
  <2>6. ParentAlive'
    BY <2>1 DEF ProcInv, ParentAlive
  <2>5. NoLostExit'
    BY <2>1 DEF ProcInv, NoLostExit, ZombieChildren, Children
  <2>4. StageOK'
    <3>1. \A t \in Slot : Children(t)' = Children(t)
      BY <2>1 DEF Children
    <3> QED
      BY <2>1, <3>1 DEF ProcInv, StageOK
  <2> QED
    BY <2>1, <2>2, <2>3, <2>4, <2>5, <2>6 DEF ProcInv
<1>7. ASSUME NEW s \in Slot, WaitCall(s) PROVE ProcInv'
  <2>0. TypeOK /\ UniquePids /\ PidOK /\ ForkOK /\ StageOK /\ ParentAlive /\ NoLostExit
        /\ state[initproc] \in {"RUNNABLE", "SLEEPING"} /\ initproc \in Slot
    BY DEF ProcInv, initproc, Slot
  <2>1. /\ state[s] = "RUNNABLE" /\ panicked = "no" /\ pc[s] = "user"
        /\ pc' = [pc EXCEPT ![s] = "wait"]
        /\ state' = state /\ parent' = parent /\ pid' = pid /\ killed' = killed /\ nextpid' = nextpid /\ waitlock' = waitlock /\ np' = np /\ collected' = collected /\ panicked' = panicked
    BY <1>7 DEF WaitCall, Live, Goto
  <2>2. TypeOK'
    BY <2>0, <2>1 DEF TypeOK, States, Stages, Slot
  <2>3. UniquePids' /\ PidOK'
    BY <2>0, <2>1 DEF TypeOK, UniquePids, PidOK, Slot
  <2>4. ForkOK'
    BY <2>0, <2>1 DEF TypeOK, ForkOK, UniquePids, StageOK
  <2>5. StageOK'
    BY <2>0, <2>1 DEF TypeOK, StageOK, Children, ForkOK, NoLostExit, ZombieChildren
  <2>6. ParentAlive'
    BY <2>0, <2>1 DEF TypeOK, ParentAlive, ForkOK
  <2>7. NoLostExit'
    BY <2>0, <2>1 DEF TypeOK, NoLostExit, ZombieChildren, Children, ForkOK
  <2>8. (state[initproc] \in {"RUNNABLE", "SLEEPING"})'
    BY <2>0, <2>1 DEF TypeOK, ForkOK, initproc, Slot
  <2> QED
    BY <2>2, <2>3, <2>4, <2>5, <2>6, <2>7, <2>8 DEF ProcInv
<1>8. ASSUME NEW s \in Slot, WaitFound(s) PROVE ProcInv'
  <2>p. PICK c \in Slot : /\ c \in ZombieChildren(s)
                        /\ collected' = collected \cup {pid[c]}
    BY <1>8 DEF WaitFound, First
  <2>0. TypeOK /\ UniquePids /\ PidOK /\ ForkOK /\ StageOK /\ ParentAlive /\ NoLostExit
        /\ state[initproc] \in {"RUNNABLE", "SLEEPING"} /\ initproc \in Slot
    BY DEF ProcInv, initproc, Slot
  <2>1. /\ state[s] = "RUNNABLE" /\ panicked = "no" /\ pc[s] = "wait"
        /\ collected' = collected \cup {pid[c]}
        /\ state[c] = "ZOMBIE"
        /\ pc' = [pc EXCEPT ![s] = "user"]
        /\ state' = state /\ parent' = parent /\ pid' = pid /\ killed' = killed /\ nextpid' = nextpid /\ waitlock' = waitlock /\ np' = np /\ panicked' = panicked
    BY <1>8, <2>p DEF WaitFound, Live, Goto, ZombieChildren
  <2>2. TypeOK'
    <3>1. pid[c] \in 1 .. MaxPid
      BY <2>0, <2>1 DEF TypeOK, UniquePids
    <3> QED
      BY <2>0, <2>1, <3>1 DEF TypeOK, Stages
  <2>3. UniquePids' /\ PidOK'
    BY <2>0, <2>1 DEF TypeOK, UniquePids, PidOK, Slot
  <2>4. ForkOK'
    BY <2>0, <2>1 DEF TypeOK, ForkOK, UniquePids, StageOK
  <2>5. StageOK'
    BY <2>0, <2>1 DEF TypeOK, StageOK, Children, ForkOK, NoLostExit, ZombieChildren
  <2>6. ParentAlive'
    BY <2>0, <2>1 DEF TypeOK, ParentAlive, ForkOK
  <2>7. NoLostExit'
    BY <2>0, <2>1 DEF TypeOK, NoLostExit, ZombieChildren, Children, ForkOK
  <2>8. (state[initproc] \in {"RUNNABLE", "SLEEPING"})'
    BY <2>0, <2>1 DEF TypeOK, ForkOK, initproc, Slot
  <2> QED
    BY <2>2, <2>3, <2>4, <2>5, <2>6, <2>7, <2>8 DEF ProcInv
<1>9. ASSUME NEW s \in Slot, WaitFails(s) PROVE ProcInv'
  <2>0. TypeOK /\ UniquePids /\ PidOK /\ ForkOK /\ StageOK /\ ParentAlive /\ NoLostExit
        /\ state[initproc] \in {"RUNNABLE", "SLEEPING"} /\ initproc \in Slot
    BY DEF ProcInv, initproc, Slot
  <2>1. /\ state[s] = "RUNNABLE" /\ panicked = "no" /\ pc[s] = "wait"
        /\ pc' = [pc EXCEPT ![s] = "user"]
        /\ state' = state /\ parent' = parent /\ pid' = pid /\ killed' = killed /\ nextpid' = nextpid /\ waitlock' = waitlock /\ np' = np /\ collected' = collected /\ panicked' = panicked
    BY <1>9 DEF WaitFails, Live, Goto
  <2>2. TypeOK'
    BY <2>0, <2>1 DEF TypeOK, States, Stages, Slot
  <2>3. UniquePids' /\ PidOK'
    BY <2>0, <2>1 DEF TypeOK, UniquePids, PidOK, Slot
  <2>4. ForkOK'
    BY <2>0, <2>1 DEF TypeOK, ForkOK, UniquePids, StageOK
  <2>5. StageOK'
    BY <2>0, <2>1 DEF TypeOK, StageOK, Children, ForkOK, NoLostExit, ZombieChildren
  <2>6. ParentAlive'
    BY <2>0, <2>1 DEF TypeOK, ParentAlive, ForkOK
  <2>7. NoLostExit'
    BY <2>0, <2>1 DEF TypeOK, NoLostExit, ZombieChildren, Children, ForkOK
  <2>8. (state[initproc] \in {"RUNNABLE", "SLEEPING"})'
    BY <2>0, <2>1 DEF TypeOK, ForkOK, initproc, Slot
  <2> QED
    BY <2>2, <2>3, <2>4, <2>5, <2>6, <2>7, <2>8 DEF ProcInv
<1>10. ASSUME NEW s \in Slot, WaitNone(s) PROVE ProcInv'
  <2>0. TypeOK /\ UniquePids /\ PidOK /\ ForkOK /\ StageOK /\ ParentAlive /\ NoLostExit
        /\ state[initproc] \in {"RUNNABLE", "SLEEPING"} /\ initproc \in Slot
    BY DEF ProcInv, initproc, Slot
  <2>1. /\ state[s] = "RUNNABLE" /\ panicked = "no" /\ pc[s] = "wait" /\ waitlock = None /\ waitlock' = s
        /\ Children(s) # {} /\ ZombieChildren(s) = {}
        /\ pc' = [pc EXCEPT ![s] = "wait_sleep"]
        /\ state' = state /\ parent' = parent /\ pid' = pid /\ killed' = killed /\ nextpid' = nextpid /\ np' = np /\ collected' = collected /\ panicked' = panicked
    BY <1>10 DEF WaitNone, Live, Goto
  <2>2. TypeOK'
    BY <2>0, <2>1 DEF TypeOK, States, Stages, Slot
  <2>3. UniquePids' /\ PidOK'
    BY <2>0, <2>1 DEF TypeOK, UniquePids, PidOK, Slot
  <2>4. ForkOK'
    BY <2>0, <2>1 DEF TypeOK, ForkOK, UniquePids, StageOK
  <2>5. StageOK'
    <3>1. \A t \in Slot : Children(t)' = Children(t)
      BY <2>1 DEF Children
    <3>2. waitlock = None
      BY <2>0, <2>1 DEF StageOK
    <3>3. ASSUME NEW t \in Slot, t # s
          PROVE  /\ pc'[t] = pc[t] /\ state'[t] = state[t] /\ pc[t] # "wait_sleep"
                 /\ waitlock' # t
      BY <2>0, <2>1, <3>2, <3>3 DEF TypeOK, StageOK, Slot
    <3>4. /\ pc'[s] = "wait_sleep" /\ state'[s] = "RUNNABLE" /\ waitlock' = s /\ Children(s) # {}
      BY <2>0, <2>1 DEF TypeOK, StageOK
    <3> QED
      BY <2>0, <2>1, <3>1, <3>3, <3>4 DEF StageOK, Slot
  <2>6. ParentAlive'
    BY <2>0, <2>1 DEF TypeOK, ParentAlive, ForkOK
  <2>7. NoLostExit'
    BY <2>0, <2>1 DEF TypeOK, NoLostExit, ZombieChildren, Children, ForkOK
  <2>8. (state[initproc] \in {"RUNNABLE", "SLEEPING"})'
    BY <2>0, <2>1 DEF TypeOK, ForkOK, initproc, Slot
  <2> QED
    BY <2>2, <2>3, <2>4, <2>5, <2>6, <2>7, <2>8 DEF ProcInv
<1>11. ASSUME NEW s \in Slot, WaitSleep(s) PROVE ProcInv'
  <2>0. TypeOK /\ UniquePids /\ PidOK /\ ForkOK /\ StageOK /\ ParentAlive /\ NoLostExit
        /\ state[initproc] \in {"RUNNABLE", "SLEEPING"} /\ initproc \in Slot
    BY DEF ProcInv, initproc, Slot
  <2>1. /\ state[s] = "RUNNABLE" /\ panicked = "no" /\ pc[s] = "wait_sleep" /\ waitlock' = None
        /\ state' = [state EXCEPT ![s] = "SLEEPING"]
        /\ pc' = [pc EXCEPT ![s] = "asleep"]
        /\ parent' = parent /\ pid' = pid /\ killed' = killed /\ nextpid' = nextpid /\ np' = np /\ collected' = collected /\ panicked' = panicked
    BY <1>11 DEF WaitSleep, Live, Goto
  <2>2. TypeOK'
    BY <2>0, <2>1 DEF TypeOK, States, Stages, Slot
  <2>3. UniquePids' /\ PidOK'
    BY <2>0, <2>1 DEF TypeOK, UniquePids, PidOK, Slot
  <2>4. ForkOK'
    BY <2>0, <2>1 DEF TypeOK, ForkOK, UniquePids, StageOK
  <2>5. StageOK'
    <3>1. \A t \in Slot : Children(t)' = Children(t)
      BY <2>1 DEF Children
    <3>2. waitlock = s
      BY <2>0, <2>1 DEF StageOK
    <3>3. ASSUME NEW t \in Slot, t # s
          PROVE  /\ pc'[t] = pc[t] /\ state'[t] = state[t] /\ pc[t] # "wait_sleep"
                 /\ waitlock' # t
      BY <2>0, <2>1, <3>2, <3>3 DEF TypeOK, StageOK, Slot
    <3>4. /\ pc'[s] = "asleep" /\ state'[s] = "SLEEPING" /\ waitlock' = None /\ Children(s) # {}
      BY <2>0, <2>1 DEF TypeOK, StageOK
    <3> QED
      BY <2>0, <2>1, <3>1, <3>3, <3>4 DEF StageOK, Slot
  <2>6. ParentAlive'
    BY <2>0, <2>1 DEF TypeOK, ParentAlive, ForkOK
  <2>7. NoLostExit'
    BY <2>0, <2>1 DEF TypeOK, NoLostExit, ZombieChildren, Children, ForkOK
  <2>8. (state[initproc] \in {"RUNNABLE", "SLEEPING"})'
    BY <2>0, <2>1 DEF TypeOK, ForkOK, initproc, Slot
  <2> QED
    BY <2>2, <2>3, <2>4, <2>5, <2>6, <2>7, <2>8 DEF ProcInv
<1>12. ASSUME NEW s \in Slot, WaitWoken(s) PROVE ProcInv'
  <2>0. TypeOK /\ UniquePids /\ PidOK /\ ForkOK /\ StageOK /\ ParentAlive /\ NoLostExit
        /\ state[initproc] \in {"RUNNABLE", "SLEEPING"} /\ initproc \in Slot
    BY DEF ProcInv, initproc, Slot
  <2>1. /\ state[s] = "RUNNABLE" /\ panicked = "no" /\ pc[s] = "asleep"
        /\ pc' = [pc EXCEPT ![s] = "wait"]
        /\ state' = state /\ parent' = parent /\ pid' = pid /\ killed' = killed /\ nextpid' = nextpid /\ waitlock' = waitlock /\ np' = np /\ collected' = collected /\ panicked' = panicked
    BY <1>12 DEF WaitWoken, Live, Goto
  <2>2. TypeOK'
    BY <2>0, <2>1 DEF TypeOK, States, Stages, Slot
  <2>3. UniquePids' /\ PidOK'
    BY <2>0, <2>1 DEF TypeOK, UniquePids, PidOK, Slot
  <2>4. ForkOK'
    BY <2>0, <2>1 DEF TypeOK, ForkOK, UniquePids, StageOK
  <2>5. StageOK'
    BY <2>0, <2>1 DEF TypeOK, StageOK, Children, ForkOK, NoLostExit, ZombieChildren
  <2>6. ParentAlive'
    BY <2>0, <2>1 DEF TypeOK, ParentAlive, ForkOK
  <2>7. NoLostExit'
    BY <2>0, <2>1 DEF TypeOK, NoLostExit, ZombieChildren, Children, ForkOK
  <2>8. (state[initproc] \in {"RUNNABLE", "SLEEPING"})'
    BY <2>0, <2>1 DEF TypeOK, ForkOK, initproc, Slot
  <2> QED
    BY <2>2, <2>3, <2>4, <2>5, <2>6, <2>7, <2>8 DEF ProcInv
<1>13. ASSUME NEW n \in 0 .. MaxPid, Kill(n) PROVE ProcInv'
  <2>p. PICK v \in Slot : /\ killed' = [killed EXCEPT ![v] = TRUE]
                        /\ state' = IF state[v] = "SLEEPING" THEN [state EXCEPT ![v] = "RUNNABLE"] ELSE state
    BY <1>13 DEF Kill, First
  <2>0. TypeOK /\ UniquePids /\ PidOK /\ ForkOK /\ StageOK /\ ParentAlive /\ NoLostExit
        /\ state[initproc] \in {"RUNNABLE", "SLEEPING"} /\ initproc \in Slot
    BY DEF ProcInv, initproc, Slot
  <2>1. /\ panicked = "no"
        /\ state' = IF state[v] = "SLEEPING" THEN [state EXCEPT ![v] = "RUNNABLE"] ELSE state
        /\ killed' = [killed EXCEPT ![v] = TRUE]
        /\ parent' = parent /\ pid' = pid /\ nextpid' = nextpid /\ waitlock' = waitlock /\ pc' = pc /\ np' = np /\ collected' = collected /\ panicked' = panicked
    BY <1>13, <2>p DEF Kill, Live
  <2>2. TypeOK'
    BY <2>0, <2>1 DEF TypeOK, States, Stages, Slot
  <2>3. UniquePids' /\ PidOK'
    BY <2>0, <2>1 DEF TypeOK, UniquePids, PidOK, Slot
  <2>4. ForkOK'
    BY <2>0, <2>1 DEF TypeOK, ForkOK, UniquePids, StageOK
  <2>5. StageOK'
    BY <2>0, <2>1 DEF TypeOK, StageOK, Children, ForkOK, NoLostExit, ZombieChildren
  <2>6. ParentAlive'
    BY <2>0, <2>1 DEF TypeOK, ParentAlive, ForkOK
  <2>7. NoLostExit'
    BY <2>0, <2>1 DEF TypeOK, NoLostExit, ZombieChildren, Children, ForkOK
  <2>8. (state[initproc] \in {"RUNNABLE", "SLEEPING"})'
    BY <2>0, <2>1 DEF TypeOK, ForkOK, initproc, Slot
  <2> QED
    BY <2>2, <2>3, <2>4, <2>5, <2>6, <2>7, <2>8 DEF ProcInv
<1>14. CASE UNCHANGED vars
  <2>1. /\ TypeOK' = TypeOK /\ UniquePids' = UniquePids /\ PidOK' = PidOK /\ ForkOK' = ForkOK
    BY <1>14 DEF vars, TypeOK, UniquePids, PidOK, ForkOK
  <2>2. StageOK' = StageOK /\ ParentAlive' = ParentAlive /\ NoLostExit' = NoLostExit
    BY <1>14 DEF vars, StageOK, ParentAlive, NoLostExit, Children, ZombieChildren
  <2> QED
    BY <1>14, <2>1, <2>2 DEF vars, ProcInv
<1> QED
  BY <1>1, <1>2, <1>3, <1>4, <1>5, <1>6, <1>6a, <1>7, <1>8, <1>9, <1>10, <1>11, <1>12, <1>13, <1>14
     DEF Next, Proceed

\* The invariant of the process table.
THEOREM ProcInvariant == Spec => []ProcInv
<1> QED
  BY InitInv, InvStep, PTL DEF Spec

\* The fields of the table keep their types.
THEOREM TypeCorrect == Spec => []TypeOK
<1>1. ProcInv => TypeOK
  BY DEF ProcInv
<1> QED
  BY ProcInvariant, <1>1, PTL

\* allocpid() never repeats a pid that is in use.
THEOREM UniquePidsCorrect == Spec => []UniquePids
<1>1. ProcInv => UniquePids
  BY DEF ProcInv
<1> QED
  BY ProcInvariant, <1>1, PTL

\* exit() leaves no process with an exited parent.
THEOREM ParentAliveCorrect == Spec => []ParentAlive
<1>1. ProcInv => ParentAlive
  BY DEF ProcInv
<1> QED
  BY ProcInvariant, <1>1, PTL

\* wait() never sleeps through the exit of a child, its own or inherited.
THEOREM NoLostExitCorrect == Spec => []NoLostExit
<1>1. ProcInv => NoLostExit
  BY DEF ProcInv
<1> QED
  BY ProcInvariant, <1>1, PTL

\* wait() never sleeps without a child to wait for.
THEOREM SleeperHasChildCorrect == Spec => []SleeperHasChild
<1>1. ProcInv => SleeperHasChild
  BY DEF ProcInv, StageOK, SleeperHasChild
<1> QED
  BY ProcInvariant, <1>1, PTL
=============================================================================
