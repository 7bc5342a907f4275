-------------------------- MODULE NamedLockProofs --------------------------
(* Type correctness and mutual exclusion of NamedLock, and that it         *)
(* implements Mutex, for any number of threads and processes.              *)
EXTENDS NamedLock, TLAPS

\* What thread t's program counter says about its process's RLock and about
\* its own depth.
ThreadInv(t) ==
    LET p == ProcOf[t]
    IN  /\ pc[t] = "out" => depth[t] = 0
        /\ pc[t] = "flock" => HasFlock /\ depth[t] = 0
        /\ pc[t] \in {"body", "leave"} => depth[t] > 0
        /\ pc[t] \in {"flock", "body", "leave", "unlock"} \/ depth[t] > 0 <=> owner[p] = t
        /\ owner[p] = t =>
               count[p] = depth[t] + (IF pc[t] \in {"flock", "unlock"} THEN 1 ELSE 0)

IInv ==
    /\ TypeOK
    /\ \A t \in Threads : ThreadInv(t)
    /\ \A p \in Procs : owner[p] = None => count[p] = 0
    /\ FlockFollowsDepth
    /\ ~HasFlock => \A t \in Threads : ~fd[t]

\* The initial state satisfies the invariant.
LEMMA InitInv == Init => IInv
<1> SUFFICES ASSUME Init PROVE IInv
  OBVIOUS
<1> USE NamedLockAssumption DEF Init
<1>1. TypeOK
  BY DEF TypeOK, Labels
<1>2. ASSUME NEW t \in Threads PROVE ThreadInv(t)
  <2>1. ProcOf[t] \in Procs
    BY DEF Procs
  <2>2. pc[t] = "out" /\ depth[t] = 0 /\ owner[ProcOf[t]] = None /\ t # None
    BY <2>1
  <2>3. QED
    BY <2>2 DEF ThreadInv
<1>3. FlockFollowsDepth
  <2>1. ASSUME NEW t \in Threads PROVE ~Holds(t) /\ ~fd[t] /\ flock # t
    BY DEF Holds
  <2>2. QED
    BY <2>1 DEF FlockFollowsDepth
<1>4. QED
  BY <1>1, <1>2, <1>3 DEF IInv

\* Every step of every thread, and every crash, preserves the invariant.
LEMMA StepInv == IInv /\ [Next]_vars => IInv'
<1> SUFFICES ASSUME IInv, [Next]_vars PROVE IInv'
  OBVIOUS
<1> USE NamedLockAssumption DEF IInv, TypeOK, Labels
<1>p. \A t \in Threads : ProcOf[t] \in Procs
  BY DEF Procs
<1>1. ASSUME NEW t \in Threads, Enter(t) PROVE IInv'
  BY <1>p, <1>1 DEF Enter, Goto, ThreadInv, FlockFollowsDepth, Holds
<1>2. ASSUME NEW t \in Threads, AcquireRLock(t) PROVE IInv'
  BY <1>p, <1>2 DEF AcquireRLock, Goto, ThreadInv, FlockFollowsDepth, Holds
<1>3. ASSUME NEW t \in Threads, RLockTimeout(t) PROVE IInv'
  BY <1>p, <1>3 DEF RLockTimeout, Goto, ThreadInv, FlockFollowsDepth, Holds
<1>4. ASSUME NEW t \in Threads, TakeFlock(t) PROVE IInv'
  BY <1>p, <1>4 DEF TakeFlock, Goto, ThreadInv, FlockFollowsDepth, Holds
<1>5. ASSUME NEW t \in Threads, FlockFails(t) PROVE IInv'
  BY <1>p, <1>5 DEF FlockFails, ReleaseRLock, Goto, ThreadInv, FlockFollowsDepth, Holds
<1>6. ASSUME NEW t \in Threads, EndBody(t) PROVE IInv'
  BY <1>p, <1>6 DEF EndBody, Goto, ThreadInv, FlockFollowsDepth, Holds
<1>7. ASSUME NEW t \in Threads, CloseOutermost(t) PROVE IInv'
  <2>1. TypeOK'
    <3>1. depth[t] > 0 /\ depth[t] - 1 \in Nat
      BY <1>7 DEF CloseOutermost, ThreadInv
    <3>2. QED
      BY <1>7, <3>1 DEF CloseOutermost, Goto
  <2>2. ASSUME NEW u \in Threads PROVE ThreadInv(u)'
    BY <1>7, <1>p, <2>2 DEF CloseOutermost, Goto, ThreadInv
  <2>3. FlockFollowsDepth'
    BY <1>7 DEF CloseOutermost, Goto, FlockFollowsDepth, Holds
  <2>4. (~HasFlock => \A u \in Threads : ~fd[u])'
    BY <1>7 DEF CloseOutermost
  <2>5. QED
    BY <1>7, <2>1, <2>2, <2>3, <2>4 DEF CloseOutermost
<1>8. ASSUME NEW t \in Threads, Unlock(t) PROVE IInv'
  BY <1>p, <1>8 DEF Unlock, ReleaseRLock, Goto, ThreadInv, FlockFollowsDepth, Holds
<1>9. ASSUME NEW q \in Procs, Crash(q) PROVE IInv'
  <2>1. TypeOK'
    BY <1>9 DEF Crash
  <2>2. ASSUME NEW u \in Threads PROVE ThreadInv(u)'
    <3>1. CASE ProcOf[u] = q
      BY <1>9, <1>p, <3>1 DEF Crash, ThreadInv
    <3>2. CASE ProcOf[u] # q
      BY <1>9, <1>p, <3>2 DEF Crash, ThreadInv
    <3>3. QED
      BY <3>1, <3>2
  <2>3. FlockFollowsDepth'
    BY <1>9 DEF Crash, FlockFollowsDepth, Holds
  <2>4. (~HasFlock => \A u \in Threads : ~fd[u])'
    BY <1>9 DEF Crash
  <2>5. (\A p \in Procs : owner[p] = None => count[p] = 0)'
    BY <1>9 DEF Crash
  <2>6. QED
    BY <2>1, <2>2, <2>3, <2>4, <2>5
<1>10. CASE UNCHANGED vars
  BY <1>10 DEF vars, ThreadInv, FlockFollowsDepth, Holds
<1>11. QED
  BY <1>1, <1>2, <1>3, <1>4, <1>5, <1>6, <1>7, <1>8, <1>9, <1>10 DEF Next, HoldStep

\* The invariant holds throughout.
LEMMA Invariance == Spec => []IInv
BY InitInv, StepInv, PTL DEF Spec

\* Type correctness of the lock's state: in particular the RLock's count and
\* the depth of a thread never go below zero.
THEOREM TypeCorrect == Spec => []TypeOK
BY Invariance, PTL DEF IInv

\* With flock no two threads are inside together; without it, no two threads
\* of one process (_NamedLock.hold).
THEOREM Exclusion == Spec => []MutualExclusion
<1>1. ASSUME IInv, NEW t \in Threads, NEW u \in Threads, t # u, Holds(t), Holds(u)
      PROVE  ~HasFlock /\ ProcOf[t] # ProcOf[u]
  <2>1. ~HasFlock
    BY <1>1 DEF IInv, FlockFollowsDepth
  <2>2. owner[ProcOf[t]] = t /\ owner[ProcOf[u]] = u
    BY <1>1 DEF IInv, ThreadInv, Holds
  <2>3. QED
    BY <1>1, <2>1, <2>2
<1>2. IInv => MutualExclusion
  BY <1>1 DEF MutualExclusion
<1>3. QED
  BY <1>2, Invariance, PTL

\* The flock and the open descriptor are exactly those of the thread inside.
THEOREM FlockIsDepth == Spec => []FlockFollowsDepth
BY Invariance, PTL DEF IInv

\* A thread that is out of hold has left nothing behind, whichever of the
\* timeouts, exceptions, nested exits or crashes got it out.
THEOREM LeaksNothing == Spec => []NothingLeaks
<1>1. ASSUME IInv, NEW t \in Threads
      PROVE  LET p == ProcOf[t]
             IN  /\ pc[t] = "out" => owner[p] # t /\ depth[t] = 0 /\ ~fd[t]
                 /\ owner[p] = t =>
                        count[p] = depth[t] + (IF pc[t] \in {"flock", "unlock"} THEN 1 ELSE 0)
  <2>1. ThreadInv(t) /\ depth[t] \in Nat
    BY <1>1 DEF IInv, TypeOK
  <2>2. ASSUME pc[t] = "out" PROVE ~fd[t]
    BY <1>1, <2>1, <2>2, NamedLockAssumption
       DEF IInv, ThreadInv, FlockFollowsDepth, Holds
  <2>3. QED
    BY <2>1, <2>2 DEF ThreadInv
<1>2. IInv => NothingLeaks
  BY <1>1 DEF NothingLeaks
<1>3. QED
  BY <1>2, Invariance, PTL
---------------------------------------------------------------------------
\* The threads inside, as the refinement mapping gives them to Mutex.
Inside == {t \in Threads : Holds(t)}

\* With flock, a step of NamedLock is a step of the mutex or none at all.
LEMMA StepRefines ==
    HasFlock /\ IInv /\ IInv' /\ [Next]_vars => [Locks!MutexNext]_Inside
<1> SUFFICES ASSUME HasFlock, IInv, IInv', [Next]_vars
             PROVE  Locks!MutexNext \/ UNCHANGED Inside
  BY DEF Inside
<1>n. None \notin Threads
  BY NamedLockAssumption
<1>i. /\ flock \in Threads \union {None}
      /\ Inside = IF flock = None THEN {} ELSE {flock}
  <2>1. \A t \in Threads : flock = t <=> Holds(t)
    BY DEF IInv, FlockFollowsDepth, Holds
  <2>2. flock \in Threads \union {None}
    BY DEF IInv, TypeOK
  <2>3. QED
    BY <1>n, <2>1, <2>2 DEF Inside
<1>j. /\ flock' \in Threads \union {None}
      /\ Inside' = IF flock' = None THEN {} ELSE {flock'}
  <2>1. \A t \in Threads : flock' = t <=> Holds(t)'
    BY DEF IInv, FlockFollowsDepth, Holds
  <2>2. flock' \in Threads \union {None}
    BY DEF IInv, TypeOK
  <2>3. QED
    BY <1>n, <2>1, <2>2 DEF Inside
<1>1. CASE flock' = flock
  BY <1>i, <1>j, <1>1
<1>2. CASE flock = None /\ flock' # None
  <2>1. Locks!MutexEnter(flock')
    BY <1>i, <1>j, <1>2 DEF Locks!MutexEnter, Inside
  <2>2. QED
    BY <1>j, <1>2, <2>1 DEF Locks!MutexNext
<1>3. CASE flock # None /\ flock' = None
  <2>1. Locks!MutexLeave
    BY <1>i, <1>j, <1>3 DEF Locks!MutexLeave, Inside
  <2>2. QED
    BY <2>1 DEF Locks!MutexNext
<1>4. flock = None \/ flock' = None \/ flock' = flock
  <2>1. CASE UNCHANGED vars
    BY <2>1 DEF vars
  <2>2. ASSUME NEW t \in Threads, Enter(t) \/ EndBody(t) \/ HoldStep(t)
        PROVE  flock = None \/ flock' = None \/ flock' = flock
    BY <2>2 DEF Enter, EndBody, HoldStep, AcquireRLock, RLockTimeout, TakeFlock,
                FlockFails, CloseOutermost, Unlock
  <2>3. ASSUME NEW p \in Procs, Crash(p)
        PROVE  flock = None \/ flock' = None \/ flock' = flock
    BY <2>3 DEF Crash
  <2>4. QED
    BY <2>1, <2>2, <2>3 DEF Next
<1>5. QED
  BY <1>1, <1>2, <1>3, <1>4

\* Where the platform has flock, a named lock is the mutex that the ledgers
\* and the gate rely on, whatever its threads and processes do.
THEOREM LockIsMutex == ASSUME HasFlock PROVE Spec => ImplementsMutex
<1>1. Init => Locks!MutexInit
  BY DEF Init, Locks!MutexInit, Holds
<1>2. IInv /\ IInv' /\ [Next]_vars => [Locks!MutexNext]_Inside
  BY StepRefines
<1>3. QED
  BY <1>1, <1>2, Invariance, PTL DEF Spec, ImplementsMutex, Locks!MutexSpec, Inside
---------------------------------------------------------------------------
\* The steps of hold() before the block begins, or after it has ended.
StepsLeft(l) ==
    CASE l \in {"rlock", "leave"} -> 2 [] l \in {"flock", "unlock"} -> 1 [] OTHER -> 0

\* A thread that is in hold() and not in the block.
Passing(t) == pc[t] \in {"rlock", "flock", "leave", "unlock"}

\* Each step of hold() brings its thread nearer to the block, or out of it;
\* nobody else's step takes it back.
HoldsAdvance ==
    [][\A t \in Threads :
           /\ HoldStep(t) => StepsLeft(pc'[t]) < StepsLeft(pc[t])
           /\ Passing(t) => StepsLeft(pc'[t]) <= StepsLeft(pc[t])]_vars

\* Taking a named lock, or failing to, and giving it back are two steps each
\* at most, nested or not: hold() never starts over, and what HoldReturns adds
\* is only that its steps are taken.
THEOREM HoldsAreBounded == Spec => HoldsAdvance
<1>s. \A l : StepsLeft(l) \in Nat
  BY DEF StepsLeft
<1>1. ASSUME TypeOK, NEW t \in Threads, HoldStep(t)
      PROVE  StepsLeft(pc'[t]) < StepsLeft(pc[t])
  BY <1>1
     DEF HoldStep, AcquireRLock, RLockTimeout, TakeFlock, FlockFails, CloseOutermost, Unlock,
         Goto, TypeOK, StepsLeft
<1>2. ASSUME TypeOK, NEW t \in Threads, [Next]_vars, ~HoldStep(t), Passing(t)
      PROVE  StepsLeft(pc'[t]) <= StepsLeft(pc[t])
  <2>1. ASSUME NEW u \in Threads, Enter(u) \/ EndBody(u) PROVE pc'[t] = pc[t]
    BY <1>2, <2>1 DEF Enter, EndBody, Goto, TypeOK, Passing
  <2>2. ASSUME NEW u \in Threads, u # t, HoldStep(u) PROVE pc'[t] = pc[t]
    BY <1>2, <2>2
       DEF HoldStep, AcquireRLock, RLockTimeout, TakeFlock, FlockFails, CloseOutermost, Unlock,
           Goto, TypeOK
  <2>3. ASSUME NEW p \in Procs, Crash(p) PROVE pc'[t] \in {pc[t], "out"}
    BY <2>3 DEF Crash
  <2>4. pc'[t] = pc[t] \/ pc'[t] = "out"
    BY <1>2, <2>1, <2>2, <2>3 DEF Next, vars
  <2>5. StepsLeft("out") = 0
    BY DEF StepsLeft
  <2>6. QED
    BY <1>s, <2>4, <2>5
<1>3. TypeOK /\ [Next]_vars =>
          [\A t \in Threads :
               /\ HoldStep(t) => StepsLeft(pc'[t]) < StepsLeft(pc[t])
               /\ Passing(t) => StepsLeft(pc'[t]) <= StepsLeft(pc[t])]_vars
  BY <1>1, <1>2, <1>s
<1>4. IInv => TypeOK
  BY DEF IInv
<1>5. QED
  BY <1>3, <1>4, Invariance, PTL DEF Spec, HoldsAdvance
===========================================================================
