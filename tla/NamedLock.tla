----------------------------- MODULE NamedLock -----------------------------
(***************************************************************************)
(* One named lock of store.py (_NamedLock behind Store.exclusive): an      *)
(* RLock per process and, behind it, an flock on the lock file.  Threads   *)
(* of several processes hold it, re-enter it, time out on it and die       *)
(* holding it.                                                             *)
(*                                                                         *)
(* Time is left out: a deadline may pass whenever the caller is refused,   *)
(* and _flock's poll-and-sleep loop is a wait for the flock.  The lock     *)
(* registry (_lock_for) is modelled by there being one RLock per process.  *)
(***************************************************************************)
EXTENDS Naturals

CONSTANTS
    Threads,      \* threads that use the lock
    ProcOf,       \* ProcOf[t]: the process of thread t
    None,
    HasFlock,     \* CROSS_PROCESS_LOCKING: the platform has fcntl
    MaxDepth      \* bound: nested holds of one thread

Procs == {ProcOf[t] : t \in Threads}

ASSUME NamedLockAssumption ==
    /\ None \notin Threads
    /\ HasFlock \in BOOLEAN
    /\ MaxDepth \in Nat \ {0}

VARIABLES
    pc,       \* pc[t]: what thread t does next with the lock
    owner,    \* owner[p]: the thread that owns process p's RLock
    count,    \* count[p]: how often the owner has acquired it
    depth,    \* depth[t]: _local.depth
    fd,       \* fd[t]: thread t has the lock file open in _local.fd
    flock     \* the thread whose descriptor carries the flock

vars == <<pc, owner, count, depth, fd, flock>>

\* out: not in hold; rlock, flock: acquiring; body: inside the block;
\* leave: at the finally blocks; unlock: descriptor closed, RLock still owned.
Labels == {"out", "rlock", "flock", "body", "leave", "unlock"}

TypeOK ==
    /\ pc \in [Threads -> Labels]
    /\ owner \in [Procs -> Threads \union {None}]
    /\ count \in [Procs -> Nat]
    /\ depth \in [Threads -> Nat]
    /\ fd \in [Threads -> BOOLEAN]
    /\ flock \in Threads \union {None}

Init ==
    /\ pc = [t \in Threads |-> "out"]
    /\ owner = [p \in Procs |-> None]
    /\ count = [p \in Procs |-> 0]
    /\ depth = [t \in Threads |-> 0]
    /\ fd = [t \in Threads |-> FALSE]
    /\ flock = None

Goto(t, l) == pc' = [pc EXCEPT ![t] = l]

\* hold() is called, from outside or from inside the block.
Enter(t) ==
    /\ pc[t] \in {"out", "body"}
    /\ depth[t] < MaxDepth
    /\ Goto(t, "rlock")
    /\ UNCHANGED <<owner, count, depth, fd, flock>>

\* The RLock is free or the thread's own.  The outermost hold goes on to the
\* flock; a re-entry, or a platform without fcntl, is inside at once.
AcquireRLock(t) ==
    LET p == ProcOf[t]
    IN  /\ pc[t] = "rlock"
        /\ owner[p] \in {t, None}
        /\ owner' = [owner EXCEPT ![p] = t]
        /\ count' = [count EXCEPT ![p] = @ + 1]
        /\ IF depth[t] = 0 /\ HasFlock
           THEN Goto(t, "flock") /\ UNCHANGED depth
           ELSE Goto(t, "body") /\ depth' = [depth EXCEPT ![t] = @ + 1]
        /\ UNCHANGED <<fd, flock>>

\* (variant) No timeout on the RLock.
RLockWaits(t) == FALSE

\* LockTimeout; no state was touched.
RLockTimeout(t) ==
    /\ pc[t] = "rlock"
    /\ owner[ProcOf[t]] \notin {t, None}
    /\ Goto(t, "out")
    /\ UNCHANGED <<owner, count, depth, fd, flock>>

\* LOCK_EX | LOCK_NB succeeds: no other descriptor carries the flock.
TakeFlock(t) ==
    /\ pc[t] = "flock"
    /\ flock = None
    /\ flock' = t
    /\ fd' = [fd EXCEPT ![t] = TRUE]
    /\ depth' = [depth EXCEPT ![t] = @ + 1]
    /\ Goto(t, "body")
    /\ UNCHANGED <<owner, count>>

\* The RLock is given back once.
ReleaseRLock(t) ==
    LET p == ProcOf[t]
    IN  /\ count' = [count EXCEPT ![p] = @ - 1]
        /\ owner' = [owner EXCEPT ![p] = IF count[p] = 1 THEN None ELSE @]

\* (variant) The LockTimeout of the flock leaves the RLock taken.
FlockFailsLeaking(t) ==
    /\ pc[t] = "flock"
    /\ Goto(t, "out")
    /\ UNCHANGED <<owner, count, depth, fd, flock>>

\* (variant) The RLock is released by the handler and by the finally block.
FlockFailsTwice(t) ==
    /\ pc[t] = "flock"
    /\ count' = [count EXCEPT ![ProcOf[t]] = @ - 2]
    /\ owner' = [owner EXCEPT ![ProcOf[t]] = None]
    /\ Goto(t, "out")
    /\ UNCHANGED <<depth, fd, flock>>

\* (variant) After the deadline the caller goes on without the flock.
FlockFallsThrough(t) ==
    /\ pc[t] = "flock"
    /\ depth' = [depth EXCEPT ![t] = @ + 1]
    /\ Goto(t, "body")
    /\ UNCHANGED <<owner, count, fd, flock>>

\* The deadline passes, or flock raises: the new descriptor is closed and the
\* exception leaves hold through the RLock's finally block.
FlockFails(t) ==
    /\ pc[t] = "flock"
    /\ ReleaseRLock(t)
    /\ Goto(t, "out")
    /\ UNCHANGED <<depth, fd, flock>>

\* The block ends, by itself or by an exception.
EndBody(t) ==
    /\ pc[t] = "body"
    /\ Goto(t, "leave")
    /\ UNCHANGED <<owner, count, depth, fd, flock>>

\* (variant) Any exit closes the descriptor.
CloseInnermost(t) ==
    /\ pc[t] = "leave"
    /\ depth' = [depth EXCEPT ![t] = @ - 1]
    /\ fd' = [fd EXCEPT ![t] = FALSE]
    /\ flock' = IF flock = t THEN None ELSE flock
    /\ Goto(t, "unlock")
    /\ UNCHANGED <<owner, count>>

\* The outermost exit closes the descriptor, and with it drops the flock.
CloseOutermost(t) ==
    /\ pc[t] = "leave"
    /\ depth' = [depth EXCEPT ![t] = @ - 1]
    /\ IF depth[t] = 1
       THEN /\ fd' = [fd EXCEPT ![t] = FALSE]
            /\ flock' = IF flock = t THEN None ELSE flock
       ELSE UNCHANGED <<fd, flock>>
    /\ Goto(t, "unlock")
    /\ UNCHANGED <<owner, count>>

\* The last finally block; a nested hold returns into the enclosing block.
Unlock(t) ==
    /\ pc[t] = "unlock"
    /\ ReleaseRLock(t)
    /\ Goto(t, IF depth[t] = 0 THEN "out" ELSE "body")
    /\ UNCHANGED <<depth, fd, flock>>

\* The process dies: its RLock is gone, the kernel closes its descriptors.
Crash(p) ==
    LET dead == {t \in Threads : ProcOf[t] = p}
    IN  /\ pc' = [t \in Threads |-> IF t \in dead THEN "out" ELSE pc[t]]
        /\ depth' = [t \in Threads |-> IF t \in dead THEN 0 ELSE depth[t]]
        /\ fd' = [t \in Threads |-> IF t \in dead THEN FALSE ELSE fd[t]]
        /\ owner' = [owner EXCEPT ![p] = None]
        /\ count' = [count EXCEPT ![p] = 0]
        /\ flock' = IF flock \in dead THEN None ELSE flock

\* What hold() does by itself once it has been called.
HoldStep(t) ==
    \/ AcquireRLock(t)
    \/ RLockTimeout(t)
    \/ TakeFlock(t)
    \/ FlockFails(t)
    \/ CloseOutermost(t)
    \/ Unlock(t)

Next ==
    \/ \E t \in Threads : Enter(t) \/ EndBody(t) \/ HoldStep(t)
    \/ \E p \in Procs : Crash(p)

Spec == Init /\ [][Next]_vars

\* Threads are scheduled, and deadlines pass: HoldStep contains the timeouts.
\* Nothing is assumed of the block itself, which may run for ever.
FairSpec == Spec /\ \A t \in Threads : WF_vars(HoldStep(t))
---------------------------------------------------------------------------
\* Thread t is inside the block, outermost or nested.
Holds(t) == depth[t] > 0

\* Two threads that the platform can keep apart are never both inside, not
\* even while one of them re-enters, leaves a nested block or times out.
MutualExclusion ==
    \A t, u \in Threads :
        t # u /\ Holds(t) /\ Holds(u) => ~HasFlock /\ ProcOf[t] # ProcOf[u]

\* The flock is held exactly by the thread inside, for as long as it is
\* inside: a nested exit does not drop it, a failed wait does not keep it.
FlockFollowsDepth ==
    HasFlock => \A t \in Threads : /\ flock = t <=> Holds(t)
                                   /\ fd[t] <=> Holds(t)

\* A thread that is out of hold owns nothing, whichever way it got out: the
\* process's RLock counts exactly the holds its owner is in.
NothingLeaks ==
    \A t \in Threads :
        LET p == ProcOf[t]
        IN  /\ pc[t] = "out" => owner[p] # t /\ depth[t] = 0 /\ ~fd[t]
            /\ owner[p] = t =>
                   count[p] = depth[t] + (IF pc[t] \in {"flock", "unlock"} THEN 1 ELSE 0)

\* A call of hold() ends in the block or with LockTimeout: no wait for a
\* holder that never leaves goes on for ever.
HoldReturns == \A t \in Threads : pc[t] = "rlock" ~> pc[t] \in {"out", "body"}

Locks == INSTANCE Mutex WITH Callers <- Threads, inside <- {t \in Threads : Holds(t)}

\* With flock, the named lock is a mutex for all threads of all processes.
ImplementsMutex == Locks!MutexSpec
===========================================================================
