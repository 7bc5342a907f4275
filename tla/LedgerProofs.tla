---------------------------- MODULE LedgerProofs ----------------------------
(* The ledger file always parses, and, unless a sound file can fail to be   *)
(* read, it is a map changed one entry at a time: for any number of threads *)
(* and processes, entries and records.                                      *)
EXTENDS Ledger, TLAPS

Held == {"read", "open", "write", "replace", "unlock"}
Writing == {"open", "write", "replace"}

\* What a thread's program counter says about the lock, its operation, its
\* copy of the map and its temporary file.
ThreadInv(t) ==
    /\ pc[t] \in Held => holder = t
    /\ pc[t] # "idle" => op[t] \in Operations
    /\ pc[t] \in Writing => op[t].value \in Values /\ data[t] \in Maps
    /\ pc[t] = "replace" => temp[t] = data[t]
    /\ pc[t] = "unlock" /\ outcome[t] = "put" => file = data[t]

\* ... and about the file, when what is read is what is there.
SoundInv(t) ==
    /\ pc[t] \in Writing => data[t] = [file EXCEPT ![op[t].entry] = op[t].value]
    /\ pc[t] = "unlock" /\ outcome[t] = "got" => file = data[t]

IInv ==
    /\ TypeOK
    /\ file \in Maps
    /\ \A t \in Threads : ThreadInv(t)
    /\ ~ReadFaults => \A t \in Threads : SoundInv(t)

-----------------------------------------------------------------------------
LEMMA EmptyIsMap == Empty \in Maps
BY DEF Empty, Maps

\* A map with one entry changed is a map.
LEMMA PutIsMap ==
    ASSUME NEW m \in Maps, NEW e \in Entries, NEW v \in Values
    PROVE  [m EXCEPT ![e] = v] \in Maps
BY DEF Maps

LEMMA InitInv == Init => IInv
<1> SUFFICES ASSUME Init PROVE IInv
  OBVIOUS
<1>1. TypeOK /\ file \in Maps
  BY EmptyIsMap DEF Init, TypeOK, Labels, Outcomes
<1>2. ASSUME NEW t \in Threads PROVE ThreadInv(t) /\ SoundInv(t)
  BY DEF Init, ThreadInv, SoundInv, Held, Writing
<1>3. QED
  BY <1>1, <1>2 DEF IInv

\* A thread that has the lock is the only one that has it.
LEMMA HeldAlone ==
    ASSUME IInv, NEW t \in Threads, NEW u \in Threads, u # t, pc[t] \in Held
    PROVE  pc[u] \notin Held
BY DEF IInv, ThreadInv

\* What is read is a map, and the file itself if reading cannot fail.
LEMMA ReadsAreMaps ==
    ASSUME IInv, NEW m \in ReadJson
    PROVE  m \in Maps /\ (~ReadFaults => m = file)
BY EmptyIsMap, LedgerAssumption DEF IInv, ReadJson

\* A step of one thread that leaves the file and the lock alone, or has the
\* lock, leaves the others alone.
LEMMA OthersKeep ==
    ASSUME IInv, NEW t \in Threads, NEW u \in Threads, u # t,
           pc'[u] = pc[u], op'[u] = op[u], data'[u] = data[u], temp'[u] = temp[u],
           outcome'[u] = outcome[u],
           \/ UNCHANGED <<file, holder>>
           \/ holder = None /\ UNCHANGED file
           \/ pc[t] \in Held
    PROVE  ThreadInv(u)' /\ (~ReadFaults => SoundInv(u)')
<1>n. None # u
  BY LedgerAssumption
<1>1. CASE UNCHANGED <<file, holder>>
  BY <1>1 DEF IInv, ThreadInv, SoundInv
<1>2. CASE pc[u] \notin Held
  BY <1>2 DEF IInv, ThreadInv, SoundInv, Held, Writing
<1>3. CASE holder = None /\ UNCHANGED file
  <2>1. pc[u] \notin Held
    BY <1>n, <1>3 DEF IInv, ThreadInv
  <2>2. QED BY <1>2, <2>1
<1>4. CASE pc[t] \in Held
  BY <1>2, <1>4, HeldAlone
<1>5. QED BY <1>1, <1>3, <1>4

LEMMA StepInv == IInv /\ [Next]_vars => IInv'
<1> SUFFICES ASSUME IInv, [Next]_vars PROVE IInv'
  OBVIOUS
<1> DEFINE Mine(t) == ThreadInv(t)' /\ (~ReadFaults => SoundInv(t)')
<1>0. TypeOK /\ file \in Maps
  BY DEF IInv
<1>1. ASSUME NEW t \in Threads, NEW e \in Entries, NEW v \in Values \union {None}, Start(t, e, v)
      PROVE  IInv'
  <2>1. TypeOK' /\ file' \in Maps
    BY <1>0, <1>1 DEF Start, Goto, TypeOK, Labels, Outcomes, Operations
  <2>2. Mine(t)
    BY <1>0, <1>1 DEF Start, Goto, TypeOK, Operations, ThreadInv, SoundInv, Held, Writing
  <2>3. ASSUME NEW u \in Threads, u # t PROVE Mine(u)
    BY <1>0, <1>1, <2>3, OthersKeep DEF Start, Goto, TypeOK
  <2>4. QED BY <2>1, <2>2, <2>3 DEF IInv
<1>2. ASSUME NEW t \in Threads, Lock(t) PROVE IInv'
  <2>1. TypeOK' /\ file' \in Maps
    BY <1>0, <1>2 DEF Lock, Goto, TypeOK, Labels
  <2>2. Mine(t)
    BY <1>0, <1>2 DEF Lock, Goto, TypeOK, IInv, ThreadInv, SoundInv, Writing
  <2>3. ASSUME NEW u \in Threads, u # t PROVE Mine(u)
    BY <1>0, <1>2, <2>3, OthersKeep DEF Lock, Goto, TypeOK
  <2>4. QED BY <2>1, <2>2, <2>3 DEF IInv
<1>3. ASSUME NEW t \in Threads, LockTimeout(t) PROVE IInv'
  <2>1. TypeOK' /\ file' \in Maps
    BY <1>0, <1>3 DEF LockTimeout, Goto, TypeOK, Labels, Outcomes
  <2>2. Mine(t)
    BY <1>0, <1>3 DEF LockTimeout, Goto, TypeOK, ThreadInv, SoundInv, Held, Writing
  <2>3. ASSUME NEW u \in Threads, u # t PROVE Mine(u)
    BY <1>0, <1>3, <2>3, OthersKeep DEF LockTimeout, Goto, TypeOK
  <2>4. QED BY <2>1, <2>2, <2>3 DEF IInv
<1>4. ASSUME NEW t \in Threads, Read(t) PROVE IInv'
  <2>1. PICK m \in ReadJson :
           IF op[t].value = None
           THEN data' = [data EXCEPT ![t] = m] /\ End(t, "got")
           ELSE /\ data' = [data EXCEPT ![t] = [m EXCEPT ![op[t].entry] = op[t].value]]
                /\ Goto(t, "open")
                /\ UNCHANGED outcome
    BY <1>4 DEF Read
  <2>2. /\ pc[t] = "read" /\ holder = t /\ op[t] \in Operations
        /\ UNCHANGED <<op, holder, file, temp>>
    BY <1>4 DEF Read, IInv, ThreadInv, Held
  <2>3. m \in Maps /\ (~ReadFaults => m = file)
    BY ReadsAreMaps
  <2>4. CASE op[t].value = None
    <3>1. data' = [data EXCEPT ![t] = m] /\ End(t, "got")
      BY <2>1, <2>4
    <3>2. TypeOK' /\ file' \in Maps
      BY <1>0, <2>2, <2>3, <3>1 DEF End, Goto, TypeOK, Labels, Outcomes
    <3>3. Mine(t)
      BY <1>0, <2>2, <2>3, <3>1 DEF End, Goto, TypeOK, ThreadInv, SoundInv, Writing
    <3>4. ASSUME NEW u \in Threads, u # t PROVE Mine(u)
      BY <1>0, <2>2, <3>1, <3>4, OthersKeep DEF End, Goto, TypeOK
    <3>5. QED BY <3>2, <3>3, <3>4 DEF IInv
  <2>5. CASE op[t].value # None
    <3>1. /\ data' = [data EXCEPT ![t] = [m EXCEPT ![op[t].entry] = op[t].value]]
          /\ Goto(t, "open") /\ UNCHANGED outcome
      BY <2>1, <2>5
    <3>2. op[t].entry \in Entries /\ op[t].value \in Values
      BY <2>2, <2>5 DEF Operations
    <3>3. [m EXCEPT ![op[t].entry] = op[t].value] \in Maps
      BY <2>3, <3>2, PutIsMap
    <3>4. TypeOK' /\ file' \in Maps
      BY <1>0, <2>2, <3>1, <3>3 DEF Goto, TypeOK, Labels
    <3>5. Mine(t)
      BY <1>0, <2>2, <2>3, <3>1, <3>2, <3>3 DEF Goto, TypeOK, ThreadInv, SoundInv, Writing
    <3>6. ASSUME NEW u \in Threads, u # t PROVE Mine(u)
      BY <1>0, <2>2, <3>1, <3>6, OthersKeep DEF Goto, TypeOK
    <3>7. QED BY <3>4, <3>5, <3>6 DEF IInv
  <2>6. QED BY <2>4, <2>5
<1>5. ASSUME NEW t \in Threads, OpenTemp(t) PROVE IInv'
  <2>1. TypeOK' /\ file' \in Maps
    BY <1>0, <1>5 DEF OpenTemp, Goto, TypeOK, Labels
  <2>2. Mine(t)
    BY <1>0, <1>5 DEF OpenTemp, Goto, TypeOK, IInv, ThreadInv, SoundInv, Held, Writing
  <2>3. ASSUME NEW u \in Threads, u # t PROVE Mine(u)
    BY <1>0, <1>5, <2>3, OthersKeep DEF OpenTemp, Goto, TypeOK
  <2>4. QED BY <2>1, <2>2, <2>3 DEF IInv
<1>6. ASSUME NEW t \in Threads, WriteTemp(t) PROVE IInv'
  <2>1. TypeOK' /\ file' \in Maps
    BY <1>0, <1>6 DEF WriteTemp, Goto, TypeOK, Labels
  <2>2. Mine(t)
    BY <1>0, <1>6 DEF WriteTemp, Goto, TypeOK, IInv, ThreadInv, SoundInv, Held, Writing
  <2>3. ASSUME NEW u \in Threads, u # t PROVE Mine(u)
    BY <1>0, <1>6, <2>3, OthersKeep DEF WriteTemp, Goto, TypeOK
  <2>4. QED BY <2>1, <2>2, <2>3 DEF IInv
<1>7. ASSUME NEW t \in Threads, WriteFails(t) PROVE IInv'
  <2>1. TypeOK' /\ file' \in Maps
    BY <1>0, <1>7 DEF WriteFails, End, Goto, TypeOK, Labels, Outcomes
  <2>2. Mine(t)
    BY <1>0, <1>7 DEF WriteFails, End, Goto, TypeOK, IInv, ThreadInv, SoundInv, Held, Writing
  <2>3. ASSUME NEW u \in Threads, u # t PROVE Mine(u)
    BY <1>0, <1>7, <2>3, OthersKeep DEF WriteFails, End, Goto, TypeOK
  <2>4. QED BY <2>1, <2>2, <2>3 DEF IInv
<1>8. ASSUME NEW t \in Threads, Replace(t) PROVE IInv'
  <2>1. pc[t] = "replace" /\ pc[t] \in Held /\ file' = data[t] /\ data[t] \in Maps
    BY <1>8 DEF Replace, IInv, ThreadInv, Held, Writing
  <2>2. TypeOK' /\ file' \in Maps
    BY <1>0, <1>8, <2>1 DEF Replace, End, Goto, TypeOK, Labels, Outcomes
  <2>3. Mine(t)
    BY <1>0, <1>8, <2>1 DEF Replace, End, Goto, TypeOK, IInv, ThreadInv, SoundInv, Held, Writing
  <2>4. ASSUME NEW u \in Threads, u # t PROVE Mine(u)
    BY <1>0, <1>8, <2>1, <2>4, OthersKeep DEF Replace, End, Goto, TypeOK
  <2>5. QED BY <2>2, <2>3, <2>4 DEF IInv
<1>9. ASSUME NEW t \in Threads, Unlock(t) PROVE IInv'
  <2>1. TypeOK' /\ file' \in Maps
    BY <1>0, <1>9 DEF Unlock, Goto, TypeOK, Labels
  <2>2. Mine(t)
    BY <1>0, <1>9 DEF Unlock, Goto, TypeOK, ThreadInv, SoundInv, Held, Writing
  <2>3. ASSUME NEW u \in Threads, u # t PROVE Mine(u)
    BY <1>0, <1>9, <2>3, OthersKeep DEF Unlock, Goto, TypeOK, Held
  <2>4. QED BY <2>1, <2>2, <2>3 DEF IInv
<1>10. ASSUME NEW p \in Procs, Crash(p) PROVE IInv'
  <2>1. TypeOK' /\ file' \in Maps
    BY <1>0, <1>10 DEF Crash, TypeOK, Labels, Outcomes
  <2>2. ASSUME NEW u \in Threads, ProcOf[u] = p PROVE Mine(u)
    BY <1>0, <1>10, <2>2 DEF Crash, TypeOK, ThreadInv, SoundInv, Held, Writing
  <2>3. ASSUME NEW u \in Threads, ProcOf[u] # p PROVE Mine(u)
    <3>1. /\ pc'[u] = pc[u] /\ op'[u] = op[u] /\ data'[u] = data[u] /\ temp'[u] = temp[u]
          /\ outcome'[u] = outcome[u] /\ file' = file
      BY <1>10, <2>3 DEF Crash
    <3>2. holder = u => holder' = u
      BY <1>10, <2>3 DEF Crash
    <3>3. QED BY <3>1, <3>2 DEF IInv, ThreadInv, SoundInv
  <2>4. QED BY <2>1, <2>2, <2>3 DEF IInv
<1>11. ASSUME UNCHANGED vars PROVE IInv'
  BY <1>11 DEF vars, IInv, TypeOK, ThreadInv, SoundInv
<1>12. QED
  BY <1>1, <1>2, <1>3, <1>4, <1>5, <1>6, <1>7, <1>8, <1>9, <1>10, <1>11 DEF Next, OpStep

LEMMA Invariance == Spec => []IInv
BY InitInv, StepInv, PTL DEF Spec

-----------------------------------------------------------------------------
\* The states of the ledger, its lock and its temporary files are of their
\* types (Store and _atomic_write_json).
THEOREM TypeCorrect == Spec => []TypeOK
<1>1. IInv => TypeOK
  BY DEF IInv
<1>2. QED BY <1>1, Invariance, PTL

\* Whatever fails and whoever dies, the ledger file parses: only a temporary
\* file that was written to the end is renamed (_atomic_write_json).
THEOREM AlwaysParses == Spec => []NeverTorn
<1>1. IInv => NeverTorn
  BY LedgerAssumption DEF IInv, NeverTorn
<1>2. QED BY <1>1, Invariance, PTL

\* A put that reports success is on disk and a read is of the file, while the
\* lock is held, unless a sound file can fail to be read (Store._update_ledger).
THEOREM Current == ASSUME ~ReadFaults PROVE Spec => []AnswersAreCurrent
<1>1. IInv => AnswersAreCurrent
  BY DEF IInv, ThreadInv, SoundInv, AnswersAreCurrent
<1>2. QED BY <1>1, Invariance, PTL

\* The only step that changes the file changes one entry of it.
LEMMA StepRefines ==
    ASSUME ~ReadFaults, IInv, [Next]_vars
    PROVE  (\E e \in Entries, v \in Values : Map!MapPut(e, v)) \/ UNCHANGED file
<1>1. ASSUME NEW t \in Threads, Replace(t)
      PROVE  \E e \in Entries, v \in Values : Map!MapPut(e, v)
  <2>1. file' = [file EXCEPT ![op[t].entry] = op[t].value]
    BY <1>1 DEF Replace, IInv, ThreadInv, SoundInv, Writing
  <2>2. op[t].entry \in Entries /\ op[t].value \in Values
    BY <1>1 DEF Replace, IInv, ThreadInv, Writing, Operations
  <2>3. QED BY <2>1, <2>2 DEF Map!MapPut
<1>2. ASSUME NEW t \in Threads, ~Replace(t),
             OpStep(t) \/ \E e \in Entries, v \in Values \union {None} : Start(t, e, v)
      PROVE  UNCHANGED file
  BY <1>2 DEF OpStep, Start, Lock, LockTimeout, Read, OpenTemp, WriteTemp, WriteFails, Unlock
<1>3. ASSUME NEW p \in Procs, Crash(p) PROVE UNCHANGED file
  BY <1>3 DEF Crash
<1>4. ASSUME UNCHANGED vars PROVE UNCHANGED file
  BY <1>4 DEF vars
<1>5. QED BY <1>1, <1>2, <1>3, <1>4 DEF Next

\* Unless a sound file can fail to be read, the ledger is the map the gate
\* relies on: no put loses the record of another letter.
THEOREM LedgerIsMap == ASSUME ~ReadFaults PROVE Spec => ImplementsLedgerMap
<1>1. Init => Map!MapInit
  BY DEF Init, Map!MapInit, Empty
<1>2. IInv /\ [Next]_vars => [\E e \in Entries, v \in Values : Map!MapPut(e, v)]_file
  BY StepRefines
<1>3. QED
  BY <1>1, <1>2, Invariance, PTL DEF Spec, ImplementsLedgerMap, Map!MapSpec

-----------------------------------------------------------------------------
\* The threads that are inside the ledger lock.
Inside == {t \in Threads : pc[t] \in {"read", "open", "write", "replace", "unlock"}}

\* A step lets one thread in where none is, or the one that is inside out, or
\* leaves the inside as it is.
LEMMA LockSteps == IInv /\ IInv' /\ [Next]_vars => [LedgerLock!MutexNext]_Inside
<1> SUFFICES ASSUME IInv, IInv', [Next]_vars
             PROVE  LedgerLock!MutexNext \/ UNCHANGED Inside
  BY DEF Inside
<1>t. /\ pc \in [Threads -> Labels] /\ \A t \in Threads : pc[t] \in Held => holder = t
      /\ Inside = {t \in Threads : pc[t] \in Held}
      /\ Inside' = {t \in Threads : pc'[t] \in Held}
  BY DEF IInv, TypeOK, ThreadInv, Inside, Held
<1>1. ASSUME NEW t \in Threads, Lock(t) PROVE LedgerLock!MutexNext
  <2>1. Inside = {}
    BY <1>t, <1>1, LedgerAssumption DEF Lock
  <2>2. Inside' = {t}
    BY <1>t, <1>1, <2>1 DEF Lock, Goto, Held
  <2>3. LedgerLock!MutexEnter(t)
    BY <2>1, <2>2 DEF LedgerLock!MutexEnter, Inside
  <2>4. QED
    BY <2>3 DEF LedgerLock!MutexNext
<1>2. ASSUME NEW t \in Threads, Unlock(t) PROVE LedgerLock!MutexNext
  <2>1. Inside = {t}
    BY <1>t, <1>2 DEF Unlock, Held
  <2>2. Inside' = {}
    BY <1>t, <1>2, <2>1 DEF Unlock, Goto, Held
  <2>3. LedgerLock!MutexLeave
    BY <2>1, <2>2 DEF LedgerLock!MutexLeave, Inside
  <2>4. QED
    BY <2>3 DEF LedgerLock!MutexNext
<1>3. ASSUME NEW t \in Threads,
             \/ \E e \in Entries, v \in Values \union {None} : Start(t, e, v)
             \/ LockTimeout(t) \/ Read(t) \/ OpenTemp(t) \/ WriteTemp(t) \/ WriteFails(t)
             \/ Replace(t)
      PROVE  UNCHANGED Inside
  <2>1. \A u \in Threads : pc'[u] \in Held <=> pc[u] \in Held
    BY <1>t, <1>3
       DEF Start, LockTimeout, Read, OpenTemp, WriteTemp, WriteFails, Replace, End, Goto, Held
  <2>2. QED
    BY <1>t, <2>1
<1>4. ASSUME NEW p \in Procs, Crash(p) PROVE LedgerLock!MutexNext \/ UNCHANGED Inside
  <2>1. \A u \in Threads : pc'[u] = IF ProcOf[u] = p THEN "idle" ELSE pc[u]
    BY <1>4 DEF Crash
  <2>2. CASE \E t \in Threads : ProcOf[t] = p /\ pc[t] \in Held
    <3>1. PICK t \in Threads : ProcOf[t] = p /\ pc[t] \in Held
      BY <2>2
    <3>2. Inside = {t} /\ Inside' = {}
      BY <1>t, <2>1, <3>1 DEF Held
    <3>3. LedgerLock!MutexLeave
      BY <3>2 DEF LedgerLock!MutexLeave, Inside
    <3>4. QED
      BY <3>3 DEF LedgerLock!MutexNext
  <2>3. CASE \A t \in Threads : ProcOf[t] = p => pc[t] \notin Held
    BY <1>t, <2>1, <2>3 DEF Held
  <2>4. QED
    BY <2>2, <2>3
<1>5. CASE UNCHANGED vars
  BY <1>t, <1>5 DEF vars
<1>6. QED
  BY <1>1, <1>2, <1>3, <1>4, <1>5 DEF Next, OpStep

\* The ledger lock is a mutex around every operation, its failures and the
\* deaths of its process included (Store._ledger).
THEOREM LockIsMutex == Spec => LedgerLockIsMutex
<1>1. Init => LedgerLock!MutexInit
  BY DEF Init, LedgerLock!MutexInit
<1>2. IInv /\ IInv' /\ [Next]_vars => [LedgerLock!MutexNext]_Inside
  BY LockSteps
<1>3. QED
  BY <1>1, <1>2, Invariance, PTL DEF Spec, LedgerLockIsMutex, LedgerLock!MutexSpec, Inside

-----------------------------------------------------------------------------
\* The steps an operation has left, with the lock to itself or without.
StepsLeft(l) ==
    CASE l = "lock" -> 6 [] l = "read" -> 5 [] l = "open" -> 4 [] l = "write" -> 3
      [] l = "replace" -> 2 [] l = "unlock" -> 1 [] OTHER -> 0

\* Each step of an operation brings it nearer to its end; nobody else's step
\* takes it back.
OperationsAdvance ==
    [][\A t \in Threads :
           /\ OpStep(t) => StepsLeft(pc'[t]) < StepsLeft(pc[t])
           /\ pc[t] # "idle" => StepsLeft(pc'[t]) <= StepsLeft(pc[t])]_vars

\* No read or put of a ledger loops or retries: it ends after at most six steps
\* of its own, so that a thread waiting for the ledger lock waits for a bounded
\* number of steps of its holder.
THEOREM OperationsAreBounded == Spec => OperationsAdvance
<1>1. ASSUME TypeOK, NEW t \in Threads, OpStep(t)
      PROVE  StepsLeft(pc'[t]) < StepsLeft(pc[t])
  BY <1>1
     DEF OpStep, Lock, LockTimeout, Read, OpenTemp, WriteTemp, WriteFails, Replace, Unlock, End,
         Goto, TypeOK, StepsLeft
<1>2. ASSUME TypeOK, NEW t \in Threads, [Next]_vars, ~OpStep(t), pc[t] # "idle"
      PROVE  StepsLeft(pc'[t]) <= StepsLeft(pc[t])
  <2>1. StepsLeft(pc[t]) \in 0 .. 6 /\ StepsLeft("idle") = 0
    BY DEF StepsLeft
  <2>2. pc'[t] = pc[t] \/ pc'[t] = "idle"
    <3>1. ASSUME NEW u \in Threads, u # t, OpStep(u) PROVE pc'[t] = pc[t]
      BY <1>2, <3>1
         DEF OpStep, Lock, LockTimeout, Read, OpenTemp, WriteTemp, WriteFails, Replace, Unlock,
             End, Goto, TypeOK
    <3>2. ASSUME NEW u \in Threads, NEW e, NEW v, Start(u, e, v) PROVE pc'[t] = pc[t]
      BY <1>2, <3>2 DEF Start, Goto, TypeOK
    <3>3. ASSUME NEW p \in Procs, Crash(p) PROVE pc'[t] \in {pc[t], "idle"}
      BY <3>3 DEF Crash
    <3>4. QED
      BY <1>2, <3>1, <3>2, <3>3 DEF Next, vars
  <2>3. QED
    BY <2>1, <2>2
<1>3. TypeOK /\ [Next]_vars =>
          [\A t \in Threads :
               /\ OpStep(t) => StepsLeft(pc'[t]) < StepsLeft(pc[t])
               /\ pc[t] # "idle" => StepsLeft(pc'[t]) <= StepsLeft(pc[t])]_vars
  <2>1. \A l : StepsLeft(l) \in Nat
    BY DEF StepsLeft
  <2>2. QED
    BY <1>1, <1>2, <2>1
<1>4. IInv => TypeOK
  BY DEF IInv
<1>5. QED
  BY <1>3, <1>4, Invariance, PTL DEF Spec, OperationsAdvance
=============================================================================
