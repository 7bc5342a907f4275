------------------------------- MODULE Ledger -------------------------------
(***************************************************************************)
(* One ledger file of store.py, proofs.json or inflight.json: reads and    *)
(* read-modify-writes of single entries by threads of several processes,   *)
(* under the short ledger lock, with the temporary file and the rename of  *)
(* _atomic_write_json, failing writes and dying processes.                 *)
(*                                                                         *)
(* The ledger lock is the mutex NamedLock implements: holder.  A file is   *)
(* the map its JSON holds, or Torn: a file whose writing was cut short.    *)
(* The temporary files have a name per write, so each thread has its own.  *)
(***************************************************************************)
EXTENDS Naturals

CONSTANTS
    Threads,     \* threads that use the ledger
    ProcOf,      \* ProcOf[t]: the process of thread t
    Entries,     \* proof ids, or idempotency keys
    Values,      \* the records an entry can have
    None,
    Torn,        \* a file that does not parse
    ReadFaults   \* reading a sound file may fail (an OSError)

Procs == {ProcOf[t] : t \in Threads}
Maps == [Entries -> Values \union {None}]
Empty == [e \in Entries |-> None]

ASSUME LedgerAssumption ==
    /\ None \notin Threads \union Values \union Maps
    /\ Torn \notin Maps \union {None}

VARIABLES
    pc,       \* pc[t]: the next step of thread t
    op,       \* op[t]: [entry, value], value None for a read
    holder,   \* who holds the ledger lock
    file,     \* the ledger file
    data,     \* data[t]: what thread t read, with its change
    temp,     \* temp[t]: thread t's temporary file, None when there is none
    outcome   \* outcome[t]: how thread t's last operation ended

vars == <<pc, op, holder, file, data, temp, outcome>>

Labels == {"idle", "lock", "read", "open", "write", "replace", "unlock"}
Outcomes == {"none", "timeout", "failed", "put", "got"}
Operations == [entry: Entries, value: Values \union {None}]

TypeOK ==
    /\ pc \in [Threads -> Labels]
    /\ op \in [Threads -> Operations \union {None}]
    /\ holder \in Threads \union {None}
    /\ file \in Maps \union {Torn}
    /\ data \in [Threads -> Maps \union {None}]
    /\ temp \in [Threads -> Maps \union {Torn, None}]
    /\ outcome \in [Threads -> Outcomes]

Init ==
    /\ pc = [t \in Threads |-> "idle"]
    /\ op = [t \in Threads |-> None]
    /\ holder = None
    /\ file = Empty
    /\ data = [t \in Threads |-> None]
    /\ temp = [t \in Threads |-> None]
    /\ outcome = [t \in Threads |-> "none"]

Goto(t, l) == pc' = [pc EXCEPT ![t] = l]
End(t, o) == Goto(t, "unlock") /\ outcome' = [outcome EXCEPT ![t] = o]

\* get_proof and get_inflight read, put_proof and put_inflight write an entry.
Start(t, e, v) ==
    /\ pc[t] = "idle"
    /\ op' = [op EXCEPT ![t] = [entry |-> e, value |-> v]]
    /\ outcome' = [outcome EXCEPT ![t] = "none"]
    /\ Goto(t, "lock")
    /\ UNCHANGED <<holder, file, data, temp>>

\* (variant) The read-modify-write is not locked.
LockNothing(t) ==
    /\ pc[t] = "lock"
    /\ Goto(t, "read")
    /\ UNCHANGED <<op, holder, file, data, temp, outcome>>

Lock(t) ==
    /\ pc[t] = "lock"
    /\ holder = None
    /\ holder' = t
    /\ Goto(t, "read")
    /\ UNCHANGED <<op, file, data, temp, outcome>>

\* (variant) The wait for the ledger lock has no deadline.
LockWaits(t) == FALSE

\* The deadline of _ledger() passes.
LockTimeout(t) ==
    /\ pc[t] = "lock"
    /\ holder # None
    /\ Goto(t, "idle")
    /\ outcome' = [outcome EXCEPT ![t] = "timeout"]
    /\ UNCHANGED <<op, holder, file, data, temp>>

\* _read_json: a missing file, one that does not parse and one that cannot be
\* read are all {}.
ReadJson == {IF file = Torn THEN Empty ELSE file} \union (IF ReadFaults THEN {Empty} ELSE {})

\* (variant) The new record is written in place of the whole map.
ReadDropsMap(t) ==
    /\ pc[t] = "read"
    /\ \E m \in ReadJson :
           IF op[t].value = None
           THEN data' = [data EXCEPT ![t] = m] /\ End(t, "got")
           ELSE /\ data' = [data EXCEPT ![t] = op[t].value]
                /\ Goto(t, "open")
                /\ UNCHANGED outcome
    /\ UNCHANGED <<op, holder, file, temp>>

\* A reader returns what it read; a writer changes its entry of it.
Read(t) ==
    /\ pc[t] = "read"
    /\ \E m \in ReadJson :
           IF op[t].value = None
           THEN /\ data' = [data EXCEPT ![t] = m]
                /\ End(t, "got")
           ELSE /\ data' = [data EXCEPT ![t] = [m EXCEPT ![op[t].entry] = op[t].value]]
                /\ Goto(t, "open")
                /\ UNCHANGED outcome
    /\ UNCHANGED <<op, holder, file, temp>>

\* (variant) The ledger file itself is opened for writing.
OpenInPlace(t) ==
    /\ pc[t] = "open"
    /\ temp' = [temp EXCEPT ![t] = Torn]
    /\ file' = Torn
    /\ Goto(t, "write")
    /\ UNCHANGED <<op, holder, data, outcome>>

\* The temporary file is opened: it is empty, then partly written.
OpenTemp(t) ==
    /\ pc[t] = "open"
    /\ temp' = [temp EXCEPT ![t] = Torn]
    /\ Goto(t, "write")
    /\ UNCHANGED <<op, holder, file, data, outcome>>

\* json.dump, flush and fsync have all been done.
WriteTemp(t) ==
    /\ pc[t] = "write"
    /\ temp' = [temp EXCEPT ![t] = data[t]]
    /\ Goto(t, "replace")
    /\ UNCHANGED <<op, holder, file, data, outcome>>

\* (variant) The exception is swallowed.
WriteFailsSilently(t) ==
    /\ pc[t] \in {"open", "write", "replace"}
    /\ temp' = [temp EXCEPT ![t] = None]
    /\ End(t, "put")
    /\ UNCHANGED <<op, holder, file, data>>

\* A full disk, a permission: the temporary file is removed and the exception
\* leaves the locked block.
WriteFails(t) ==
    /\ pc[t] \in {"open", "write", "replace"}
    /\ temp' = [temp EXCEPT ![t] = None]
    /\ End(t, "failed")
    /\ UNCHANGED <<op, holder, file, data>>

\* The rename puts the new file in place in one step.
Replace(t) ==
    /\ pc[t] = "replace"
    /\ file' = temp[t]
    /\ temp' = [temp EXCEPT ![t] = None]
    /\ End(t, "put")
    /\ UNCHANGED <<op, holder, data>>

\* The lock is given back, whatever happened.
Unlock(t) ==
    /\ pc[t] = "unlock"
    /\ holder' = None
    /\ data' = [data EXCEPT ![t] = None]
    /\ Goto(t, "idle")
    /\ UNCHANGED <<op, file, temp, outcome>>

\* The process dies between any two of these steps; its lock is dropped, its
\* temporary files stay behind under names nobody uses again.
Crash(p) ==
    LET dead == {t \in Threads : ProcOf[t] = p}
    IN  /\ pc' = [t \in Threads |-> IF t \in dead THEN "idle" ELSE pc[t]]
        /\ op' = [t \in Threads |-> IF t \in dead THEN None ELSE op[t]]
        /\ data' = [t \in Threads |-> IF t \in dead THEN None ELSE data[t]]
        /\ temp' = [t \in Threads |-> IF t \in dead THEN None ELSE temp[t]]
        /\ outcome' = [t \in Threads |-> IF t \in dead THEN "none" ELSE outcome[t]]
        /\ holder' = IF holder \in dead THEN None ELSE holder
        /\ UNCHANGED file

OpStep(t) ==
    \/ Lock(t)
    \/ LockTimeout(t)
    \/ Read(t)
    \/ OpenTemp(t)
    \/ WriteTemp(t)
    \/ WriteFails(t)
    \/ Replace(t)
    \/ Unlock(t)

Next ==
    \/ \E t \in Threads :
           \/ \E e \in Entries, v \in Values \union {None} : Start(t, e, v)
           \/ OpStep(t)
    \/ \E p \in Procs : Crash(p)

Spec == Init /\ [][Next]_vars

\* Threads are scheduled; LockTimeout is the deadline of the ledger lock.
FairSpec == Spec /\ \A t \in Threads : WF_vars(OpStep(t))
---------------------------------------------------------------------------
\* A crash or a failing write at any point leaves a ledger that parses.
NeverTorn == file # Torn

\* While a thread that has put or got its entry still holds the lock, the file
\* is what it wrote, or read: no other writer came in between, and a put that
\* reports success is on disk.
AnswersAreCurrent ==
    \A t \in Threads :
        pc[t] = "unlock" /\ outcome[t] \in {"put", "got"} => file = data[t]

\* Every read and every put ends.
OperationsEnd == \A t \in Threads : pc[t] # "idle" ~> pc[t] = "idle"

Map == INSTANCE LedgerMap WITH map <- file

\* Seen from the disk, the ledger is a map changed one entry at a time: no
\* put loses the record of another letter, in whatever order threads of
\* several processes read, write, fail and die (Store._update_ledger).
ImplementsLedgerMap == Map!MapSpec

\* The ledger lock, as the operations use it.
LedgerLock == INSTANCE Mutex WITH
    Callers <- Threads,
    inside <- {t \in Threads : pc[t] \in {"read", "open", "write", "replace", "unlock"}}

\* An operation is inside the ledger lock from its read to its end, however it
\* ends, and is there alone (Store._ledger).
LedgerLockIsMutex == LedgerLock!MutexSpec
===========================================================================
